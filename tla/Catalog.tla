------------------------------ MODULE Catalog -------------------------------
(***************************************************************************)
(* The catalogue under the orders: products and variants, combos, boxes,   *)
(* and requests about orders that run at the same time.                    *)
(*                                                                         *)
(* Orders has every handler as one transaction.  Here a request reads in   *)
(* one step and commits in another, and what it commits is the columns it  *)
(* has changed, as it computed them: reserved_qty and stock_qty are added  *)
(* up in Python.  The catalogue may change between the reservation of an   *)
(* order and its release, and the release looks the units up again.        *)
(* Replacing the lines, rejecting a payment and the other statuses are     *)
(* left to Orders, and so is more than one component of a kind in a combo. *)
(***************************************************************************)
EXTENDS Naturals, FiniteSets, FiniteSetsExt, Functions

CONSTANTS
    Product, Combo,    \* Combo: the products that are sets of others
    Variant, Owner,    \* Owner[v]: the product of variant v
    Shade,             \* boxes, all of one category, that of the plain products
    Stocked,           \* the variants with fulfillment_type "stocked": their availability is checked
    Buyer,
    MaxOrders,         \* bound: orders ever created; an order has one line
    Request,           \* bound: the requests about orders that run at a time, 1 .. n
    Quantity,          \* bound: what a line may ask for
    Level,             \* bound: the stock that is ever put on a shelf
    MaxEdits,          \* bound: changes of the catalogue after the creation of its rows
    NoShade

Unit == Variant \cup Shade
Order == 1 .. MaxOrders
Plain == {v \in Variant : Owner[v] \notin Combo}

ASSUME CatalogAssumption ==
    /\ Combo \subseteq Product /\ Owner \in [Variant -> Product]
    /\ Variant \cap Shade = {} /\ NoShade \notin Unit /\ Stocked \subseteq Plain
    /\ Quantity \subseteq Nat \ {0} /\ Level \subseteq Nat
    /\ MaxOrders \in Nat /\ MaxEdits \in Nat /\ Request \subseteq Nat

VARIABLES
    unit,       \* the rows of variants and boxes: where each stands, stock_qty and reserved_qty
    content,    \* the components of each combo
    shelved,    \* whether the category of the boxes is there
    placed,     \* the orders; holds: the units that were reserved for the line
    request,    \* what each request is going to commit
    edits,
    blurred,    \* history: units written over, or held for a combo that has changed since
    doubled     \* history: customers for whom two requests made an order at once

catalogVars == <<unit, content, shelved, placed, request, edits, blurred, doubled>>

Where == {"none", "on", "off", "deleted", "gone"}   \* gone: the row itself is deleted
Live == {x \in Unit : unit[x].at \in {"on", "off"}}
VariantsOf(p) == {v \in Variant : Owner[v] = p}
Living(p) == VariantsOf(p) \cap Live # {}
Standing == {o \in Order : placed[o].status = "open"}
Idle == [stage |-> "idle"]
Running == {r \in Request : request[r] # Idle}
Unused == [status |-> "none"]

PlacedLine == [status : {"open", "closed"}, buyer : Buyer, variant : Variant, quantity : Quantity,
               shade : Shade \cup {NoShade}, holds : SUBSET Unit]

\* What a request has in mind: the reserved_qty of the rows in S and the stock_qty of those in T, among others.
Plan(S, T) == [stage : {"open", "close"}, order : Nat, closes : SUBSET Order, booked : [S -> Nat], stock : [T -> Nat],
               late : SUBSET Unit, rival : BOOLEAN, line : PlacedLine \cup {Unused}]

\* Every variable keeps its type: a combo holds variants of plain products only, an order has one line
\* for good, and what a request commits are numbers of rows of the catalogue.
CatalogTypeOK ==
    /\ unit \in [Unit -> [at : Where, stock : Nat, booked : Nat]]
    /\ content \in [Combo -> SUBSET Plain] /\ shelved \in BOOLEAN /\ edits \in 0 .. MaxEdits
    /\ placed \in [Order -> PlacedLine \cup {Unused}]
    /\ DOMAIN request = Request
    /\ \A r \in Running : \E S, T \in SUBSET Unit : request[r] \in Plan(S, T)
    /\ blurred \subseteq Unit /\ doubled \subseteq Buyer

-----------------------------------------------------------------------------
(* What the handlers are built from.                                       *)

\* resolve_stock_targets: nothing for a deleted variant, and no look at the state of a component.
Targets(v) ==
    IF v \notin Live THEN {} ELSE IF Owner[v] \in Combo THEN content[Owner[v]] ELSE {v}

HeldVariants(o) == Targets(placed[o].variant)
Held(o) == Targets(placed[o].variant) \cup ({placed[o].shade} \cap Live)

Less(n, m) == IF n > m THEN n - m ELSE 0

Quantities == [o \in Standing |-> placed[o].quantity]

Owed(x, S) == SumFunctionOnSet(Quantities, {o \in S : x \in Held(o)})

\* reserved_qty in the session once the lines of the orders in S are released.
Released(S) == [x \in Unit |-> Less(unit[x].booked, Owed(x, S))]

Touched(S) == {x \in Unit : Owed(x, S) > 0 /\ unit[x].booked > 0}

\* The checks of _process_items.  enabled is the setting boxes_enabled.
Acceptable(v, quantity, shade, enabled, booked) ==
    LET enough(x) == unit[x].stock >= booked[x] + quantity
        boxed == shelved /\ v \in Plain
    IN /\ unit[v].at = "on" /\ Targets(v) # {}
       /\ \A x \in Targets(v) \cap Stocked : enough(x)
       /\ IF shade # NoShade THEN enabled /\ boxed /\ unit[shade].at = "on" /\ enough(shade)
          ELSE enabled /\ boxed => \A b \in Shade : unit[b].at = "on" => unit[b].stock <= booked[b]

-----------------------------------------------------------------------------
(* Requests about orders.                                                  *)

Prepare(r, plan) ==
    /\ request[r] = Idle /\ \A q \in Request : q < r => request[q] # Idle
    /\ request' = [request EXCEPT ![r] = plan]
    /\ UNCHANGED <<unit, content, shelved, placed, edits, blurred, doubled>>

FreshOrder == {o \in Order : /\ placed[o] = Unused
                             /\ \A q \in Running : request[q].order # o
                             /\ \A p \in Order : p < o => placed[p] # Unused \/ \E q \in Running : request[q].order = p}

\* create_order: the open orders of the customer are cancelled, the new line is checked and reserved.
PlanOrder(r, o, b, v, quantity, shade, enabled, closes) ==
    LET booked == Released(closes)
        holds == Targets(v) \cup ({shade} \ {NoShade})
        wrote == Touched(closes) \cup holds
    IN /\ Acceptable(v, quantity, shade, enabled, booked)
       /\ Prepare(r, [stage |-> "open", order |-> o, closes |-> closes, stock |-> [x \in {} |-> 0], late |-> {}, rival |-> FALSE,
                      booked |-> [x \in wrote |-> booked[x] + IF x \in holds THEN quantity ELSE 0],
                      line |-> [status |-> "open", buyer |-> b, variant |-> v, quantity |-> quantity, shade |-> shade, holds |-> holds]])

OrdersOf(b) == {o \in Standing : placed[o].buyer = b}

CreateBesides(r, o, b, v, quantity, shade, enabled, byAi) ==
    PlanOrder(r, o, b, v, quantity, shade, enabled, {})

\* The tool of the model finds any living variant by id, product or text, drops an unknown box,
\* and answers with the newest open order if that has the same line.
Create(r, o, b, v, quantity, shade, enabled, byAi) ==
    LET newest == Max(OrdersOf(b))
    IN /\ byAi /\ OrdersOf(b) # {} => placed[newest].variant # v \/ placed[newest].quantity # quantity
       /\ PlanOrder(r, o, b, v, quantity, shade, enabled, OrdersOf(b))

Close(r, o, booked, stock) ==
    Prepare(r, [stage |-> "close", order |-> 0, closes |-> {o}, booked |-> booked, stock |-> stock, late |-> {}, rival |-> FALSE,
                line |-> Unused])

Cancel(r, o) ==
    /\ o \in Standing
    /\ Close(r, o, [x \in Touched({o}) |-> Released({o})[x]], [x \in {} |-> 0])

\* approve: the units leave the stock as well.
Approve(r, o) ==
    /\ o \in Standing
    /\ Close(r, o, [x \in Touched({o}) |-> Released({o})[x]],
             [x \in {y \in Held(o) : unit[y].stock > 0} |-> Less(unit[x].stock, placed[o].quantity)])

\* The commit of a request: it fails if a row that it names is gone, and it writes over what it has not seen.
CommitRequest(r) ==
    LET plan == request[r]
        wrote == DOMAIN plan.booked \cup DOMAIN plan.stock
        opens == plan.stage = "open"
        other(q) == [request[q] EXCEPT !.late = @ \cup wrote,
                                       !.rival = @ \/ (opens /\ request[q].stage = "open" /\ request[q].line.buyer = plan.line.buyer)]
    IN /\ r \in Running /\ \A x \in wrote : unit[x].at # "gone"
       /\ unit' = [x \in Unit |-> [unit[x] EXCEPT !.booked = IF x \in DOMAIN plan.booked THEN plan.booked[x] ELSE @,
                                                  !.stock = IF x \in DOMAIN plan.stock THEN plan.stock[x] ELSE @]]
       /\ placed' = [o \in Order |-> IF o \in plan.closes THEN [placed[o] EXCEPT !.status = "closed"]
                                     ELSE IF opens /\ o = plan.order THEN plan.line ELSE placed[o]]
       /\ blurred' = blurred \cup (wrote \cap plan.late)
       /\ doubled' = IF opens /\ plan.rival THEN doubled \cup {plan.line.buyer} ELSE doubled
       /\ request' = [q \in Request |-> IF q = r \/ q \notin Running THEN Idle ELSE other(q)]
       /\ UNCHANGED <<content, shelved, edits>>

FailRequest(r) ==
    /\ r \in Running /\ \E x \in DOMAIN request[r].booked \cup DOMAIN request[r].stock : unit[x].at = "gone"
    /\ request' = [request EXCEPT ![r] = Idle]
    /\ UNCHANGED <<unit, content, shelved, placed, edits, blurred, doubled>>

-----------------------------------------------------------------------------
(* The catalogue.                                                          *)

NewRow(n) == [at |-> "on", stock |-> n, booked |-> 0]
Put(S, at) == [x \in Unit |-> IF x \in S THEN [unit[x] EXCEPT !.at = at] ELSE unit[x]]
Kept == UNCHANGED <<placed, request, doubled>>

AddRows(S, n) ==
    /\ S # {} /\ \A x \in S : unit[x].at = "none"
    /\ unit' = [x \in Unit |-> IF x \in S THEN NewRow(n) ELSE unit[x]]
    /\ Kept /\ UNCHANGED <<content, shelved, edits, blurred>>

\* create_product with all its variants, add_variant.
CreateProduct(p, S, n) ==
    /\ p \notin Combo /\ S \subseteq VariantsOf(p) /\ (S = VariantsOf(p) \/ Living(p))
    /\ AddRows(S, n)

CreateBox(b, n) == shelved /\ AddRows({b}, n)

\* seed_boxes: a category without living boxes is filled.
SeedBoxes(n) == shelved /\ Shade \cap Live = {} /\ AddRows({b \in Shade : unit[b].at = "none"}, n)

Edit(S) ==
    /\ edits < MaxEdits
    /\ edits' = edits + 1
    /\ blurred' = blurred \cup S
    /\ UNCHANGED <<request, doubled>>

\* update_variant and update_box.
Switch(x) ==
    /\ x \in Live /\ Edit({})
    /\ unit' = Put({x}, IF unit[x].at = "on" THEN "off" ELSE "on")
    /\ UNCHANGED <<content, shelved, placed>>

\* adjust_stock and adjust_box_stock: what is reserved is not looked at.
AdjustStock(x, n) ==
    /\ x \in Live /\ Edit({})
    /\ unit' = [unit EXCEPT ![x].stock = n]
    /\ UNCHANGED <<content, shelved, placed>>

DeleteProduct(p) ==
    /\ p \notin Combo /\ Living(p) /\ Edit({})
    /\ unit' = Put(VariantsOf(p), "deleted")
    /\ UNCHANGED <<content, shelved, placed>>

DeleteBox(b) ==
    /\ b \in Live /\ Edit({})
    /\ unit' = Put({b}, "deleted")
    /\ UNCHANGED <<content, shelved, placed>>

\* The rows of its boxes go with a category, and the lines of the orders lose them.
DeleteCategory ==
    /\ shelved /\ Edit({})
    /\ shelved' = FALSE
    /\ unit' = Put({b \in Shade : unit[b].at # "none"}, "gone")
    /\ placed' = [o \in Order |-> IF placed[o] = Unused THEN Unused ELSE [placed[o] EXCEPT !.shade = NoShade]]
    /\ UNCHANGED content

\* The components that orders of a combo hold, made or in the making.
HeldFor(c) ==
    UNION ({placed[o].holds : o \in {p \in Standing : placed[p].variant \in VariantsOf(c)}}
           \cup {request[r].line.holds : r \in {q \in Running : request[q].stage = "open" /\ request[q].line.variant \in VariantsOf(c)}})

AnyComponent(v) == unit[v].at = "on"
Component(v) == unit[v].at = "on" /\ v \in Plain

CreateCombo(c, S) ==
    /\ S # {} /\ \A v \in S : Component(v)
    /\ \A v \in VariantsOf(c) : unit[v].at = "none"
    /\ content' = [content EXCEPT ![c] = S]
    /\ unit' = [x \in Unit |-> IF x \in VariantsOf(c) THEN NewRow(0) ELSE unit[x]]
    /\ Kept /\ UNCHANGED <<shelved, edits, blurred>>

\* add_combo_item: the orders of the combo that are open will release the new component too.
AddComboItem(c, v) ==
    /\ Living(c) /\ Component(v) /\ v \notin content[c]
    /\ Edit(IF HeldFor(c) = {} THEN {} ELSE {v})
    /\ content' = [content EXCEPT ![c] = @ \cup {v}]
    /\ UNCHANGED <<unit, shelved, placed>>

RemoveComboItem(c, v) ==
    /\ v \in content[c] /\ Edit(HeldFor(c) \cap {v})
    /\ content' = [content EXCEPT ![c] = @ \ {v}]
    /\ UNCHANGED <<unit, shelved, placed>>

DeleteCombo(c) ==
    /\ Living(c) /\ Edit(HeldFor(c))
    /\ unit' = Put(VariantsOf(c), "deleted")
    /\ UNCHANGED <<content, shelved, placed>>

-----------------------------------------------------------------------------
CatalogInit ==
    /\ unit = [x \in Unit |-> [at |-> "none", stock |-> 0, booked |-> 0]]
    /\ content = [c \in Combo |-> {}] /\ shelved = TRUE
    /\ placed = [o \in Order |-> Unused] /\ request = [r \in Request |-> Idle]
    /\ edits = 0 /\ blurred = {} /\ doubled = {}

CatalogNext ==
    \/ \E r \in Request, o \in FreshOrder, b \in Buyer, v \in Variant, quantity \in Quantity,
          shade \in Shade \cup {NoShade}, enabled, byAi \in BOOLEAN : Create(r, o, b, v, quantity, shade, enabled, byAi)
    \/ \E r \in Request, o \in Order : Cancel(r, o) \/ Approve(r, o)
    \/ \E r \in Request : CommitRequest(r) \/ FailRequest(r)
    \/ \E p \in Product, S \in SUBSET Variant, n \in Level : CreateProduct(p, S, n)
    \/ \E b \in Shade, n \in Level : CreateBox(b, n)
    \/ \E n \in Level : SeedBoxes(n)
    \/ \E x \in Unit : Switch(x)
    \/ \E x \in Unit, n \in Level : AdjustStock(x, n)
    \/ \E p \in Product : DeleteProduct(p)
    \/ \E b \in Shade : DeleteBox(b)
    \/ DeleteCategory
    \/ \E c \in Combo, S \in SUBSET Variant : CreateCombo(c, S)
    \/ \E c \in Combo, v \in Variant : AddComboItem(c, v) \/ RemoveComboItem(c, v)
    \/ \E c \in Combo : DeleteCombo(c)

CatalogSpec == CatalogInit /\ [][CatalogNext]_catalogVars

-----------------------------------------------------------------------------
(* Properties.                                                             *)

\* What is reserved of a living unit is what the open orders took of it when they were made, as long as
\* no two requests wrote its row at once and no combo changed under an order: release_reservation and
\* approve look up again what create_order looked up.
BookedIsOpen ==
    \A x \in Live \ blurred :
        unit[x].booked = SumFunctionOnSet(Quantities, {o \in Standing : x \in placed[o].holds})

\* "One active order per customer" (create_order): only requests that ran at once leave a customer two.
OneOpenOrder ==
    \A b \in Buyer \ doubled : Cardinality(OrdersOf(b)) <= 1
=============================================================================
