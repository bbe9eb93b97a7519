---------------------------- MODULE OrdersProofs ----------------------------
(***************************************************************************)
(* What Orders promises for every shop: any number of orders, customers,   *)
(* stock rows and baskets.                                                 *)
(***************************************************************************)
EXTENDS Orders, FiniteSetTheorems, TLAPS

(* The arithmetic of Demand, Less and Released.                            *)

\* The units that a set of orders takes of one row are the elements of a finite set.
LEMMA UnitsFinite ==
    ASSUME NEW S \in SUBSET Order, NEW s \in Stock
    PROVE  IsFiniteSet({u \in S \X (1 .. MaxNeed) : u[2] <= Need(u[1])[s]})
<1>1. IsFiniteSet(Order) /\ IsFiniteSet(1 .. MaxNeed)
    <2>1. \A n \in Nat : IsFiniteSet(1 .. n)
        BY FS_Interval
    <2>2. QED
        BY <2>1, OrdersAssumption DEF Order
<1>2. IsFiniteSet(S)
    BY <1>1, FS_Subset
<1>3. IsFiniteSet(S \X (1 .. MaxNeed))
    BY <1>1, <1>2, FS_Product
<1>4. {u \in S \X (1 .. MaxNeed) : u[2] <= Need(u[1])[s]} \in SUBSET (S \X (1 .. MaxNeed))
    OBVIOUS
<1>5. QED
    BY <1>3, <1>4, FS_Subset

\* What a set of orders takes of one row is a natural number.
LEMMA DemandType ==
    ASSUME NEW S \in SUBSET Order, NEW s \in Stock
    PROVE  Demand(S, s) \in Nat
BY UnitsFinite, FS_CardinalityType DEF Demand

\* The clamped subtraction of approve, reject and cancel stays in the naturals and never adds.
LEMMA LessType ==
    ASSUME NEW n \in Nat, NEW k \in Nat
    PROVE  Less(n, k) \in Nat /\ Less(n, k) <= n /\ n <= Less(n, k) + k
BY DEF Less

\* It is monotonic, so taking the same units off stock and reservation keeps their order.
LEMMA LessMonotonic ==
    ASSUME NEW m \in Nat, NEW n \in Nat, NEW k \in Nat, m <= n
    PROVE  Less(m, k) <= Less(n, k)
BY DEF Less

\* Releasing reservations leaves a reservation of every row, no larger than before.
LEMMA ReleasedType ==
    ASSUME TypeOK, NEW S \in SUBSET Order
    PROVE  /\ Released(S) \in [Stock -> Nat]
           /\ \A s \in Stock : Released(S)[s] <= reserved[s]
<1>1. ASSUME NEW s \in Stock
      PROVE  Less(reserved[s], Demand(S, s)) \in Nat /\ Less(reserved[s], Demand(S, s)) <= reserved[s]
    BY DemandType, LessType DEF TypeOK
<1>2. QED
    BY <1>1 DEF Released

\* Booking a natural number of units of every row is a reservation again.
LEMMA BookedType ==
    ASSUME NEW r \in [Stock -> Nat], NEW need \in [Stock -> Nat]
    PROVE  Booked(need, r) \in [Stock -> Nat]
BY DEF Booked

\* What a basket takes, and any part of it, is a natural number of every row.
LEMMA NeedType ==
    ASSUME TypeOK, NEW b \in Basket
    PROVE  /\ catalog[b].need \in [Stock -> 0 .. MaxNeed]
           /\ catalog[b].need \in [Stock -> Nat]
           /\ \A rows \in SUBSET Stock : Only(catalog[b].need, rows) \in [Stock -> Nat]
<1>1. catalog[b].need \in [Stock -> 0 .. MaxNeed]
    BY DEF TypeOK, Entry
<1>2. catalog[b].need \in [Stock -> Nat]
    BY <1>1, OrdersAssumption
<1>3. QED
    BY <1>1, <1>2 DEF Only

\* A change of some statuses to values of their type is a status function.
LEMMA BecomeType ==
    ASSUME TypeOK, NEW f, DOMAIN f \subseteq Order, \A o \in DOMAIN f : f[o] \in Status, Become(f)
    PROVE  status' \in [Order -> Status \cup {"none"}]
BY DEF Become, TypeOK

-----------------------------------------------------------------------------
(* Type correctness.                                                       *)

LEMMA InitTypeOK == Init => TypeOK
BY OrdersAssumption DEF Init, TypeOK

LEMMA StepTypeOK == TypeOK /\ [Next]_vars => TypeOK'
<1> SUFFICES ASSUME TypeOK, [Next]_vars PROVE TypeOK'
    OBVIOUS
<1> USE OrdersAssumption
<1>0. /\ \A c \in Customer : ActiveOf(c) \in SUBSET Order
      /\ \A o \in Order : {o} \in SUBSET Order
    BY DEF ActiveOf
<1>1. ASSUME NEW o \in Order, NEW c \in Customer, NEW b \in Basket, CreateOrder(o, c, b)
      PROVE  TypeOK'
    <2>1. status' \in [Order -> Status \cup {"none"}]
        BY <1>0, <1>1, BecomeType DEF CreateOrder, Status, BoardStatus, Active
    <2>2. reserved' \in [Stock -> Nat]
        BY <1>0, <1>1, ReleasedType, BookedType, NeedType DEF CreateOrder
    <2>3. QED
        BY <1>1, <2>1, <2>2 DEF CreateOrder, TypeOK
<1>2. ASSUME NEW c \in Customer, NEW b \in Basket, AiCreateFails(c, b)
      PROVE  TypeOK'
    <2>1. status' \in [Order -> Status \cup {"none"}]
        BY <1>0, <1>2, BecomeType DEF AiCreateFails, Status, BoardStatus, Active
    <2>2. reserved' \in [Stock -> Nat]
        <3>1. PICK rows \in Prefix[b] :
                  reserved' = Booked(Only(catalog[b].need, rows), Released(ActiveOf(c)))
            BY <1>2 DEF AiCreateFails
        <3>2. Only(catalog[b].need, rows) \in [Stock -> Nat]
            BY NeedType
        <3>3. QED
            BY <1>0, <3>1, <3>2, ReleasedType, BookedType
    <2>3. QED
        BY <1>2, <2>1, <2>2 DEF AiCreateFails, TypeOK
<1>3. ASSUME NEW o \in Order, NEW b \in Basket, ReplaceItems(o, b)
      PROVE  TypeOK'
    <2>1. reserved' \in [Stock -> Nat]
        BY <1>0, <1>3, ReleasedType, BookedType, NeedType DEF ReplaceItems
    <2>2. QED
        BY <1>3, <2>1 DEF ReplaceItems, TypeOK
<1>4. ASSUME NEW o \in Order, CancelOrder(o)
      PROVE  TypeOK'
    <2>1. status' \in [Order -> Status \cup {"none"}]
        BY <1>0, <1>4, BecomeType DEF CancelOrder, Status
    <2>2. QED
        BY <1>0, <1>4, <2>1, ReleasedType DEF CancelOrder, TypeOK
<1>5. ASSUME NEW o \in Order, NEW to \in BoardStatus, SetStatus(o, to)
      PROVE  TypeOK'
    <2>1. status' \in [Order -> Status \cup {"none"}]
        BY <1>0, <1>5, BecomeType DEF SetStatus, Status
    <2>2. QED
        BY <1>5, <2>1 DEF SetStatus, TypeOK
<1>6. ASSUME NEW o \in Order, CompleteOrder(o)
      PROVE  TypeOK'
    <2>1. status' \in [Order -> Status \cup {"none"}]
        BY <1>0, <1>6, BecomeType DEF CompleteOrder, Status, BoardStatus, Fulfilment
    <2>2. QED
        BY <1>6, <2>1 DEF CompleteOrder, TypeOK
<1>7. ASSUME NEW o \in Order, NEW c \in Customer, UpdateOrder(o, c)
      PROVE  TypeOK'
    BY <1>7 DEF UpdateOrder, TypeOK
<1>8. ASSUME NEW o \in Order, AddressSet(o)
      PROVE  TypeOK'
    <2>1. status' \in [Order -> Status \cup {"none"}]
        BY <1>0, <1>8, BecomeType DEF AddressSet, Status, BoardStatus, Active
    <2>2. QED
        BY <1>8, <2>1 DEF AddressSet, TypeOK
<1>9. ASSUME NEW o \in Order, SubmitPayment(o)
      PROVE  TypeOK'
    <2>1. status' \in [Order -> Status \cup {"none"}]
        BY <1>0, <1>9, BecomeType DEF SubmitPayment, Status, BoardStatus, Active
    <2>2. QED
        BY <1>9, <2>1 DEF SubmitPayment, TypeOK, PaymentStatus
<1>10. ASSUME NEW o \in Order, Approve(o)
       PROVE  TypeOK'
    <2>1. status' \in [Order -> Status \cup {"none"}]
        BY <1>0, <1>10, BecomeType DEF Approve, Status, BoardStatus, Fulfilment
    <2>2. stock' \in [Stock -> Nat]
        BY <1>0, <1>10, DemandType, LessType DEF Approve, TypeOK
    <2>3. QED
        BY <1>0, <1>10, <2>1, <2>2, ReleasedType DEF Approve, TypeOK, PaymentStatus
<1>11. ASSUME NEW o \in Order, Reject(o)
       PROVE  TypeOK'
    BY <1>0, <1>11, ReleasedType DEF Reject, TypeOK, PaymentStatus
<1>12. ASSUME NEW s \in Stock, NEW delta \in Deltas, AdjustStock(s, delta)
       PROVE  TypeOK'
    BY <1>12 DEF AdjustStock, TypeOK
<1>13. ASSUME NEW b \in Basket, NEW entry \in Edits[b], EditCatalog(b, entry)
       PROVE  TypeOK'
    BY <1>13 DEF EditCatalog, TypeOK
<1>14. CASE UNCHANGED vars
    BY <1>14 DEF vars, TypeOK
<1>15. QED
    BY <1>1, <1>2, <1>3, <1>4, <1>5, <1>6, <1>7, <1>8, <1>9, <1>10, <1>11, <1>12, <1>13, <1>14
       DEF Next, OrderStep, PaymentStep, CatalogStep

\* Every reachable state has its types; in particular no reservation and no stock goes negative.
THEOREM TypeCorrect == Spec => []TypeOK
BY InitTypeOK, StepTypeOK, PTL DEF Spec

-----------------------------------------------------------------------------
(* The reservation never exceeds the stock.                                *)

\* After a release, whatever passes the availability check can be booked: the reservation
\* still fits in the stock.
LEMMA BookedFits ==
    ASSUME TypeOK, ReservedWithinStock, NEW S \in SUBSET Order, NEW need \in [Stock -> Nat],
           Fits(need, Released(S)), NEW s \in Checked
    PROVE  Booked(need, Released(S))[s] <= stock[s]
<1>1. s \in Stock
    BY OrdersAssumption
<1>2. /\ Released(S)[s] \in Nat /\ Released(S)[s] <= reserved[s]
      /\ reserved[s] \in Nat /\ stock[s] \in Nat /\ reserved[s] <= stock[s]
      /\ need[s] \in Nat /\ Booked(need, Released(S))[s] = Released(S)[s] + need[s]
    BY <1>1, ReleasedType DEF TypeOK, ReservedWithinStock, Booked
<1>3. CASE need[s] > 0
    BY <1>2, <1>3 DEF Fits
<1>4. CASE need[s] = 0
    BY <1>2, <1>4
<1>5. QED
    BY <1>2, <1>3, <1>4

\* One step keeps the reservation within the stock, if corrections only add.
LEMMA StepReservedWithinStock ==
    ASSUME Deltas \subseteq Nat, TypeOK, ReservedWithinStock, [Next]_vars
    PROVE  ReservedWithinStock'
<1> USE OrdersAssumption
<1>0. /\ \A c \in Customer : ActiveOf(c) \in SUBSET Order
      /\ \A o \in Order : {o} \in SUBSET Order
    BY DEF ActiveOf
<1>1. ASSUME NEW o \in Order, NEW c \in Customer, NEW b \in Basket, CreateOrder(o, c, b)
      PROVE  ReservedWithinStock'
    BY <1>0, <1>1, BookedFits, NeedType DEF CreateOrder, ReservedWithinStock
<1>2. ASSUME NEW c \in Customer, NEW b \in Basket, AiCreateFails(c, b)
      PROVE  ReservedWithinStock'
    <2>1. PICK rows \in Prefix[b] :
              /\ Fits(Only(catalog[b].need, rows), Released(ActiveOf(c)))
              /\ reserved' = Booked(Only(catalog[b].need, rows), Released(ActiveOf(c)))
              /\ stock' = stock
        BY <1>2 DEF AiCreateFails
    <2>2. Only(catalog[b].need, rows) \in [Stock -> Nat]
        BY NeedType
    <2>3. QED
        BY <1>0, <2>1, <2>2, BookedFits DEF ReservedWithinStock
<1>3. ASSUME NEW o \in Order, NEW b \in Basket, ReplaceItems(o, b)
      PROVE  ReservedWithinStock'
    BY <1>0, <1>3, BookedFits, NeedType DEF ReplaceItems, ReservedWithinStock
<1>4. ASSUME NEW o \in Order, reserved' = Released({o}), stock' = stock
      PROVE  ReservedWithinStock'
    <2> SUFFICES ASSUME NEW s \in Checked PROVE reserved'[s] <= stock'[s]
        BY DEF ReservedWithinStock
    <2>1. /\ reserved'[s] \in Nat /\ reserved'[s] <= reserved[s] /\ reserved[s] <= stock[s]
          /\ reserved[s] \in Nat /\ stock[s] \in Nat
        BY <1>0, <1>4, ReleasedType DEF ReservedWithinStock, TypeOK
    <2>2. QED
        BY <1>4, <2>1
<1>5. ASSUME NEW o \in Order, Approve(o)
      PROVE  ReservedWithinStock'
    <2> SUFFICES ASSUME NEW s \in Checked PROVE reserved'[s] <= stock'[s]
        BY DEF ReservedWithinStock
    <2>1. /\ reserved'[s] = Less(reserved[s], Demand({o}, s))
          /\ stock'[s] = Less(stock[s], Demand({o}, s))
        BY <1>5 DEF Approve, Released
    <2>2. /\ reserved[s] \in Nat /\ stock[s] \in Nat /\ reserved[s] <= stock[s]
          /\ Demand({o}, s) \in Nat
        BY <1>0, DemandType DEF TypeOK, ReservedWithinStock
    <2>3. QED
        BY <2>1, <2>2, LessMonotonic
<1>6. ASSUME NEW s \in Stock, NEW delta \in Deltas, AdjustStock(s, delta)
      PROVE  ReservedWithinStock'
    <2> SUFFICES ASSUME NEW t \in Checked PROVE reserved'[t] <= stock'[t]
        BY DEF ReservedWithinStock
    <2>1. /\ reserved' = reserved /\ stock'[t] = IF t = s THEN stock[t] + delta ELSE stock[t]
          /\ delta \in Nat /\ reserved[t] \in Nat /\ stock[t] \in Nat /\ reserved[t] <= stock[t]
        BY <1>6 DEF AdjustStock, TypeOK, ReservedWithinStock
    <2>2. QED
        BY <2>1
<1>7. CASE UNCHANGED <<stock, reserved>>
    BY <1>7 DEF ReservedWithinStock
<1>8. ASSUME NEW o \in Order, OrderStep(o)
      PROVE  ReservedWithinStock'
    BY <1>1, <1>3, <1>4, <1>7, <1>8
       DEF OrderStep, CancelOrder, SetStatus, CompleteOrder, UpdateOrder
<1>9. ASSUME NEW o \in Order, PaymentStep(o)
      PROVE  ReservedWithinStock'
    BY <1>4, <1>5, <1>7, <1>9 DEF PaymentStep, AddressSet, SubmitPayment, Reject
<1>10. CASE CatalogStep
    BY <1>6, <1>7, <1>10 DEF CatalogStep, EditCatalog
<1>11. QED
    BY <1>2, <1>7, <1>8, <1>9, <1>10 DEF Next, vars

\* However the orders, the receipts, the board and the catalogue move, a checked row is never
\* booked beyond its stock, in every shop whose corrections of the stock only add to it.
THEOREM NeverOverbooked ==
    ASSUME Deltas \subseteq Nat
    PROVE  Spec => []ReservedWithinStock
<1>1. Init => ReservedWithinStock
    BY OrdersAssumption DEF Init, ReservedWithinStock
<1>2. TypeOK /\ ReservedWithinStock /\ [Next]_vars => ReservedWithinStock'
    BY StepReservedWithinStock
<1>3. QED
    BY <1>1, <1>2, TypeCorrect, PTL DEF Spec

-----------------------------------------------------------------------------
(* One active order for each customer, and no goods before the payment.    *)

\* The board never moves a paid or cancelled order back among those that wait for a payment.
NoRevival == \A m \in KanbanMoves : m[2] \in Active => m[1] \in Active

\* The board moves only paid orders along the fulfilment.
PaidBoard == \A m \in KanbanMoves : m[2] \in Fulfilment => m[1] \in Fulfilment

\* A step that changes no customer and activates no order keeps one active order per customer.
LEMMA NoneActivated ==
    ASSUME OneActiveOrder, owner' = owner,
           \A p \in Order : status'[p] \in Active => status[p] \in Active
    PROVE  OneActiveOrder'
BY DEF OneActiveOrder

\* One step keeps one active order per customer.
LEMMA StepOneActiveOrder ==
    ASSUME NoRevival, ~OwnerEdits, TypeOK, OneActiveOrder, [Next]_vars
    PROVE  OneActiveOrder'
<1>1. ASSUME NEW o \in Order, NEW c \in Customer, NEW b \in Basket, CreateOrder(o, c, b)
      PROVE  OneActiveOrder'
    <2>1. /\ \A p \in Order : owner'[p] = IF p = o THEN c ELSE owner[p]
          /\ \A p \in Order : p # o /\ status'[p] \in Active => status[p] \in Active
          /\ \A p \in Order : p # o /\ status'[p] \in Active => owner[p] # c
        BY <1>1 DEF CreateOrder, Become, ActiveOf, TypeOK, Active
    <2>2. QED
        BY <2>1 DEF OneActiveOrder
<1>2. ASSUME NEW c \in Customer, NEW b \in Basket, AiCreateFails(c, b)
      PROVE  OneActiveOrder'
    <2>1. owner' = owner /\ Become([p \in ActiveOf(c) |-> "cancelled"])
        BY <1>2 DEF AiCreateFails
    <2>2. \A p \in Order : status'[p] \in Active => status[p] \in Active
        BY <2>1 DEF Become, Active
    <2>3. QED
        BY <2>1, <2>2, NoneActivated
<1>3. ASSUME NEW o \in Order, NEW to \in BoardStatus, SetStatus(o, to)
      PROVE  OneActiveOrder'
    <2>1. \A p \in Order : status'[p] \in Active => status[p] \in Active
        BY <1>3 DEF SetStatus, Become, NoRevival
    <2>2. QED
        BY <1>3, <2>1, NoneActivated DEF SetStatus
<1>4. ASSUME NEW o \in Order,
             CancelOrder(o) \/ CompleteOrder(o) \/ PaymentStep(o) \/ \E b \in Basket : ReplaceItems(o, b)
      PROVE  OneActiveOrder'
    <2>1. owner' = owner
        BY <1>4 DEF CancelOrder, CompleteOrder, PaymentStep, AddressSet, SubmitPayment, Approve,
                    Reject, ReplaceItems
    <2>2. \A p \in Order : status'[p] \in Active => status[p] \in Active
        BY <1>4 DEF CancelOrder, CompleteOrder, PaymentStep, AddressSet, SubmitPayment, Approve,
                    Reject, ReplaceItems, Become, Active
    <2>3. QED
        BY <2>1, <2>2, NoneActivated
<1>5. CASE UNCHANGED <<status, owner>>
    BY <1>5 DEF OneActiveOrder
<1>6. ASSUME NEW o \in Order, OrderStep(o)
      PROVE  OneActiveOrder'
    BY <1>1, <1>3, <1>4, <1>6 DEF OrderStep, UpdateOrder
<1>7. CASE CatalogStep
    BY <1>5, <1>7 DEF CatalogStep, AdjustStock, EditCatalog
<1>8. QED
    BY <1>2, <1>4, <1>5, <1>6, <1>7 DEF Next, vars

\* A customer has one active order at most, whoever creates, pays and moves orders, as long as
\* staff revive no order and change no order's customer.
THEOREM OneActivePerCustomer ==
    ASSUME NoRevival, ~OwnerEdits
    PROVE  Spec => []OneActiveOrder
<1>1. Init => OneActiveOrder
    BY DEF Init, OneActiveOrder, Active
<1>2. TypeOK /\ OneActiveOrder /\ [Next]_vars => OneActiveOrder'
    BY StepOneActiveOrder
<1>3. QED
    BY <1>1, <1>2, TypeCorrect, PTL DEF Spec

\* One step hands over nothing unpaid.
LEMMA StepShippedIsPaid ==
    ASSUME PaidBoard, TypeOK, ShippedIsPaid, [Next]_vars
    PROVE  ShippedIsPaid'
<1>1. ASSUME payment' = payment,
             \A p \in Order : status'[p] \in Fulfilment => status[p] \in Fulfilment
      PROVE  ShippedIsPaid'
    BY <1>1 DEF ShippedIsPaid
<1>2. ASSUME NEW o \in Order, OrderStep(o)
      PROVE  ShippedIsPaid'
    <2>1. payment' = payment
        BY <1>2 DEF OrderStep, CreateOrder, ReplaceItems, CancelOrder, SetStatus, CompleteOrder,
                    UpdateOrder
    <2>2. \A p \in Order : status'[p] \in Fulfilment => status[p] \in Fulfilment
        <3>1. ASSUME NEW c \in Customer, NEW b \in Basket, CreateOrder(o, c, b)
              PROVE  \A p \in Order : status'[p] \in Fulfilment => status[p] \in Fulfilment
            BY <3>1 DEF CreateOrder, Become, Fulfilment
        <3>2. ASSUME NEW to \in BoardStatus, SetStatus(o, to)
              PROVE  \A p \in Order : status'[p] \in Fulfilment => status[p] \in Fulfilment
            BY <3>2 DEF SetStatus, Become, PaidBoard
        <3>3. CASE CompleteOrder(o)
            BY <3>3 DEF CompleteOrder, Become, Fulfilment
        <3>4. CASE CancelOrder(o)
            BY <3>4 DEF CancelOrder, Become, Fulfilment
        <3>5. QED
            BY <1>2, <3>1, <3>2, <3>3, <3>4 DEF OrderStep, ReplaceItems, UpdateOrder
    <2>3. QED
        BY <1>1, <2>1, <2>2
<1>3. ASSUME NEW c \in Customer, NEW b \in Basket, AiCreateFails(c, b)
      PROVE  ShippedIsPaid'
    <2>1. payment' = payment /\ Become([p \in ActiveOf(c) |-> "cancelled"])
        BY <1>3 DEF AiCreateFails
    <2>2. QED
        BY <1>1, <2>1 DEF Become, Fulfilment
<1>4. ASSUME NEW o \in Order, PaymentStep(o)
      PROVE  ShippedIsPaid'
    <2>1. CASE AddressSet(o)
        BY <1>1, <2>1 DEF AddressSet, Become, Fulfilment
    <2>2. CASE SubmitPayment(o)
        BY <2>2 DEF SubmitPayment, Become, Fulfilment, TypeOK, ShippedIsPaid
    <2>3. CASE Approve(o)
        BY <2>3 DEF Approve, Become, TypeOK, ShippedIsPaid
    <2>4. CASE Reject(o)
        BY <2>4 DEF Reject, TypeOK, ShippedIsPaid
    <2>5. QED
        BY <1>4, <2>1, <2>2, <2>3, <2>4 DEF PaymentStep
<1>5. CASE UNCHANGED <<status, payment>>
    BY <1>5 DEF ShippedIsPaid
<1>6. CASE CatalogStep
    BY <1>5, <1>6 DEF CatalogStep, AdjustStock, EditCatalog
<1>7. QED
    BY <1>2, <1>3, <1>4, <1>5, <1>6 DEF Next, vars

\* No order is prepared, packed, shipped or completed before its payment is approved, as long as
\* the board moves only orders that are already paid.
THEOREM PaidBeforeShipped ==
    ASSUME PaidBoard
    PROVE  Spec => []ShippedIsPaid
<1>1. Init => ShippedIsPaid
    BY DEF Init, ShippedIsPaid, Fulfilment
<1>2. TypeOK /\ ShippedIsPaid /\ [Next]_vars => ShippedIsPaid'
    BY StepShippedIsPaid
<1>3. QED
    BY <1>1, <1>2, TypeCorrect, PTL DEF Spec

-----------------------------------------------------------------------------
(* Sums of units over sets of orders.  DemandIn is Demand with the catalogue and the baskets as *)
(* parameters, so that one lemma speaks of the state before and after a step.                   *)

UnitsIn(cat, bas, S, s) == {u \in S \X (1 .. MaxNeed) : u[2] <= cat[bas[u[1]]].need[s]}
DemandIn(cat, bas, S, s) == Cardinality(UnitsIn(cat, bas, S, s))

\* Demand is DemandIn of today's catalogue and baskets.
LEMMA DemandIsDemandIn ==
    \A S, s : Demand(S, s) = DemandIn(catalog, basket, S, s)
BY DEF Demand, DemandIn, UnitsIn, Need

\* The units that DemandIn counts are finitely many.
LEMMA DemandInFinite ==
    ASSUME NEW cat, NEW bas, NEW S \in SUBSET Order, NEW s
    PROVE  IsFiniteSet(UnitsIn(cat, bas, S, s)) /\ DemandIn(cat, bas, S, s) \in Nat
<1>1. \A n \in Nat : IsFiniteSet(1 .. n)
    BY FS_Interval
<1>2. IsFiniteSet(S) /\ IsFiniteSet(1 .. MaxNeed)
    BY <1>1, FS_Subset, OrdersAssumption DEF Order
<1>3. IsFiniteSet(S \X (1 .. MaxNeed))
    BY <1>2, FS_Product
<1>4. UnitsIn(cat, bas, S, s) \in SUBSET (S \X (1 .. MaxNeed))
    BY DEF UnitsIn
<1>5. IsFiniteSet(UnitsIn(cat, bas, S, s))
    BY <1>3, <1>4, FS_Subset
<1>6. QED
    BY <1>5, FS_CardinalityType DEF DemandIn

\* Disjoint sets of orders take the sum of what each takes.
LEMMA DemandInUnion ==
    ASSUME NEW cat, NEW bas, NEW S \in SUBSET Order, NEW T \in SUBSET Order, S \cap T = {}, NEW s
    PROVE  DemandIn(cat, bas, S \cup T, s) = DemandIn(cat, bas, S, s) + DemandIn(cat, bas, T, s)
<1> DEFINE A == UnitsIn(cat, bas, S, s)
           B == UnitsIn(cat, bas, T, s)
<1>1. IsFiniteSet(A) /\ IsFiniteSet(B) /\ Cardinality(A) \in Nat /\ Cardinality(B) \in Nat
    <2>1. IsFiniteSet(A) /\ IsFiniteSet(B)
        BY DemandInFinite
    <2>2. QED
        BY <2>1, FS_CardinalityType
<1>2. UnitsIn(cat, bas, S \cup T, s) = A \cup B /\ A \cap B = {}
    BY DEF UnitsIn
<1>3. Cardinality(A \cup B) = Cardinality(A) + Cardinality(B)
    <2> HIDE DEF A, B
    <2>1. Cardinality(A \cup B) = Cardinality(A) + Cardinality(B) - Cardinality(A \cap B)
        BY <1>1, FS_Union
    <2>2. Cardinality(A \cap B) = 0
        BY <1>2, FS_EmptySet
    <2>3. QED
        BY <1>1, <2>1, <2>2
<1>4. QED
    BY <1>2, <1>3 DEF DemandIn

\* More orders take no fewer units.
LEMMA DemandInSubset ==
    ASSUME NEW cat, NEW bas, NEW T \in SUBSET Order, NEW S \in SUBSET T, NEW s
    PROVE  DemandIn(cat, bas, S, s) <= DemandIn(cat, bas, T, s)
<1>1. IsFiniteSet(UnitsIn(cat, bas, T, s))
    BY DemandInFinite
<1>2. UnitsIn(cat, bas, S, s) \in SUBSET UnitsIn(cat, bas, T, s)
    BY DEF UnitsIn
<1>3. QED
    BY <1>1, <1>2, FS_Subset DEF DemandIn

\* One order takes what its basket needs.
LEMMA DemandInOne ==
    ASSUME NEW cat, NEW bas, NEW o \in Order, NEW s, NEW n \in 0 .. MaxNeed, n = cat[bas[o]].need[s]
    PROVE  DemandIn(cat, bas, {o}, s) = n
<1>1. UnitsIn(cat, bas, {o}, s) = {o} \X (1 .. n)
    BY OrdersAssumption DEF UnitsIn
<1>2. IsFiniteSet({o}) /\ Cardinality({o}) = 1
    BY FS_Singleton
<1>3. n \in Nat
    BY OrdersAssumption
<1>4. IsFiniteSet(1 .. n) /\ Cardinality(1 .. n) = n
    <2>1. 1 \in Int /\ n \in Int
        BY <1>3
    <2>2. \A a, b \in Int : IsFiniteSet(a .. b) /\ Cardinality(a .. b) = IF a > b THEN 0 ELSE b - a + 1
        BY FS_Interval, Zenon
    <2>3. IsFiniteSet(1 .. n) /\ Cardinality(1 .. n) = IF 1 > n THEN 0 ELSE n - 1 + 1
        BY <2>1, <2>2, Zenon
    <2>4. QED
        BY <1>3, <2>3
<1>5. Cardinality({o} \X (1 .. n)) = Cardinality({o}) * Cardinality(1 .. n)
    BY <1>2, <1>4, FS_Product
<1>6. 1 * n = n
    BY <1>3
<1>7. QED
    BY <1>1, <1>2, <1>4, <1>5, <1>6 DEF DemandIn

\* Only the baskets of the orders themselves matter.
LEMMA DemandInSame ==
    ASSUME NEW cat, NEW bas, NEW bas2, NEW S, NEW s, \A p \in S : bas[p] = bas2[p]
    PROVE  DemandIn(cat, bas, S, s) = DemandIn(cat, bas2, S, s)
<1>1. UnitsIn(cat, bas, S, s) = UnitsIn(cat, bas2, S, s)
    BY DEF UnitsIn
<1>2. QED
    BY <1>1 DEF DemandIn

-----------------------------------------------------------------------------
(* No reservation leaks.                                                   *)

\* The orders that ReservedIsBacked counts.
Live == {o \in Order : status[o] # "none" /\ status[o] # "cancelled"}

\* No combo, box or variant changes what a basket takes.
FixedCatalog == \A b \in Basket : Edits[b] = {}

LEMMA BackedByLive == ReservedIsBacked <=> \A s \in Stock : reserved[s] <= DemandIn(catalog, basket, Live, s)
<1>1. {o \in Created : status[o] # "cancelled"} = Live
    BY DEF Created, Live
<1>2. QED
    BY <1>1, DemandIsDemandIn DEF ReservedIsBacked

\* The same after a step.
LEMMA BackedByLiveNext ==
    ReservedIsBacked' <=> \A s \in Stock : reserved'[s] <= DemandIn(catalog', basket', Live', s)
<1>1. {o \in Created' : status'[o] # "cancelled"} = Live'
    BY DEF Created, Live
<1>2. ReservedIsBacked' <=>
        \A s \in Stock :
            reserved'[s] <= DemandIn(catalog', basket', {o \in Created' : status'[o] # "cancelled"}, s)
    BY DEF ReservedIsBacked, Demand, DemandIn, UnitsIn, Need
<1>3. QED
    BY <1>1, <1>2

\* Releasing some live orders leaves a reservation that the other live orders back.
LEMMA ReleasedBacked ==
    ASSUME TypeOK, ReservedIsBacked, NEW old \in SUBSET Live, NEW s \in Stock
    PROVE  Released(old)[s] <= DemandIn(catalog, basket, Live \ old, s)
<1>1. old \in SUBSET Order /\ Live \ old \in SUBSET Order /\ old \cup (Live \ old) = Live
    BY DEF Live
<1>2. DemandIn(catalog, basket, Live, s)
        = DemandIn(catalog, basket, old, s) + DemandIn(catalog, basket, Live \ old, s)
    BY <1>1, DemandInUnion
<1>3. /\ DemandIn(catalog, basket, old, s) \in Nat /\ DemandIn(catalog, basket, Live \ old, s) \in Nat
      /\ reserved[s] \in Nat
    BY <1>1, DemandInFinite DEF TypeOK
<1>4. reserved[s] <= DemandIn(catalog, basket, Live, s)
    BY BackedByLive
<1>5. Released(old)[s] = Less(reserved[s], DemandIn(catalog, basket, old, s))
    BY DemandIsDemandIn DEF Released
<1>6. QED
    BY <1>2, <1>3, <1>4, <1>5 DEF Less

\* Releasing some live orders and booking a basket for one of them, or for a new order, leaves a
\* reservation that the live orders back with that basket.
LEMMA RebookedBacked ==
    ASSUME TypeOK, ReservedIsBacked, NEW old \in SUBSET Live, NEW o \in Order, o \notin Live \ old,
           NEW b \in Basket, NEW s \in Stock
    PROVE  Booked(catalog[b].need, Released(old))[s]
             <= DemandIn(catalog, [basket EXCEPT ![o] = b], (Live \ old) \cup {o}, s)
<1> DEFINE rest == Live \ old
           bas == [basket EXCEPT ![o] = b]
<1>1. rest \in SUBSET Order /\ rest \cap {o} = {} /\ old \in SUBSET Order
    BY DEF Live
<1>2. DemandIn(catalog, bas, rest \cup {o}, s)
        = DemandIn(catalog, bas, rest, s) + DemandIn(catalog, bas, {o}, s)
    BY <1>1, DemandInUnion
<1>3. DemandIn(catalog, bas, rest, s) = DemandIn(catalog, basket, rest, s)
    <2>1. \A p \in rest : bas[p] = basket[p]
        BY <1>1 DEF TypeOK
    <2> HIDE DEF bas
    <2>2. QED
        BY <2>1, DemandInSame
<1>4. bas[o] = b /\ catalog[b].need[s] \in 0 .. MaxNeed
    BY NeedType DEF TypeOK
<1>5. DemandIn(catalog, bas, {o}, s) = catalog[b].need[s]
    <2> DEFINE n == catalog[b].need[s]
    <2>1. n \in 0 .. MaxNeed /\ n = catalog[bas[o]].need[s]
        BY <1>4
    <2> HIDE DEF bas, rest, n
    <2>2. DemandIn(catalog, bas, {o}, s) = n
        BY <2>1, DemandInOne, Zenon
    <2>3. QED
        BY <2>2 DEF n
<1>6. Released(old)[s] <= DemandIn(catalog, basket, rest, s)
    BY ReleasedBacked
<1>7. /\ Released(old)[s] \in Nat /\ catalog[b].need[s] \in Nat
      /\ DemandIn(catalog, basket, rest, s) \in Nat
    BY <1>1, <1>4, ReleasedType, DemandInFinite, OrdersAssumption
<1>8. Booked(catalog[b].need, Released(old))[s] = Released(old)[s] + catalog[b].need[s]
    BY DEF Booked
<1>9. QED
    BY <1>2, <1>3, <1>5, <1>6, <1>7, <1>8

\* A step that neither ends an order nor changes a basket, and books nothing, keeps every
\* reservation backed.
LEMMA StillBacked ==
    ASSUME TypeOK, ReservedIsBacked, Live \subseteq Live', basket' = basket, catalog' = catalog,
           \A s \in Stock : reserved'[s] \in Nat /\ reserved'[s] <= reserved[s]
    PROVE  ReservedIsBacked'
<1> SUFFICES ASSUME NEW s \in Stock PROVE reserved'[s] <= DemandIn(catalog', basket', Live', s)
    BY BackedByLiveNext
<1>1. Live' \in SUBSET Order
    BY DEF Live
<1>2. DemandIn(catalog, basket, Live, s) <= DemandIn(catalog, basket, Live', s)
    BY <1>1, DemandInSubset
<1>3. reserved[s] <= DemandIn(catalog, basket, Live, s)
    BY BackedByLive
<1>4. /\ DemandIn(catalog, basket, Live, s) \in Nat /\ DemandIn(catalog, basket, Live', s) \in Nat
      /\ reserved[s] \in Nat
    BY <1>1, DemandInFinite DEF TypeOK, Live
<1>5. QED
    BY <1>2, <1>3, <1>4

\* A step that releases some live orders and books a basket for a new or a released order keeps
\* every reservation backed.
LEMMA StillBackedAfterBooking ==
    ASSUME TypeOK, ReservedIsBacked, NEW old \in SUBSET Live, NEW o \in Order, o \notin Live \ old,
           NEW b \in Basket, Live' = (Live \ old) \cup {o}, catalog' = catalog,
           basket' = [basket EXCEPT ![o] = b], reserved' = Booked(catalog[b].need, Released(old))
    PROVE  ReservedIsBacked'
<1> SUFFICES ASSUME NEW s \in Stock PROVE reserved'[s] <= DemandIn(catalog', basket', Live', s)
    BY BackedByLiveNext
<1>1. QED
    BY RebookedBacked

\* One step keeps every reservation backed.
LEMMA StepReservedIsBacked ==
    ASSUME ~AiPath, FixedCatalog, TypeOK, ReservedIsBacked, [Next]_vars
    PROVE  ReservedIsBacked'
<1> USE OrdersAssumption
<1>0. \A s \in Stock : reserved[s] \in Nat /\ reserved[s] <= reserved[s]
    BY DEF TypeOK
<1>1. ASSUME NEW o \in Order, NEW c \in Customer, NEW b \in Basket, CreateOrder(o, c, b)
      PROVE  ReservedIsBacked'
    <2>1. ActiveOf(c) \in SUBSET Live /\ o \notin Live \ ActiveOf(c)
        BY <1>1 DEF CreateOrder, Created, ActiveOf, Live, Active
    <2>2. Live' = (Live \ ActiveOf(c)) \cup {o}
        BY <1>1 DEF CreateOrder, Become, Live, ActiveOf
    <2>3. QED
        BY <1>1, <2>1, <2>2, StillBackedAfterBooking DEF CreateOrder
<1>2. ASSUME NEW o \in Order, NEW b \in Basket, ReplaceItems(o, b)
      PROVE  ReservedIsBacked'
    <2>1. {o} \in SUBSET Live /\ o \notin Live \ {o} /\ Live' = (Live \ {o}) \cup {o}
        BY <1>2 DEF ReplaceItems, Live, Active
    <2>2. QED
        BY <1>2, <2>1, StillBackedAfterBooking DEF ReplaceItems
<1>3. ASSUME NEW o \in Order, CancelOrder(o)
      PROVE  ReservedIsBacked'
    <2> SUFFICES ASSUME NEW s \in Stock PROVE reserved'[s] <= DemandIn(catalog', basket', Live', s)
        BY BackedByLiveNext
    <2>1. {o} \in SUBSET Live /\ Live' = Live \ {o}
        BY <1>3 DEF CancelOrder, Become, Live, Cancellable, Active
    <2>2. QED
        BY <1>3, <2>1, ReleasedBacked DEF CancelOrder
<1>4. ASSUME NEW o \in Order, Approve(o) \/ Reject(o)
      PROVE  ReservedIsBacked'
    <2>1. Live \subseteq Live' /\ basket' = basket /\ catalog' = catalog
        BY <1>4 DEF Approve, Reject, Become, Live
    <2>2. \A s \in Stock : reserved'[s] \in Nat /\ reserved'[s] <= reserved[s]
        BY <1>4, ReleasedType DEF Approve, Reject
    <2>3. QED
        BY <2>1, <2>2, StillBacked
<1>5. ASSUME NEW o \in Order,
             \/ \E to \in BoardStatus : SetStatus(o, to)
             \/ CompleteOrder(o)
             \/ \E c \in Customer : UpdateOrder(o, c)
             \/ AddressSet(o)
             \/ SubmitPayment(o)
      PROVE  ReservedIsBacked'
    <2>1. reserved' = reserved /\ basket' = basket /\ catalog' = catalog
        BY <1>5 DEF SetStatus, CompleteOrder, UpdateOrder, AddressSet, SubmitPayment
    <2>2. Live \subseteq Live'
        BY <1>5 DEF SetStatus, CompleteOrder, UpdateOrder, AddressSet, SubmitPayment, Become, Live,
                    BoardStatus, Active, Fulfilment
    <2>3. QED
        BY <1>0, <2>1, <2>2, StillBacked
<1>6. ASSUME NEW s \in Stock, NEW delta \in Deltas, AdjustStock(s, delta)
      PROVE  ReservedIsBacked'
    BY <1>0, <1>6, StillBacked DEF AdjustStock, Live
<1>7. CASE UNCHANGED vars
    BY <1>0, <1>7, StillBacked DEF vars, Live
<1>8. ASSUME NEW o \in Order, OrderStep(o)
      PROVE  ReservedIsBacked'
    BY <1>1, <1>2, <1>3, <1>5, <1>8 DEF OrderStep
<1>9. ASSUME NEW o \in Order, PaymentStep(o)
      PROVE  ReservedIsBacked'
    BY <1>4, <1>5, <1>9 DEF PaymentStep
<1>10. ~ \E c \in Customer, b \in Basket : AiCreateFails(c, b)
    BY DEF AiCreateFails
<1>11. CASE CatalogStep
    BY <1>6, <1>11 DEF CatalogStep, FixedCatalog
<1>12. QED
    BY <1>7, <1>8, <1>9, <1>10, <1>11 DEF Next

\* Every booked unit belongs to an order that is not cancelled, in every shop whose combos do
\* not change under an order and whose orders come from the API alone.
THEOREM NoLeakedReservation ==
    ASSUME ~AiPath, FixedCatalog
    PROVE  Spec => []ReservedIsBacked
<1>1. Init => ReservedIsBacked
    <2> SUFFICES ASSUME Init, NEW s \in Stock PROVE reserved[s] <= DemandIn(catalog, basket, Live, s)
        BY BackedByLive
    <2>1. DemandIn(catalog, basket, Live, s) \in Nat
        BY DemandInFinite DEF Live
    <2>2. QED
        BY <2>1 DEF Init
<1>2. TypeOK /\ ReservedIsBacked /\ [Next]_vars => ReservedIsBacked'
    BY StepReservedIsBacked
<1>3. QED
    BY <1>1, <1>2, TypeCorrect, PTL DEF Spec

-----------------------------------------------------------------------------
(* An order does not vanish.                                               *)

\* An active order ends cancelled only because it is cancelled itself, or because a new order of
\* its customer takes its place in the same step; the half-done create_order of the AI agent is
\* the one exception.
THEOREM ReplacedWhenSuperseded ==
    ASSUME ~AiPath
    PROVE  Spec => SupersededIsReplaced
<1> DEFINE Ends(o) ==
        status[o] \in Active /\ status'[o] = "cancelled" =>
            \/ CancelOrder(o)
            \/ \E p \in Order \ Created : status'[p] = "pending" /\ owner'[p] = owner[o]
<1>1. ASSUME TypeOK, [Next]_vars, NEW o \in Order, status[o] \in Active, status'[o] = "cancelled"
      PROVE  \/ CancelOrder(o)
             \/ \E p \in Order \ Created : status'[p] = "pending" /\ owner'[p] = owner[o]
    <2>1. ASSUME NEW q \in Order, NEW c \in Customer, NEW b \in Basket, CreateOrder(q, c, b)
          PROVE  \E p \in Order \ Created : status'[p] = "pending" /\ owner'[p] = owner[o]
        <3>1. q \in Order \ Created /\ status'[q] = "pending" /\ owner'[q] = c
            BY <1>1, <2>1 DEF CreateOrder, Become, TypeOK
        <3>2. owner[o] = c
            BY <1>1, <2>1, <3>1 DEF CreateOrder, Become, ActiveOf, Active
        <3>3. QED
            BY <3>1, <3>2
    <2>2. ASSUME NEW q \in Order, CancelOrder(q)
          PROVE  CancelOrder(o)
        BY <1>1, <2>2 DEF CancelOrder, Become, Active
    <2>3. ASSUME NEW q \in Order,
                 \/ \E b \in Basket : ReplaceItems(q, b)
                 \/ \E to \in BoardStatus : SetStatus(q, to)
                 \/ CompleteOrder(q)
                 \/ \E c \in Customer : UpdateOrder(q, c)
          PROVE  FALSE
        BY <1>1, <2>3 DEF ReplaceItems, SetStatus, CompleteOrder, UpdateOrder, Become, Active,
                          BoardStatus, Fulfilment
    <2>4. ASSUME NEW q \in Order, PaymentStep(q)
          PROVE  FALSE
        BY <1>1, <2>4 DEF PaymentStep, AddressSet, SubmitPayment, Approve, Reject, Become, Active
    <2>5. ASSUME status' = status
          PROVE  FALSE
        BY <1>1, <2>5 DEF Active
    <2>6. QED
        BY <1>1, <2>1, <2>2, <2>3, <2>4, <2>5
           DEF Next, vars, OrderStep, AiCreateFails, CatalogStep, AdjustStock, EditCatalog
<1>2. TypeOK /\ [Next]_vars => \A o \in Order : Ends(o)
    BY <1>1
<1>3. TypeOK /\ [Next]_vars => [\A o \in Order : Ends(o)]_vars
    BY <1>2
<1>4. QED
    BY <1>3, TypeCorrect, PTL DEF Spec, SupersededIsReplaced

-----------------------------------------------------------------------------
(* Stock is sold once.                                                     *)

\* The argument needs PaidIsClosed too: what a paid order took off the stock stays what its basket
\* says, because its items can no longer be replaced.

Paid == {o \in Order : payment[o] = "approved"}

\* A paid order is never open to a change of its items.
LEMMA StepPaidIsClosed ==
    ASSUME NoRevival, TypeOK, PaidIsClosed, [Next]_vars
    PROVE  PaidIsClosed'
<1>1. ASSUME \A p \in Order : payment'[p] = "approved" => payment[p] = "approved",
             \A p \in Order : payment[p] = "approved" /\ status'[p] \in Active \cup {"none"}
                                => status[p] \in Active \cup {"none"}
      PROVE  PaidIsClosed'
    BY <1>1 DEF PaidIsClosed
<1>2. ASSUME NEW o \in Order, NEW c \in Customer, NEW b \in Basket, CreateOrder(o, c, b)
      PROVE  PaidIsClosed'
    BY <1>1, <1>2 DEF CreateOrder, Become, Created, Active
<1>3. ASSUME NEW c \in Customer, NEW b \in Basket, AiCreateFails(c, b)
      PROVE  PaidIsClosed'
    <2>1. payment' = payment /\ Become([p \in ActiveOf(c) |-> "cancelled"])
        BY <1>3 DEF AiCreateFails
    <2>2. QED
        BY <1>1, <2>1 DEF Become, Active
<1>4. ASSUME NEW o \in Order, NEW to \in BoardStatus, SetStatus(o, to)
      PROVE  PaidIsClosed'
    BY <1>1, <1>4 DEF SetStatus, Become, NoRevival, BoardStatus, Fulfilment, Active
<1>5. ASSUME NEW o \in Order, CancelOrder(o) \/ CompleteOrder(o) \/ AddressSet(o)
      PROVE  PaidIsClosed'
    BY <1>1, <1>5 DEF CancelOrder, CompleteOrder, AddressSet, Become, Active
<1>6. ASSUME NEW o \in Order, SubmitPayment(o)
      PROVE  PaidIsClosed'
    BY <1>1, <1>6 DEF SubmitPayment, Become, TypeOK
<1>7. ASSUME NEW o \in Order, Approve(o)
      PROVE  PaidIsClosed'
    BY <1>7 DEF Approve, Become, TypeOK, PaidIsClosed, Active
<1>8. ASSUME NEW o \in Order, Reject(o)
      PROVE  PaidIsClosed'
    BY <1>1, <1>8 DEF Reject, TypeOK
<1>9. CASE UNCHANGED <<status, payment>>
    BY <1>9 DEF PaidIsClosed
<1>10. QED
    BY <1>2, <1>3, <1>4, <1>5, <1>6, <1>7, <1>8, <1>9
       DEF Next, vars, OrderStep, PaymentStep, CatalogStep, ReplaceItems, UpdateOrder, AdjustStock,
           EditCatalog

\* A paid order is out of the active statuses for good if board moves revive no order: no address, receipt, rejection
\* or replacement of lines reaches it.
THEOREM PaidStaysClosed ==
    ASSUME NoRevival
    PROVE  Spec => []PaidIsClosed
<1>1. Init => PaidIsClosed
    BY DEF Init, PaidIsClosed
<1>2. TypeOK /\ PaidIsClosed /\ [Next]_vars => PaidIsClosed'
    BY StepPaidIsClosed
<1>3. QED
    BY <1>1, <1>2, TypeCorrect, PTL DEF Spec

\* The units of row s that were there at the start are in stock or belong to a paid order.
Accounted(s, st, bas, paid) == InitialStock[s] <= st + DemandIn(catalog, bas, paid, s)

\* StockFallsOnlyForSales speaks of Accounted, before and after a step.
LEMMA SalesAccounted ==
    /\ StockFallsOnlyForSales <=> \A s \in Stock : Accounted(s, stock[s], basket, Paid)
    /\ catalog' = catalog =>
         (StockFallsOnlyForSales' <=> \A s \in Stock : Accounted(s, stock'[s], basket', Paid'))
<1>1. StockFallsOnlyForSales <=> \A s \in Stock : Accounted(s, stock[s], basket, Paid)
    BY DemandIsDemandIn DEF StockFallsOnlyForSales, Accounted, Paid
<1>2. ASSUME catalog' = catalog
      PROVE  StockFallsOnlyForSales' <=> \A s \in Stock : Accounted(s, stock'[s], basket', Paid')
    BY <1>2 DEF StockFallsOnlyForSales, Accounted, Paid, Demand, DemandIn, UnitsIn, Need
<1>3. QED
    BY <1>1, <1>2

\* One step sells no unit twice.
LEMMA StepStockFallsOnlyForSales ==
    ASSUME Deltas \subseteq Nat, FixedCatalog, TypeOK, PaidIsClosed, StockFallsOnlyForSales, [Next]_vars
    PROVE  StockFallsOnlyForSales'
<1> USE OrdersAssumption
<1>1. \A s \in Stock :
          /\ Accounted(s, stock[s], basket, Paid)
          /\ InitialStock[s] \in Nat /\ stock[s] \in Nat /\ DemandIn(catalog, basket, Paid, s) \in Nat
    BY SalesAccounted, DemandInFinite DEF TypeOK, Paid
<1>2. ASSUME catalog' = catalog, Paid' = Paid, \A p \in Paid : basket'[p] = basket[p],
             \A s \in Stock : stock'[s] \in Nat /\ stock[s] <= stock'[s]
      PROVE  StockFallsOnlyForSales'
    <2> SUFFICES ASSUME NEW s \in Stock PROVE Accounted(s, stock'[s], basket', Paid')
        BY <1>2, SalesAccounted
    <2>1. DemandIn(catalog, basket', Paid, s) = DemandIn(catalog, basket, Paid, s)
        BY <1>2, DemandInSame
    <2>2. QED
        BY <1>1, <1>2, <2>1 DEF Accounted
<1>3. \A s \in Stock : stock[s] \in Nat /\ stock[s] <= stock[s]
    BY DEF TypeOK
<1>4. ASSUME NEW o \in Order, OrderStep(o)
      PROVE  StockFallsOnlyForSales'
    <2>1. catalog' = catalog /\ stock' = stock /\ Paid' = Paid
        BY <1>4 DEF OrderStep, CreateOrder, ReplaceItems, CancelOrder, SetStatus, CompleteOrder,
                    UpdateOrder, Paid
    <2>2. \A p \in Paid : basket'[p] = basket[p]
        <3>1. ASSUME NEW c \in Customer, NEW b \in Basket, CreateOrder(o, c, b)
              PROVE  \A p \in Paid : basket'[p] = basket[p]
            BY <3>1 DEF CreateOrder, Created, Paid, PaidIsClosed, TypeOK
        <3>2. ASSUME NEW b \in Basket, ReplaceItems(o, b)
              PROVE  \A p \in Paid : basket'[p] = basket[p]
            BY <3>2 DEF ReplaceItems, Paid, PaidIsClosed, TypeOK
        <3>3. QED
            BY <1>4, <3>1, <3>2 DEF OrderStep, CancelOrder, SetStatus, CompleteOrder, UpdateOrder
    <2>3. QED
        BY <1>2, <1>3, <2>1, <2>2
<1>5. ASSUME NEW o \in Order, AddressSet(o) \/ SubmitPayment(o) \/ Reject(o)
      PROVE  StockFallsOnlyForSales'
    <2>1. catalog' = catalog /\ stock' = stock /\ basket' = basket
        BY <1>5 DEF AddressSet, SubmitPayment, Reject
    <2>2. Paid' = Paid
        BY <1>5 DEF AddressSet, SubmitPayment, Reject, Paid, TypeOK
    <2>3. QED
        BY <1>2, <1>3, <2>1, <2>2
<1>6. ASSUME NEW o \in Order, Approve(o)
      PROVE  StockFallsOnlyForSales'
    <2>1. /\ catalog' = catalog /\ basket' = basket /\ o \notin Paid /\ Paid' = Paid \cup {o}
          /\ stock' = [s \in Stock |-> Less(stock[s], Demand({o}, s))]
        BY <1>6 DEF Approve, Paid, TypeOK
    <2> SUFFICES ASSUME NEW s \in Stock PROVE Accounted(s, stock'[s], basket', Paid')
        BY <2>1, SalesAccounted
    <2>2. /\ Paid \in SUBSET Order /\ {o} \in SUBSET Order /\ Paid \cap {o} = {}
        BY <2>1 DEF Paid
    <2>3. DemandIn(catalog, basket, Paid \cup {o}, s)
            = DemandIn(catalog, basket, Paid, s) + DemandIn(catalog, basket, {o}, s)
        BY <2>2, DemandInUnion
    <2>4. DemandIn(catalog, basket, {o}, s) \in Nat
        BY <2>2, DemandInFinite
    <2>5. stock'[s] = Less(stock[s], DemandIn(catalog, basket, {o}, s))
        BY <2>1, DemandIsDemandIn
    <2>6. stock'[s] \in Nat /\ stock[s] <= stock'[s] + DemandIn(catalog, basket, {o}, s)
        BY <1>1, <2>4, <2>5, LessType
    <2>7. QED
        BY <1>1, <2>1, <2>3, <2>4, <2>6 DEF Accounted
<1>7. ASSUME NEW c \in Customer, NEW b \in Basket, AiCreateFails(c, b)
      PROVE  StockFallsOnlyForSales'
    BY <1>2, <1>3, <1>7 DEF AiCreateFails, Paid
<1>8. ASSUME NEW s \in Stock, NEW delta \in Deltas, AdjustStock(s, delta)
      PROVE  StockFallsOnlyForSales'
    <2>1. \A t \in Stock : stock'[t] \in Nat /\ stock[t] <= stock'[t]
        BY <1>3, <1>8 DEF AdjustStock, TypeOK
    <2>2. catalog' = catalog /\ basket' = basket /\ Paid' = Paid
        BY <1>8 DEF AdjustStock, Paid
    <2>3. QED
        BY <1>2, <2>1, <2>2
<1>9. CASE UNCHANGED vars
    BY <1>2, <1>3, <1>9 DEF vars, Paid
<1>10. CASE CatalogStep
    BY <1>8, <1>10 DEF CatalogStep, FixedCatalog
<1>11. QED
    BY <1>4, <1>5, <1>6, <1>7, <1>9, <1>10 DEF Next, PaymentStep

\* Every unit that left the stock belongs to one approved order: no second approval, rejection,
\* cancellation or AI order takes one, as long as corrections only add, combos keep their parts and
\* staff move no order back among the unpaid ones.
THEOREM SoldOnce ==
    ASSUME Deltas \subseteq Nat, FixedCatalog, NoRevival
    PROVE  Spec => []StockFallsOnlyForSales
<1>1. Spec => []PaidIsClosed
    BY PaidStaysClosed
<1>2. Init => StockFallsOnlyForSales
    <2> SUFFICES ASSUME Init, NEW s \in Stock PROVE Accounted(s, stock[s], basket, Paid)
        BY SalesAccounted
    <2>1. stock[s] = InitialStock[s] /\ InitialStock[s] \in Nat
        BY OrdersAssumption DEF Init
    <2>2. DemandIn(catalog, basket, Paid, s) \in Nat
        BY DemandInFinite DEF Paid
    <2>3. QED
        BY <2>1, <2>2 DEF Accounted
<1>3. TypeOK /\ PaidIsClosed /\ StockFallsOnlyForSales /\ [Next]_vars => StockFallsOnlyForSales'
    BY StepStockFallsOnlyForSales
<1>4. QED
    BY <1>1, <1>2, <1>3, TypeCorrect, PTL DEF Spec

=============================================================================
