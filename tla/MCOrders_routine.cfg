\* The shop as its documents tell it: staff move paid orders forward, the AI path never half-fails.
CONSTANTS
    MaxOrders = 3
    Customer = {anna, bek}
    Stock = {ring, ringToOrder, box}
    Checked = {ring, box}
    Basket = {boxed, made}
    MaxNeed = 1
    MaxStock = 2
    ring = ring
    ringToOrder = ringToOrder
    box = box
    plain = plain
    boxed = boxed
    made = made
    InitialStock <- TwoOfEach
    InitialCatalog <- Catalog
    Edits <- NoEdits
    Prefix <- Prefixes
    Deltas <- NoCorrection
    KanbanMoves <- Forward
    OwnerEdits = FALSE
    AiPath = FALSE
SPECIFICATION Spec
INVARIANTS PaidIsClosed OneActiveOrder ShippedIsPaid ReservedIsBacked StockFallsOnlyForSales
PROPERTIES SupersededIsReplaced
CHECK_DEADLOCK FALSE
