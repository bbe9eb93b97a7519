\* Everything the handlers accept: any board move, edits of customers and of the catalogue, the AI path.
CONSTANTS
    MaxOrders = 2
    Customer = {anna, bek}
    Stock = {ring, box}
    Checked = {ring, box}
    Basket = {plain, boxed}
    MaxNeed = 2
    MaxStock = 1
    ring = ring
    ringToOrder = ringToOrder
    box = box
    plain = plain
    boxed = boxed
    made = made
    InitialStock <- OneOfEach
    InitialCatalog <- Catalog
    Edits <- SomeEdits
    Prefix <- Prefixes
    Deltas <- Restock
    KanbanMoves <- AnyMove
    OwnerEdits = TRUE
    AiPath = TRUE
SPECIFICATION Spec
INVARIANTS TypeOK ReservedWithinStock
CHECK_DEADLOCK FALSE
