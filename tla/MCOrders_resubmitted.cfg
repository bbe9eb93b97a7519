\* One customer, one ring: a rejected receipt is sent again.
CONSTANTS
    MaxOrders = 1
    Customer = {anna}
    Stock = {ring}
    Checked = {ring}
    Basket = {plain}
    MaxNeed = 1
    MaxStock = 1
    ring = ring
    ringToOrder = ringToOrder
    box = box
    plain = plain
    boxed = boxed
    made = made
    InitialStock <- OneOfEach
    InitialCatalog <- Catalog
    Edits <- NoEdits
    Prefix <- Prefixes
    Deltas <- NoCorrection
    KanbanMoves <- NoMove
    OwnerEdits = FALSE
    AiPath = FALSE
SPECIFICATION Spec
INVARIANTS ActiveHoldsUnits
CHECK_DEADLOCK FALSE
