\* The AI agent's create_order tool swallows a refusal.
CONSTANTS
    MaxOrders = 2
    Customer = {anna}
    Stock = {ring}
    Checked = {ring}
    Basket = {plain}
    MaxNeed = 1
    MaxStock = 1
    ring = ring
    ringToOrder = ringToOrder
    box = box
    plain = plain
    boxed = boxed
    made = made
    InitialStock <- OneOfEach
    InitialCatalog <- Catalog
    Edits <- NoEdits
    Prefix <- Prefixes
    Deltas <- NoCorrection
    KanbanMoves <- NoMove
    OwnerEdits = FALSE
    AiPath = TRUE
SPECIFICATION Spec
PROPERTIES SupersededIsReplaced
CHECK_DEADLOCK FALSE
