\* Nothing goes wrong: no crash, no lost answer, no deletion.  Only the inbox moves.
CONSTANTS
    Parts = {"inbox"}
    p1 = p1
    p2 = p2
    m1 = m1
    m2 = m2
    m3 = m3
    m4 = m4
    city = city
    far = far
    branch = branch
    ring = ring
    set = set
    v1 = v1
    v2 = v2
    Payload = {p1, p2}
    Events <- EventsOf
    Worker = {1, 2}
    MaxMishaps = 0
    Mail = {m1, m2, m3, m4}
    Shape <- Shapes
    Configured = {"telegram", "instagram", "group"}
    Link = {l1}
    Visit = {1, 2}
    Point = {city, far}
    City = {city}
    Branch = {branch}
    Nearest <- BranchNearby
    NoValue = NoValue
    Story = {s1, s2}
    Jewel = {amber, pearl}
    Nothing = Nothing
    Card = {k1, k2}
    Clerk = {clerk1, clerk2}
    Product = {ring, set}
    Combo = {set}
    Variant = {v1, v2}
    Owner <- OwnerOf
    Shade = {b1}
    Stocked = {v1}
    Buyer = {ann}
    MaxOrders = 2
    Request = {1, 2}
    Quantity = {1}
    Level = {2}
    MaxEdits = 1
    NoShade = NoShade
SPECIFICATION Spec
INVARIANT EveryMessageAnswered
CHECK_DEADLOCK FALSE
