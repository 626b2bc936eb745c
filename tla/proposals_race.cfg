CONSTANTS
    p1 = p1
    p2 = p2
    Proposals = {p1, p2}
    Requested <- Twos
    r1 = r1
    r2 = r2
    Requests = {r1, r2}
    None = None
    c1 = c1
    Customers = {c1}
    CustomerOf <- OneCustomer
    Serial = {}
SPECIFICATION RequestSpec
PROPERTIES
    FollowsTransitions
