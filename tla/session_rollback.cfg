SPECIFICATION Spec
CONSTANTS
    i1 = i1
    i2 = i2
    o1 = o1
    o2 = o2
    r1 = r1
    r2 = r2
    q1 = q1
    c1 = c1
    c2 = c2
    None = None
    Instances <- MCInstances
    Orders <- MCOrders
    Ranks <- MCRanks
    Quotes <- MCQuotes
    Checkouts <- MCCheckouts
    IdsOf <- MCIdsOf
    MaxRequests = 6
    MaxRefreshes = 1
PROPERTIES PaidStaysPaid
SYMMETRY Symmetry
