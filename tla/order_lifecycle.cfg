CONSTANTS
    q1 = q1
    q2 = q2
    q3 = q3
    None = None
    Quotes = {q1, q2, q3}
    AmountOf <- TwoPrices
    Payments = {pay1, pay2}
    Verifiers = {v1}
    Refunders = {r1, r2}
    Modes = {TRUE, FALSE}
SPECIFICATION Spec
INVARIANTS TypeOK PaidIsCaptured OneRail ProcessedIsPaid ShippedOrRefunded
PROPERTIES PaidNeverUnpaid ExternalOrderIsStable
SYMMETRY Interchangeable
CHECK_DEADLOCK FALSE
