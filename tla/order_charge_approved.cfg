CONSTANTS
    q1 = q1
    q2 = q2
    q3 = q3
    None = None
    Quotes = {q1, q2}
    AmountOf <- OnePrice
    Payments = {pay1}
    Verifiers = {v1}
    Refunders = {r1}
    Modes = {FALSE}
SPECIFICATION Spec
PROPERTY ChargeIsApproved
CHECK_DEADLOCK FALSE
