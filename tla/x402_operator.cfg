CONSTANTS
    p1 = p1
    p2 = p2
    s1 = s1
    pid1 = pid1
    pid2 = pid2
    None = None
    Slots = {s1}
    Pids = {pid1, pid2}
    Payloads = {p1, p2}
    SlotOf <- OneSlot
    PidOf <- TwoPids
    Approvals = {a1}
    Mints = {m1}
    Fences = {1, 2, 3, 4, 5}
    RoleGuarded = TRUE
    Workers = {w1}
    Kinds = {"accept"}
    Tasks = {"release", "reconcile"}
    Conforming = {p1}
    Reported <- AnyHash
SPECIFICATION Spec
INVARIANTS SettledIsPaid MismatchIsUnpaid SentStaysBlocking
PROPERTIES ResolvedIsFinal ReleasedNeverPays ImplementsAttempts
