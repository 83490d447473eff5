CONSTANTS
    p1 = p1
    p2 = p2
    s1 = s1
    pid1 = pid1
    pid2 = pid2
    None = None
    Slots = {s1}
    Pids = {pid1, pid2}
    Payloads = {p1, p2}
    SlotOf <- OneSlot
    PidOf <- TwoPids
    Approvals = {}
    Mints = {m1, m2}
    Fences = {1, 2, 3, 4, 5}
    RoleGuarded = TRUE
    Workers = {w1, w2}
    Kinds = {"accept", "stage"}
    Tasks = {}
    Conforming = {p1, p2}
    Reported <- Honest
SPECIFICATION Spec
INVARIANTS TypeOK ServedIsSettled SettleCalledOnce SentStaysBlocking
PROPERTIES ResolvedIsFinal ImplementsAttempts
SYMMETRY TwoPidsSymmetry
