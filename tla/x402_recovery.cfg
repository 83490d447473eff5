CONSTANTS
    p1 = p1
    p2 = p2
    s1 = s1
    pid1 = pid1
    pid2 = pid2
    None = None
    Slots = {s1}
    Pids = {pid1}
    Payloads = {p1}
    SlotOf <- OnePayload
    PidOf <- OnePayloadPid
    Approvals = {}
    Mints = {m1}
    Fences = {1, 2, 3, 4, 5}
    RoleGuarded = FALSE
    Workers = {w1, w2}
    Kinds = {"accept"}
    Tasks = {}
    Conforming = {p1}
    Reported <- Honest
SPECIFICATION FairSpec
PROPERTIES CallsFinish EvidenceSettles SlotRecovers
