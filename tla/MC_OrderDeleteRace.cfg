CONSTANTS
    u1 = u1
    u2 = u2
    r1 = r1
    r2 = r2
    r3 = r3
    p1 = p1
    p2 = p2
    Users = {u1, u2}
    Malformed = Malformed
    Reqs = {r1, r2}
    Products = {p1, p2}
    Quantities = {1, 2}
    Prices = {1, 2}
    Requests <- MCRequestsDeleteRace
    InitOrders = 1
    MaxSeconds = 2
    SaveOnDeleted = {"noop"}
    MaxFailures = 0
    FailableCalls = {"insert", "read", "save", "delete", "reread", "list"}
    NoRow = NoRow

SPECIFICATION Spec

PROPERTY DeleteGuard

CHECK_DEADLOCK FALSE
