CONSTANTS
    u1 = u1
    u2 = u2
    r1 = r1
    r2 = r2
    r3 = r3
    p1 = p1
    p2 = p2
    Users = {u1, u2}
    Malformed = Malformed
    Reqs = {r1, r2, r3}
    Products = {p1, p2}
    Quantities = {1, 2}
    Prices = {1, 2}
    Requests <- MCRequests
    InitOrders = 1
    MaxSeconds = 2
    SaveOnDeleted = {"noop", "upsert"}
    MaxFailures = 1
    FailableCalls = {"insert", "read", "save", "delete", "reread", "list"}
    NoRow = NoRow

SPECIFICATION Spec
SYMMETRY MCReqSymmetry

INVARIANT TypeOK
INVARIANT MergeMatchesReference
PROPERTY OwnerOnlyWrites
CHECK_DEADLOCK FALSE
