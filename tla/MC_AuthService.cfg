CONSTANTS
    e1 = e1
    w1 = w1
    w2 = w2
    wLong = wLong
    r1 = r1
    r2 = r2
    r3 = r3
    Emails = {e1}
    Passwords = {w1, w2}
    LongPasswords = {wLong}
    Reqs = {r1, r2, r3}
    Requests <- MCRequests
    Malformed = Malformed
    Forged = Forged
    MaxFailures = 1
    FailableCalls = {"read", "insert"}
    NoRow = NoRow

SPECIFICATION Spec
SYMMETRY MCReqSymmetry

INVARIANT TypeOK
INVARIANT UniqueEmail
 
CHECK_DEADLOCK FALSE
