CONSTANTS
    a1 = a1
    a2 = a2
    ns1 = ns1
    ns2 = ns2
    k1 = k1
    h1 = h1
    c1 = c1
    c2 = c2
    p1 = p1
    p2 = p2
    Apps = {a1, a2}
    Namespaces = {ns1}
    NsOf <- MCNsOfShared
    Keys = {k1}
    Hosts = {h1}
    Accounts = {c1, c2}
    PrivKeys = {p1}
    Specs <- MCSpecsOne
    NoObject = NoObject
    NoHost = NoHost
    Workers = 2
    MaxEdits = 0
    MaxFailures = 1
    FailableCalls <- ListCalls

SPECIFICATION Spec

INVARIANT TypeOK
PROPERTY NoWriteWhenConverged
PROPERTY Converges
PROPERTY LifecycleSpec
CHECK_DEADLOCK FALSE

