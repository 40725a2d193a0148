SPECIFICATION Spec
CONSTANTS
    n1 = n1
    n2 = n2
    e1 = e1
    e2 = e2
    None = None
    Workflows = {w1}
    VersionIds = {v1, v2, v3}
    Clients = {c1, c2, c3}
    Payloads <- Saved
    Publishable <- Complete
SYMMETRY Symmetric
INVARIANTS TypeOK HeadCoherent PublishedIsValid
PROPERTIES PublishedFrozen RequestsAtomic
CHECK_DEADLOCK FALSE
