SPECIFICATION Spec
CONSTANTS
    n1 = n1
    n2 = n2
    e1 = e1
    e2 = e2
    None = None
    Workflows = {w1}
    VersionIds = {v1, v2}
    Clients = {c1, c2}
    Payloads <- Saved
    Publishable <- Complete
PROPERTIES NotFoundMeansGone
CHECK_DEADLOCK FALSE
