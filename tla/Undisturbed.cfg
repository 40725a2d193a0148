SPECIFICATION Spec
CONSTANTS
    Payload = payload
    None = none
    start = start
    api = api
    cond = cond
    response = response
    other = other
    Nodes <- BranchNodes
    StartNode = start
    Successors <- BranchSuccessors
    Responses = {response, other}
    FailNodes = {cond}
    Runs = {r1, r2}
    RowIds = {o1, o2}
    MsgIds = {m1, m2}
    MaxReceive = 2
    Relays = {x1, x2}
    Workers = {w1, w2}
    MaxBatch = 2
    Controls = {"pause", "stop"}
    MaxFaults = 0
    TimelyLease = TRUE
SYMMETRY Symmetry
INVARIANTS SingleJob RelayStatusCurrent RunLockExclusive
PROPERTIES CheckpointFollowsEdges
CHECK_DEADLOCK FALSE
