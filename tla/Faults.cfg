SPECIFICATION FairSpec
CONSTANTS
    Payload = payload
    None = none
    start = start
    api = api
    cond = cond
    response = response
    other = other
    Nodes <- ChainNodes
    StartNode = start
    Successors <- ChainSuccessors
    Responses = {response}
    FailNodes = {api}
    Runs = {r1}
    RowIds = {o1, o2, o3}
    MsgIds = {m1, m2, m3}
    MaxReceive = 2
    Relays = {x1}
    Workers = {w1}
    MaxBatch = 2
    Controls = {"pause", "stop"}
    MaxFaults = 1
    TimelyLease = FALSE
INVARIANTS NoOrphanedRun CheckpointCoherent
PROPERTIES RunsAsPromised RunsSettle JobsDrain
CHECK_DEADLOCK FALSE
