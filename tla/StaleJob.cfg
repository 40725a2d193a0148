SPECIFICATION Spec
CONSTANTS
    Payload = payload
    None = none
    start = start
    api = api
    cond = cond
    response = response
    other = other
    Nodes <- ChainNodes
    StartNode = start
    Successors <- ChainSuccessors
    Responses = {response}
    FailNodes = {api}
    Runs = {r1}
    RowIds = {o1, o2}
    MsgIds = {m1, m2}
    MaxReceive = 2
    Relays = {x1}
    Workers = {w1}
    MaxBatch = 2
    Controls = {}
    MaxFaults = 1
    TimelyLease = TRUE
SYMMETRY Symmetry
PROPERTIES StaleJobNotExecuted
CHECK_DEADLOCK FALSE
