SPECIFICATION Spec
CONSTANTS
    Payload = payload
    None = none
    start = start
    api = api
    cond = cond
    response = response
    other = other
    Nodes <- PairNodes
    StartNode = start
    Successors <- PairSuccessors
    Responses = {response}
    FailNodes = {response}
    Runs = {r1}
    RowIds = {o1, o2}
    MsgIds = {m1, m2}
    MaxReceive = 2
    Relays = {x1}
    Workers = {w1, w2}
    MaxBatch = 1
    Controls = {"pause", "resume", "stop", "retry"}
    MaxFaults = 0
    TimelyLease = FALSE
SYMMETRY Symmetry
INVARIANTS TypeOK NoOrphanedRun InputTraceable
PROPERTIES SettledForever QuietRunStaysPut RunsAsPromised
CHECK_DEADLOCK FALSE
