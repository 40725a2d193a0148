SPECIFICATION Spec
CONSTANTS
    subject = subject
    bystander = bystander
    Runs = {subject, bystander}
    Versions <- MCVersions
    Payloads <- MCPayloads
    Statuses <- MCStatuses
    Replies <- MCReplies
    Values <- MCValues
    MaxExact = 2
    MaxFloat = 8
    MaxReceive = 2
    MaxHops = 3
INVARIANTS TypeOK EnvelopeKept PayloadIntact ParkedByPoison
PROPERTIES NoBranchOnError RunsEnd
CHECK_DEADLOCK FALSE
