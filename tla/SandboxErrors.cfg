SPECIFICATION Spec
CONSTANTS
    subject = subject
    bystander = bystander
    Runs = {subject}
    Versions <- MCVersions
    Payloads <- MCPayloads
    Statuses <- MCStatuses
    Replies <- MCReplies
    Values <- MCValues
    MaxExact = 2
    MaxFloat = 8
    MaxReceive = 2
    MaxHops = 2
INVARIANTS OutputIsSuccess
CHECK_DEADLOCK FALSE
