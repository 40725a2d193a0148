SPECIFICATION FairSpec
CONSTANTS
    s = s
    a = a
    b = b
    c = c
    q = q
    Degrees <- Catalogue
    Graphs <- Drafts
INVARIANTS TypeOK KahnCounts VerdictExact ExecutionReady
PROPERTIES Terminates
CHECK_DEADLOCK FALSE
