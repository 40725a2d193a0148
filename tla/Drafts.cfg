SPECIFICATION Spec
CONSTANTS
    nil = nil
    n1 = n1
    n2 = n2
    e1 = e1
    e2 = e2
    Uuids = {nil, n1, n2, e1, e2}
    Nil = nil
    Texts = {"", " ", "a", "b", "nul", "long", "start", "api", "loop", "default", "true", "false", "yes"}
    Blank = {"", " "}
    Unstorable = {"nul"}
    Oversized = {"long"}
    Configs = {"", "{}", "cfg", "nul"}
    Absent = ""
    EmptyObject = "{}"
    Schemas <- Catalogue
    Payloads <- Bodies
INVARIANTS TypeOK ChecksExact FailsOnlyOnText SavedAsSent
