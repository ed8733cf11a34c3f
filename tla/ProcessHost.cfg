SPECIFICATION FairSpec
CONSTANTS
    Stores = {s1}
    Registered = {}
    Viewers = {v1}
    Operations = {"ensure", "follow", "send", "share", "contains"}
    Attempts = 3
    Faults = TRUE
    None = None
PROPERTIES RecordNeverOverwritten OperationEnds
