SPECIFICATION FairSpec
CONSTANTS
    Stores = {s1, s2}
    Registered = {s1}
    Viewers = {v1}
    Operations = {"ensure", "send", "share"}
    Attempts = 2
    Faults = FALSE
    None = None
PROPERTY HandOver
