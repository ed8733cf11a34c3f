SPECIFICATION Spec
CONSTANTS
    Values = {"prompted", "filed", "foreign"}
    Texts = {"t1", "t2", "t3"}
    Contains <- TextValues
    Detected <- Engine
    FileValues = {"filed"}
    Large = {"t3"}
    Initial = {}
    Transactions = {x1}
    CacheLimit = 1
    MaxCalls = 2
INVARIANTS RestoredStaysMasked
CHECK_DEADLOCK FALSE
