SPECIFICATION Spec
CONSTANTS
    Values = {"prompted", "filed", "foreign"}
    Texts = {"t1", "t2", "t3"}
    Contains <- TextValues
    Detected <- Engine
    FileValues = {"filed"}
    Large = {"t3"}
    Initial = {}
    Transactions = {x1}
    CacheLimit = 1
    MaxCalls = 4
INVARIANTS KnownStaysMasked CacheOrdered OnlyValidatedPublished
CHECK_DEADLOCK FALSE
