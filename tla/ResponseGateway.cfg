CONSTANTS
    Tools = {t1, t2, t3}
    MessagesAttempts = 2
    Attempts = 4
    MaxEvents = 9
SPECIFICATION Spec
SYMMETRY ToolSymmetry
INVARIANTS WholeBatch CutOffReported TextKept
PROPERTIES RetryForgets
