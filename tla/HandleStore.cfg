SPECIFICATION Spec
CONSTANTS
    Processes = {"p1", "p2"}
    Detached = {"p2"}
    Clients = {"out", "err", "c2"}
    Values = {"v1", "v2"}
    NoValue = NoValue
    Remaskable = {"v1", "v2"}
    MaxOps = 2
    ProcessOf <- TwoStreams
    ModesOf <- Commands
    Docs <- Documents
    Handles <- AllHandles
    CompactOf <- Compact
    FullOf <- Full
    FileIndex <- OneFile
INVARIANTS ExactButForCollision PromisedInStore SessionInStore LiveCovered
PROPERTIES ImplementsDirectory AddTerminates
CHECK_DEADLOCK FALSE
