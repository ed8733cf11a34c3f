SPECIFICATION FairSpec
CONSTANTS
    Events = {e1, e2, e4}
    Diagnostic = {e1, e2}
    Keys = {"k"}
    KeyOf <- MCKeyOf
    Callers = {c1}
    DiagCapacity = 1
    LogCapacity = 1
    BatchEvents = 2
    None = None
INVARIANTS TypeOK OnePlace FlushDurable
PROPERTIES OnlyMergedVanish Settles
