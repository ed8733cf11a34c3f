SPECIFICATION Spec
CONSTANTS
    c1 = c1
    c2 = c2
    Callers = {c1, c2}
    Main = c1
    HookOf <- MCHookOf
    Chain = 2
    Required = {2}
    Command = {1}
    Prewarmed = {1}
    MaxExtra = 1
    Asks = {"r1"}
    HostRequests = 1
    None = None
INVARIANTS RestartedAfterWrongAnswer
