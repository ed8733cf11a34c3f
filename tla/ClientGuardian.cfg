CONSTANTS
    Launches = {l1, l2}
    Starting = {l1}
    MaxSignals = 2
    None = None
SPECIFICATION Spec
INVARIANTS TypeOK ClientGoneWithWrapper SettingsKept StatusMeansDone
PROPERTIES AnchorKept ClientEndsWithWrapper WrapperReturns
