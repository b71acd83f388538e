SPECIFICATION WorkbenchSpec
CONSTANTS
    Task = {t1, t2}
    Slot = {r1}
    None = None
    WireSize = 1
    MaxHandlers = 1
    MaxTroubles = 1
SYMMETRY WorkbenchSymmetry
PROPERTIES
    DraftsSurviveFailure
CHECK_DEADLOCK FALSE
