SPECIFICATION HistorySpec
CONSTANTS
    Task = {t1, t2}
    Slot = {r1, r2}
    None = None
    PageSize = 1
    MaxFaults = 1
SYMMETRY HistorySymmetry
INVARIANTS
    HistoryTypeOK
    QuietListsAreTrue
PROPERTIES
    RowsLeaveForAReason
    NothingHiddenIsSelected
    ReaderKeepsItsRow
