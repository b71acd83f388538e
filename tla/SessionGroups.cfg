SPECIFICATION GroupsSpec
CONSTANTS
    t1 = t1  t2 = t2  t3 = t3  s1 = s1  s2 = s2
    Task = {t1, t2, t3}
    Session = {s1, s2}
    SessionOf <- Sessions
    Instants <- TenthsAndHundredths
    auto = auto  named = named
    Name = {auto, named}
    FirstNames <- AutoAndNamed
    Histories <- Times
    Blank = blank
    Edited = {s1}
    Slot = {r1, r2}
    PageSize = 1
    MaxFaults = 1
SYMMETRY SlotSymmetry
INVARIANTS
    GroupsTypeOK
    GroupsFollowTheList
    OutOfOrderOnlyByZeros
    QuietNamesAreCurrent
    SavingIsOnePatch
