SPECIFICATION Spec
CONSTANTS
  t1 = t1  t2 = t2  s1 = s1  s2 = s2
  yes = yes  no = no  paste = paste  panel = panel  auto = auto  named = named
  None = None
  Task = {t1, t2}
  Input = {yes, no}
  Source = {paste, panel}
  Name = {auto, named}
  AutoName = auto
  Session = {s1}
  Slot = {r1, r2}
  Calls <- HistoryCalls
  Legacy = {t1, t2}
SYMMETRY SlotSymmetry
INVARIANTS
  AckedReplyIsAnnounced
  PolledAnswerStands
  ArchivedAreCompleted
PROPERTIES
  AnswersAreFinal
