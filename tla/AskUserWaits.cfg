SPECIFICATION AskFairSpec
CONSTANTS
  t1 = t1  t2 = t2  s1 = s1  w1 = w1  w2 = w2
  yes = yes  no = no  paste = paste  auto = auto  r1 = r1  r2 = r2
  None = None
  Task = {t1}
  Session = {s1}
  Input = {yes, no}
  Source = {paste}
  Name = {auto}
  AutoName = auto
  Slot = {r1, r2}
  Legacy = {}
  Calls <- WithdrawCalls
  Waiter = {w1}
  TaskOf <- MCTaskOf1
  SessionOf <- MCSessionOf1
  MaxFaults = 2
PROPERTIES
  AnsweredCallEnds
  CancelledCallEnds
  RegistrationSettles
