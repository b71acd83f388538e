SPECIFICATION AskSpec
CONSTANTS
  t1 = t1  t2 = t2  s1 = s1  w1 = w1  w2 = w2
  yes = yes  no = no  paste = paste  auto = auto  r1 = r1  r2 = r2
  None = None
  Task = {t1, t2}
  Session = {s1}
  Input = {yes, no}
  Source = {paste}
  Name = {auto}
  AutoName = auto
  Slot = {r1, r2}
  Legacy = {}
  Calls <- WaiterCalls
  Waiter = {w1, w2}
  TaskOf <- MCTaskOf
  SessionOf <- MCSessionOf
  MaxFaults = 0
INVARIANTS
  FailsOnlyWhenCancelled
CHECK_DEADLOCK FALSE
