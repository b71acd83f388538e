SPECIFICATION HubFairSpec
CONSTANTS
  c1 = c1  c2 = c2  p1 = p1  p2 = p2
  None = None
  Conn = {c1, c2}
  Publisher = {p1, p2}
  Burst <- MCBurst
  BufferSize = 2
INVARIANTS
  HubTypeOK
  VisitsSubscribersOnly
  DeliveredInOrder
  SmallBurstsArrive
PROPERTIES
  PublishReturns
  LeavingEnds
