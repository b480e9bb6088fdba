CONSTANTS
  a = a
  b = b
  s1 = s1
  s2 = s2
  running = running
  created = created
  r1 = r1
  None = None
  Clients = {a, b}
  Sessions = {s1, s2}
  Restored = {s1}
  Statuses = {running}
  Created = created
  Versions = {1, 2}
  Subscribers = {r1}
  MaxCalls <- Calls22
SPECIFICATION FairSpec
INVARIANT StreamIsHistory
PROPERTIES
  CallsAreAtomic
  EveryCallReturns
CHECK_DEADLOCK FALSE
