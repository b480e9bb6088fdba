CONSTANTS
  s1 = s1
  s2 = s2
  Sessions = {s1, s2}
  Streams = {s1}
  Goals <- MCGoals
  Window = 3
  MaxEvents = 5
  MaxOutputs = 7
SPECIFICATION Spec
INVARIANTS
  AcceptedIsHistory
  LossIsAnnounced
CHECK_DEADLOCK FALSE
