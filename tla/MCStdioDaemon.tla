----------------------------- MODULE MCStdioDaemon -----------------------------
EXTENDS StdioDaemon, TLC

CONSTANTS
  a, b,     \* client threads
  s1, s2,   \* two sessions
  running, created,
  r1        \* a subscriber

Calls22 == [c \in Clients |-> 2]

================================================================================
