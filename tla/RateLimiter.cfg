\* Two loops that wait and two that poll, requests of weight 1 and 3 under a
\* budget of 4, a minute of three ticks, a timeout of two.
CONSTANTS
  universe = universe
  orders = orders
  positions = positions
  Callers <- MCCallers
  Waits <- MCWaits
  Polls <- MCPolls
  Budget = 4
  Window = 3
  Timeout = 2
  MaxRetries = 2
SPECIFICATION Spec
INVARIANTS
  WindowRespected
  NoBudgetWithheld
  BoundedWait
PROPERTIES
  SlidesExactly
  EveryCallEnds
