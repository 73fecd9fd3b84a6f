\* Two callers, a cap of one subscription, two lost connections; a liveness
\* property, so no symmetry.  The behaviour ends when its bounds are used up or
\* the client was stopped.
CONSTANTS
  btc = btc
  eth = eth
  loop = loop
  handler = handler
  None = None
  Keys = {btc, eth}
  Callers = {loop, handler}
  MaxSubs = 1
  MaxCalls = 3
  MaxDrops = 2
SPECIFICATION FairSpec
CHECK_DEADLOCK FALSE
INVARIANTS
  NoLostSubscription
  LeakIsActive
PROPERTIES
  GetsSubscribed
