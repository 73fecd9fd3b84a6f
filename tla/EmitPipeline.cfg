\* Two emitters, two observations of one whale, a durable gate whose query may
\* fail; EmissionEnds is a liveness property, so no symmetry.
CONSTANTS
  w1 = w1
  w2 = w2
  k1 = k1
  k2 = k2
  c1 = c1
  None = None
  Emitters = {w1, w2}
  Keys = {k1, k2}
  CoolKeys = {c1}
  CooldownOf <- SharedCooldown
  TTL = 1
  Cooldown = 1
  QueueMax = 1
  MaxRows = 2
SPECIFICATION FairSpec
INVARIANTS
  OneEmitterPerObservation
  OneAlertPerRow
PROPERTIES
  RecordsOnce
  EmissionEnds
