\* Each observation has a cooldown key of its own.
CONSTANTS
  w1 = w1
  w2 = w2
  k1 = k1
  k2 = k2
  c1 = c1
  c2 = c2
  None = None
  Emitters = {w1, w2}
  Keys = {k1, k2}
  CoolKeys = {c1, c2}
  CooldownOf <- OwnCooldown
  TTL = 2
  Cooldown = 2
  QueueMax = 1
  MaxRows = 1
SPECIFICATION Spec
PROPERTIES
  FailureIsUndone
