\* The main administrator and a user who subscribes, stops and is promoted.
CONSTANTS
  boss = boss
  ann = ann
  bob = bob
  Users = {boss, ann}
  Main = boss
  EnvPublic = FALSE
  TTL = 2
  DbFails = TRUE
SPECIFICATION RecipientSpec
INVARIANTS
  StopHonoured
  PrivateHonoured
  AdminsReached
