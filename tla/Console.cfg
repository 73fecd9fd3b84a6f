\* Two users, the main administrator alice and bob, who is promoted and
\* demoted; three requests, a database that may fail at every one of them.
CONSTANTS
  alice = alice
  bob = bob
  btc = btc
  hype = hype
  whale = whale
  none = none
  Users <- MCUsers
  Main = alice
  Coins <- MCCoins
  Wallets <- MCWallets
  Envs <- MCEnvs
  NotSet = none
  Amounts <- MCAmounts
  Seconds <- MCSeconds
  MinThreshold = 1
  MaxThreshold = 2
  MaxCooldown = 2
  DbFails = TRUE
  MaxRequests = 3
SPECIFICATION Spec
INVARIANTS
  MemoryIsDatabase
PROPERTIES
  RestartRestores
  NoStaleAuthority
  PausedIsFrozen
