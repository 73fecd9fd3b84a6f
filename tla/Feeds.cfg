\* Three candidates for a slate of two, two coins; MAX_WS_CONNECTIONS is
\* Limit + 2, as in the code.  Liveness properties, so no symmetry.
CONSTANTS
  w1 = w1
  w2 = w2
  w3 = w3
  btc = btc
  eth = eth
  NoWallet = NoWallet
  Wallets = {w1, w2, w3}
  Coins = {btc, eth}
  Limit = 2
  MaxConnections = 4
  MaxChanges = 2
SPECIFICATION FeedFairSpec
INVARIANTS
  ConnectionCeiling
PROPERTIES
  SlateDrains
  FeedsFollow
