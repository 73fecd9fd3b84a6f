\* Two coins, the poll loop and one worker; a change of one is below the
\* threshold, a flip or a larger change is not.
CONSTANTS
  loop = loop
  worker = worker
  Coins <- TwoCoins
  Readers = {loop, worker}
  Least = 2
  MaxSize = 2
  MaxMoves = 2
  MaxDrops = 1
SPECIFICATION FairSpec
INVARIANTS
  ToldWasHeld
  LedgerBalances
PROPERTIES
  Settles
