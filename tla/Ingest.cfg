\* Three wallets of which the tracker holds two, an ordinary and a forced
\* execution, two workers, two frames and two changes of the settings.
CONSTANTS
  None = None
  buyer = buyer
  holder = holder
  closer = closer
  Wallets <- MCWallets
  Executions <- MCExecutions
  Coin = "BTC"
  Initial <- MCInitial
  Configs <- MCConfigs
  Workers = {1, 2}
  Capacity = 2
  QueueMax = 1
  MaxFrames = 2
  MaxChanges = 2
SPECIFICATION Spec
INVARIANTS
  OneAlertPerExecution
  AlertIsTrue
  RowWasHeld
  WatchedAreTracked
  RulesHold
PROPERTIES
  JobsEnd
CHECK_DEADLOCK FALSE
