\* A subscriber and an administrator, one wallet's thread and alerts without
\* one; a liveness property, so no symmetry.
CONSTANTS
  chat1 = chat1
  chat2 = chat2
  btc = btc
  None = None
  Chats = {chat1, chat2}
  Admins = {chat2}
  Threads = {btc}
  QueueMax = 1
  MaxJobs = 2
  MaxDeleted = 1
SPECIFICATION FairSpec
INVARIANTS
  RepliesStayInThread
  InOrder
  HistoryIsTrue
PROPERTIES
  TellsOnce
  JobLeaves
