\* One order that may be filled in part, the poll loop and one worker.
CONSTANTS
  o1 = o1
  o2 = o2
  loop = loop
  worker = worker
  Oids = {o1}
  Orig <- Placed
  Readers = {loop, worker}
  Loop = loop
  Least = 2
  QueueMax = 1
  MaxDrops = 1
SPECIFICATION Spec
INVARIANTS
  OutcomeIsTrue
  EndIsTold
