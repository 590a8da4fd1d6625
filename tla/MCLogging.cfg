SPECIFICATION FairSpec
CONSTANTS
  handler = handler
  updater = updater
  Tasks = {handler, updater}
  Handlers = {handler}
  Capacity = 1
  Threshold = 1
  Sizes = {1, 2}
  MaxSize = 2
  MaxLines = 2
INVARIANTS BufferBounded IInv
PROPERTIES ImplementsJournal LinesArrive SendersServed
CHECK_DEADLOCK FALSE
