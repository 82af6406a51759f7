\* Three MESSAGE objects: a queue of two behind one in hand, and exhaustion.
CONSTANTS
  Node = {n1, n2, n3}
  Context = {c1}
  Null = Null
  MaxMsgIds = 26
  TaskIds <- MCTaskIds
  IsrIds <- MCIsrIds
  Handlers <- MCHandlers
  MaxMessages = 2
SPECIFICATION Spec
INVARIANTS TypeOK MaskedWhenCritical ListSound NothingLeaks ContextsAlive
PROPERTIES ImplementsFifo EveryMessageFreed InterruptsReturn
