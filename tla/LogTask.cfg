\* A formatted EEPROM, every request and every fault; the ring comes round and loses its oldest entry twice.
CONSTANTS
  LAST = 4
  ByteSize = 2
  MaxQueue = 2
  MaxFailures = 1
  Requests <- AllRequests
  MayFail = TRUE
  MayTear = TRUE
  MayCrash = TRUE
  InitialBlocks <- EmptyLog
  MaxEntries = 5
SPECIFICATION Spec
INVARIANTS TypeOK LogIntact
PROPERTIES LogNeverDamaged DumpInOrder QueuedIsStored
