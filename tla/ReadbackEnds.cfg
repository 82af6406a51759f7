\* The program fills the ring of a new or a formatted EEPROM and dumps it, without any fault.
CONSTANTS
  LAST = 3
  ByteSize = 2
  MaxQueue = 1
  MaxFailures = 5
  Requests = {"log", "dump"}
  MayFail = FALSE
  MayTear = FALSE
  MayCrash = FALSE
  InitialBlocks <- AnyLog
  MaxEntries = 3
SPECIFICATION Spec
PROPERTIES ReadbackEnds
