\* Every fault of the bus and of the power supply.
CONSTANTS
  E2_MEMORY_SIZE = 7
  E2_PAGE_SIZE = 2
  E2_IIC_ADDRESS = 160
  ByteSize = 4
  RTC_IIC_ADDRESS = 222
  Weekdays = {1}
  E2Calls <- MCE2Calls
  Dates <- MCDates
  DeviceBlock = 4
  Released = 3
SPECIFICATION Spec
INVARIANTS TypeOK
PROPERTIES ImplementsPages DateKept CallReturns
