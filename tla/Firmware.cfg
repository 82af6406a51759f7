\* One digit, backspace and enter: the speeds 0, 300, 330 and 333 (too high); a log entry every tick.
CONSTANTS
  Readings <- MCReadings
  Speeds = {0, 300}
  RPS_MIN = 50
  RPS_MAX = 330
  LOG_TICKS = 1
  MaxMessages = 2
SPECIFICATION Spec
INVARIANTS TypeOK QueueDrained LogMessageFresh DemandFollowed MotorRuns KeyShown
