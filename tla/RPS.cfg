\* Bytes of base 3 instead of 256: counts of up to two bytes, of which the high one changes.
CONSTANTS
  Base = 3
  MaxRises = 4
SPECIFICATION RPSSpec
INVARIANTS CountedOnce CountExact
PROPERTIES SpeedRead
