\* The three digits that make 0, 40 (too low), 300, 340 and 343 (too high), 403 and 430.
CONSTANTS
  RPS_MIN = 50
  RPS_MAX = 340
  Keys = {0, 3, 4, 10, 11}
  Speeds = {0, 300}
SPECIFICATION Spec
INVARIANTS TypeOK EnteredAsShown
PROPERTIES EntersDigits ScreenComesBack
