\* A clock of three bits: it wraps at every phase of a timer.
CONSTANTS
  Modulus = 8
SPECIFICATION TimerSpec
INVARIANT ExpiryExact
