\* The columns 1 (keys 1 and 4), 2 (key 0) and 3 (key 11), an unhurried operator.
CONSTANTS
  Keys = {0, 1, 4, 11}
  Unhurried = TRUE
SPECIFICATION Spec
INVARIANT PostedOnce
PROPERTIES HeldKeyPosted
