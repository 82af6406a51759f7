\* Two keys of a column, pressed one after the other at any speed.
CONSTANTS
  Keys = {1, 4}
  Unhurried = FALSE
SPECIFICATION Spec
PROPERTIES PostedDebounced
