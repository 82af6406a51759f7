\* Four registrations of two tasks.
CONSTANTS
  control = control
  keypad = keypad
  Task <- MCTask
  MaxRegistrations = 4
SPECIFICATION Spec
INVARIANTS TypeOK
PROPERTIES NoOvertaking NoStarvation
