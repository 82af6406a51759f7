------------------------------- MODULE Keypad -------------------------------
(***************************************************************************)
(* KeypadTask: a matrix of four rows and three columns behind a port       *)
(* expander.  One column is driven at a time; each call of TaskLoop reads  *)
(* the port once and takes one step of the scan and debounce automaton.    *)
(* The port is an argument, as the bus may return anything.                *)
(***************************************************************************)
EXTENDS Messages

VARIABLES key_state,     \* "KEY_IDLE", "KEY_PRESS_DETECTED" or "KEY_PRESSED"
          last_pressed,  \* the reading that left KEY_IDLE
          key_timer,     \* whether the debounce timer has expired
          column,        \* the column the port expander drives
          queue

keypad == <<key_state, last_pressed, key_timer, column>>

\* Rows 1..4 are bits 6, 5, 4, 3 of the port, columns 1..3 its low bits 011,
\* 101, 110. 10 is the star, 11 the hash.
KEY_MAP == << <<1, 2, 3>>, <<4, 5, 6>>, <<7, 8, 9>>, <<10, 0, 11>> >>

Reading(rows, col) == [rows |-> rows, column |-> col]
Nothing == Reading({}, 0)

\* The keys whose port value the reading is: none if several rows are active.
KeysOf(reading) == {KEY_MAP[r][c] : r \in {r \in 1..4 : reading.rows = {r}},
                                    c \in {c \in 1..3 : reading.column = c}}

Init == /\ key_state = "KEY_IDLE"
        /\ last_pressed = Nothing
        /\ key_timer = FALSE
        /\ column = 3

NextColumn(c) == CASE c = 2 -> 3 [] c = 3 -> 1 [] OTHER -> 2

\* Time passes: key_timer.isExpired() holds from now on.
KeyTimerExpires == /\ ~key_timer
                   /\ key_timer' = TRUE
                   /\ UNCHANGED <<key_state, last_pressed, column, queue>>

\* A row is active: key_timer.Set(20).
KeyDetected(reading) == /\ key_state = "KEY_IDLE"
                        /\ reading.rows # {}
                        /\ key_state' = "KEY_PRESS_DETECTED"
                        /\ last_pressed' = reading
                        /\ key_timer' = FALSE
                        /\ UNCHANGED <<column, queue>>

\* Mutant: the scan never gets to the first column.
SkipColumn(reading) == /\ key_state = "KEY_IDLE"
                       /\ reading.rows = {}
                       /\ column' = IF reading.column = 2 THEN 3 ELSE 2
                       /\ UNCHANGED <<key_state, last_pressed, key_timer, queue>>

ScanColumn(reading) == /\ key_state = "KEY_IDLE"
                       /\ reading.rows = {}
                       /\ column' = NextColumn(reading.column)
                       /\ UNCHANGED <<key_state, last_pressed, key_timer, queue>>

\* Mutant: the debounce time is not waited for.
StillPressedAtOnce(reading) == reading.rows \cap last_pressed.rows # {}

StillPressed(reading) == key_timer /\ reading.rows \cap last_pressed.rows # {}

KeyAccepted(reading) ==
  /\ key_state = "KEY_PRESS_DETECTED"
  /\ StillPressed(reading)
  /\ \E key \in KeysOf(reading) :
       queue' = queue \o <<Message(MSG_ID_UPDATE_7SEG, key),
                           Message(MSG_ID_KEY_PRESSED, key)>>
  /\ key_state' = "KEY_PRESSED"
  /\ UNCHANGED <<last_pressed, key_timer, column>>

\* Several rows are active, or the timer is running.
KeyUndecided(reading) ==
  /\ key_state = "KEY_PRESS_DETECTED"
  /\ IF StillPressed(reading) THEN KeysOf(reading) = {} ELSE reading.rows # {}
  /\ UNCHANGED <<keypad, queue>>

KeyBounced(reading) == /\ key_state = "KEY_PRESS_DETECTED"
                       /\ ~StillPressed(reading) /\ reading.rows = {}
                       /\ key_state' = "KEY_IDLE"
                       /\ UNCHANGED <<last_pressed, key_timer, column, queue>>

KeyHeld(reading) == /\ key_state = "KEY_PRESSED"
                    /\ reading = last_pressed
                    /\ UNCHANGED <<keypad, queue>>

\* One KEY_PRESSED for the key of the reading, if it has one.
KeyPosts(reading) ==
  IF KeysOf(reading) = {} THEN <<>>
  ELSE <<Message(MSG_ID_KEY_PRESSED, CHOOSE key \in KeysOf(reading) : TRUE)>>

\* Mutant: the seven-segment display is not told that the key was released.
KeyReleasedSilently(reading) ==
  /\ key_state = "KEY_PRESSED"
  /\ reading # last_pressed
  /\ queue' = queue \o KeyPosts(reading)
  /\ key_state' = "KEY_IDLE"
  /\ UNCHANGED <<last_pressed, key_timer, column>>

\* The reading has changed: the key was released, or another key of its column
\* is down, which is posted.
KeyReleased(reading) ==
  /\ key_state = "KEY_PRESSED"
  /\ reading # last_pressed
  /\ queue' = queue \o KeyPosts(reading) \o <<Message(MSG_ID_UPDATE_7SEG, 255)>>
  /\ key_state' = "KEY_IDLE"
  /\ UNCHANGED <<last_pressed, key_timer, column>>

TaskLoop(reading) == \/ KeyDetected(reading) \/ ScanColumn(reading)
                     \/ KeyAccepted(reading) \/ KeyUndecided(reading)
                     \/ KeyBounced(reading)
                     \/ KeyHeld(reading) \/ KeyReleased(reading)
=============================================================================
