------------------------------ MODULE Display ------------------------------
(***************************************************************************)
(* Display: the LCD and the entry of a speed.  TaskLoop takes one step of  *)
(* its automaton; the handlers of three messages leave what they bring in  *)
(* one place each, where TaskLoop looks for it later.                      *)
(***************************************************************************)
EXTENDS Messages

CONSTANTS RPS_MIN, RPS_MAX   \* of class Control

ASSUME RangeAssumption == RPS_MIN \in Nat /\ RPS_MAX \in Nat

VARIABLES
  display_state,
  init_complete,
  is_key_pressed, current_key,
  actual_rps, current_rps,     \* the measured speed; the one last put on the LCD
  demand_rps, input_rps,
  cursor_position,
  user_input_values,           \* three characters and the byte behind them
  error_timer,                 \* whether it has expired
  lcd,                         \* columns 9..12 of the entry line of the LCD
  queue

keys == <<is_key_pressed, current_key>>
speeds == <<actual_rps, current_rps>>
demands == <<demand_rps, input_rps>>
entry == <<cursor_position, user_input_values, lcd>>
display == <<display_state, init_complete, keys, speeds, demands, entry, error_timer>>

\* A character is a number c for c + '0', or Nul: also a blank on the LCD.
Nul == -1
Chars == 0..11

\* user_input_values[3] is the low byte of error_timer.tmr.
Behind == 3
Cells == 0..Behind

Init == /\ display_state = "INIT_DISPLAY"
        /\ init_complete = FALSE
        /\ is_key_pressed = FALSE /\ current_key = 0
        /\ actual_rps = 0 /\ current_rps = 0
        /\ demand_rps = 0 /\ input_rps = 0
        /\ cursor_position = 9
        /\ user_input_values = [i \in Cells |-> Nul]
        /\ error_timer = TRUE
        /\ lcd = [i \in Cells |-> Nul]

-----------------------------------------------------------------------------
(* Strings.                                                                *)

Blank == [i \in Cells |-> Nul]
Zeros == [i \in Cells |-> IF i = Behind THEN Nul ELSE 0]

\* lcd.print of a string at column 9: as far as the string goes.
Printed(string, on) == [i \in Cells |-> IF \A j \in 0..i : string[j] # Nul
                                        THEN string[i] ELSE on[i]]

\* The places not filled are filled with '0'.
Filled(string) == [i \in Cells |-> IF i # Behind /\ string[i] = Nul THEN 0 ELSE string[i]]

\* sscanf "%d": the digits up to the first character that is none. Without a
\* digit at the start nothing is assigned.
Scanned(string, otherwise) ==
  LET three == 100 * string[0] + 10 * string[1] + string[2]
  IN  IF string[0] > 9 THEN otherwise
      ELSE IF string[Behind] = Nul THEN three ELSE 10 * three + string[Behind]

\* Mutant: there is no upper limit.
InRangeUnlimited(speed) == speed = 0 \/ speed >= RPS_MIN

InRange(speed) == speed = 0 \/ (speed >= RPS_MIN /\ speed <= RPS_MAX)

-----------------------------------------------------------------------------
(* EventHandler.                                                           *)

InitComplete == /\ init_complete' = TRUE
                /\ UNCHANGED <<display_state, keys, speeds, demands, entry, error_timer, queue>>

NewActualRps(speed) ==
  /\ actual_rps' = speed
  /\ UNCHANGED <<display_state, init_complete, keys, current_rps, demands, entry,
                 error_timer, queue>>

KeyPressed(key) ==
  /\ is_key_pressed' = TRUE
  /\ current_key' = key
  /\ UNCHANGED <<display_state, init_complete, speeds, demands, entry, error_timer, queue>>

EventHandler(m) == \/ m.id = MSG_ID_INIT_COMPLETE /\ InitComplete
                   \/ m.id = MSG_ID_NEW_ACTUAL_RPS /\ NewActualRps(m.context)
                   \/ m.id = MSG_ID_KEY_PRESSED /\ KeyPressed(m.context)

-----------------------------------------------------------------------------
(* TaskLoop, one action per display_state and branch.                      *)

Starting == /\ display_state = "INIT_DISPLAY"
            /\ lcd' = Blank
            /\ display_state' = IF init_complete THEN "REFRESH_DISPLAY" ELSE display_state
            /\ UNCHANGED <<init_complete, keys, speeds, demands, cursor_position,
                           user_input_values, error_timer, queue>>

\* The entry line shows the demanded speed; columns 9..12 are of no interest.
Refresh == /\ display_state = "REFRESH_DISPLAY"
           /\ lcd' = Blank
           /\ display_state' = "IDLE_DISPLAY"
           /\ UNCHANGED <<init_complete, keys, speeds, demands, cursor_position,
                          user_input_values, error_timer, queue>>

\* Backspace and enter do not begin an entry, and stay where they are.
DigitWaits == is_key_pressed /\ current_key < 10

IdleDigit == /\ display_state = "IDLE_DISPLAY" /\ DigitWaits
             /\ is_key_pressed' = FALSE
             /\ display_state' = "FIRST_KEY_PRESS"
             /\ UNCHANGED <<init_complete, current_key, speeds, demands, entry,
                            error_timer, queue>>

IdleActual == /\ display_state = "IDLE_DISPLAY" /\ ~DigitWaits
              /\ actual_rps # current_rps
              /\ current_rps' = actual_rps
              /\ display_state' = "NEW_ACTUAL_RPS"
              /\ UNCHANGED <<init_complete, keys, actual_rps, demands, entry,
                             error_timer, queue>>

Idle == /\ display_state = "IDLE_DISPLAY" /\ ~DigitWaits
        /\ actual_rps = current_rps
        /\ UNCHANGED <<display, queue>>

ShowActual == /\ display_state = "NEW_ACTUAL_RPS"
              /\ display_state' = "IDLE_DISPLAY"
              /\ UNCHANGED <<init_complete, keys, speeds, demands, entry, error_timer, queue>>

\* sprintf of three digits writes its terminator behind the buffer; the buffer
\* is cleared and gets the key.
FirstKey ==
  /\ display_state = "FIRST_KEY_PRESS"
  /\ user_input_values' = [i \in Cells |-> IF i = 0 THEN current_key ELSE Nul]
  /\ lcd' = Printed(user_input_values', Zeros)
  /\ cursor_position' = 10
  /\ display_state' = "NEXT_KEY_PRESS"
  /\ UNCHANGED <<init_complete, keys, speeds, demands, error_timer, queue>>

NextKeyNone == /\ display_state = "NEXT_KEY_PRESS" /\ ~is_key_pressed
               /\ UNCHANGED <<display, queue>>

\* A key waits while digits are entered; it is taken.
TakeNextKey == /\ display_state = "NEXT_KEY_PRESS" /\ is_key_pressed
               /\ is_key_pressed' = FALSE
               /\ UNCHANGED <<init_complete, current_key, speeds, demand_rps,
                              error_timer, queue>>

\* Mutant: the digit stays in the buffer.
BackspaceOnLcd == /\ TakeNextKey
                  /\ current_key = 10 /\ cursor_position > 9
                  /\ cursor_position' = cursor_position - 1
                  /\ lcd' = [lcd EXCEPT ![cursor_position - 10] = 0]
                  /\ UNCHANGED <<display_state, input_rps, user_input_values>>

NextKeyBackspace ==
  /\ TakeNextKey
  /\ current_key = 10 /\ cursor_position > 9
  /\ cursor_position' = cursor_position - 1
  /\ user_input_values' = [user_input_values EXCEPT ![cursor_position - 10] = Nul]
  /\ lcd' = [lcd EXCEPT ![cursor_position - 10] = 0]
  /\ UNCHANGED <<display_state, input_rps>>

NextKeyEnter ==
  /\ TakeNextKey
  /\ current_key = 11
  /\ user_input_values' = Filled(user_input_values)
  /\ input_rps' = Scanned(user_input_values', input_rps)
  /\ display_state' = "VALIDATE_INPUT"
  /\ UNCHANGED <<cursor_position, lcd>>

\* Mutant: a fourth digit is accepted.
NextKeyFourthDigit ==
  /\ TakeNextKey
  /\ current_key < 10 /\ cursor_position < 13
  /\ user_input_values' = [user_input_values EXCEPT ![cursor_position - 9] = current_key]
  /\ cursor_position' = cursor_position + 1
  /\ lcd' = Printed(user_input_values', lcd)
  /\ UNCHANGED <<display_state, input_rps>>

NextKeyDigit ==
  /\ TakeNextKey
  /\ current_key < 10 /\ cursor_position < 12
  /\ user_input_values' = [user_input_values EXCEPT ![cursor_position - 9] = current_key]
  /\ cursor_position' = cursor_position + 1
  /\ lcd' = Printed(user_input_values', lcd)
  /\ UNCHANGED <<display_state, input_rps>>

\* Backspace with nothing entered, a fourth digit.
NextKeyIgnored == /\ TakeNextKey
                  /\ \/ current_key = 10 /\ cursor_position = 9
                     \/ current_key < 10 /\ cursor_position >= 12
                  /\ UNCHANGED <<display_state, input_rps, entry>>

ValidateAccept ==
  /\ display_state = "VALIDATE_INPUT" /\ InRange(input_rps)
  /\ demand_rps' = input_rps
  /\ queue' = Append(queue, Message(MSG_ID_NEW_RPS_ENTERED, input_rps))
  /\ display_state' = "REFRESH_DISPLAY"
  /\ UNCHANGED <<init_complete, keys, speeds, input_rps, entry, error_timer>>

\* error_timer.Set(2000) puts the low byte of the time behind the buffer.
ValidateReject ==
  /\ display_state = "VALIDATE_INPUT" /\ ~InRange(input_rps)
  /\ error_timer' = FALSE
  /\ \E byte \in {Nul, 0} :
       user_input_values' = [user_input_values EXCEPT ![Behind] = byte]
  /\ lcd' = Blank
  /\ display_state' = "DISPLAY_ERROR"
  /\ UNCHANGED <<init_complete, keys, speeds, demands, cursor_position, queue>>

ErrorShown == /\ display_state = "DISPLAY_ERROR" /\ ~error_timer
              /\ UNCHANGED <<display, queue>>

\* Mutant: the message is left on the screen.
ErrorStays == /\ display_state = "DISPLAY_ERROR" /\ error_timer
              /\ UNCHANGED <<display, queue>>

ErrorEnds == /\ display_state = "DISPLAY_ERROR" /\ error_timer
             /\ lcd' = Printed(user_input_values, Blank)
             /\ display_state' = "REFRESH_DISPLAY"
             /\ UNCHANGED <<init_complete, keys, speeds, demands, cursor_position,
                            user_input_values, error_timer, queue>>

TaskLoop == \/ Starting \/ Refresh
            \/ IdleDigit \/ IdleActual \/ Idle \/ ShowActual
            \/ FirstKey
            \/ NextKeyNone \/ NextKeyBackspace \/ NextKeyEnter \/ NextKeyDigit \/ NextKeyIgnored
            \/ ValidateAccept \/ ValidateReject
            \/ ErrorShown \/ ErrorEnds

\* Time passes: error_timer.isExpired() holds from now on.
ErrorTimerExpires ==
  /\ ~error_timer
  /\ error_timer' = TRUE
  /\ UNCHANGED <<display_state, init_complete, keys, speeds, demands, entry, queue>>
=============================================================================
