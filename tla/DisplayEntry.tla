---------------------------- MODULE DisplayEntry ----------------------------
(***************************************************************************)
(* The display with an operator who enters speeds. The messages it gets    *)
(* are those of the keypad, of Control and of setup(); what it posts is    *)
(* dispatched before the next task is called.                              *)
(***************************************************************************)
EXTENDS Display

CONSTANTS Keys,     \* the keys the operator uses
          Speeds    \* the speeds measured

ASSUME KeysAssumption == Keys \subseteq 0..11
ASSUME SpeedsAssumption == Speeds \subseteq Nat

vars == <<display, queue>>

EntryInit == Init /\ queue = <<>>

\* Two keys are further apart than the debounce of the second and two rounds
\* of the ring: the display has looked at the one before, and if it began an
\* entry has taken it over.
Attentive == ~is_key_pressed /\ display_state # "FIRST_KEY_PRESS"

Key == \E key \in Keys : Attentive /\ KeyPressed(key)

Actual == \E speed \in Speeds : NewActualRps(speed)

SetupDone == InitComplete

Task == queue = <<>> /\ TaskLoop

Dispatch == /\ queue # <<>>
            /\ queue' = Tail(queue)
            /\ UNCHANGED display

Next == Key \/ Actual \/ SetupDone \/ Task \/ Dispatch \/ ErrorTimerExpires

\* The superloop goes round, and time passes.
Fairness == WF_vars(Task) /\ WF_vars(Dispatch) /\ WF_vars(ErrorTimerExpires)

Spec == EntryInit /\ [][Next]_vars /\ Fairness

-----------------------------------------------------------------------------
(* Properties.                                                             *)

States == {"INIT_DISPLAY", "REFRESH_DISPLAY", "IDLE_DISPLAY", "NEW_ACTUAL_RPS",
           "FIRST_KEY_PRESS", "NEXT_KEY_PRESS", "VALIDATE_INPUT", "DISPLAY_ERROR"}

\* Every variable keeps its type; in particular the buffer is not written
\* beyond its end.
TypeOK == /\ display_state \in States
          /\ {init_complete, is_key_pressed, error_timer} \subseteq BOOLEAN
          /\ current_key \in Chars
          /\ {actual_rps, current_rps, demand_rps, input_rps} \subseteq Nat
          /\ cursor_position \in 9..12
          /\ user_input_values \in [Cells -> Chars \cup {Nul}]
          /\ lcd \in [Cells -> Chars \cup {Nul}]
          /\ queue \in Seq([id : {MSG_ID_NEW_RPS_ENTERED}, context : Nat, text : {NoText}])

\* The speed that is validated is the one that stands on the LCD when the
\* operator presses enter, however digits were entered and removed before,
\* whatever the buffer and the byte behind it held from earlier entries.
EnteredAsShown ==
  display_state = "VALIDATE_INPUT" =>
    /\ \A i \in 0..2 : lcd[i] \in 0..9
    /\ lcd[Behind] = Nul
    /\ input_rps = 100 * lcd[0] + 10 * lcd[1] + lcd[2]

\* The places filled so far are those before the cursor.
Typed == IF display_state \in {"NEXT_KEY_PRESS", "VALIDATE_INPUT"}
           THEN [i \in 1..(cursor_position - 9) |-> user_input_values[i - 1]]
           ELSE <<>>

Entry == INSTANCE DigitEntry WITH
           Digits   <- Keys \cap 0..9,
           entering <- display_state \in {"NEXT_KEY_PRESS", "VALIDATE_INPUT"},
           typed    <- Typed,
           demand   <- demand_rps

\* The display implements what it promises the operator.
EntersDigits == Entry!Spec

\* Whatever is entered, the screen comes back to where an entry can begin.
ScreenComesBack == (display_state = "VALIDATE_INPUT") ~> (display_state = "IDLE_DISPLAY")
=============================================================================
