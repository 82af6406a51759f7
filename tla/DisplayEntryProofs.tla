------------------------- MODULE DisplayEntryProofs -------------------------
(***************************************************************************)
(* The entry of a speed at the display, for every range, every set of keys *)
(* and every speed measured: what is validated is what the LCD shows, and  *)
(* the display implements DigitEntry.                                      *)
(*                                                                         *)
(* The argument.  While digits are entered the buffer and the LCD agree    *)
(* place by place: before the cursor stand the digits entered, behind it   *)
(* nothing, which the LCD shows as 0, and the byte behind the buffer is 0, *)
(* so that sscanf ends there whatever the error timer left in it before.   *)
(***************************************************************************)
EXTENDS DisplayEntry, SequenceTheorems, TLAPS

Types == /\ display_state \in States
         /\ init_complete \in BOOLEAN /\ is_key_pressed \in BOOLEAN /\ error_timer \in BOOLEAN
         /\ current_key \in Chars
         /\ actual_rps \in Nat /\ current_rps \in Nat /\ demand_rps \in Nat /\ input_rps \in Nat
         /\ cursor_position \in 9..12
         /\ user_input_values \in [Cells -> Chars \cup {Nul}]
         /\ lcd \in [Cells -> Chars \cup {Nul}]
         /\ queue \in Seq([id : {MSG_ID_NEW_RPS_ENTERED}, context : Nat, text : {NoText}])

\* The key that waits is one of the operator's, and the one that began an
\* entry a digit.
Keyed == /\ is_key_pressed => current_key \in Keys
         /\ display_state = "FIRST_KEY_PRESS" => current_key \in Keys /\ current_key <= 9

Entered == cursor_position - 9

\* Digits are being entered.
AsEntered(cell) == /\ lcd[cell] = (IF user_input_values[cell] = Nul THEN 0 ELSE user_input_values[cell])
                   /\ IF cell < Entered THEN user_input_values[cell] \in 0..9
                                        ELSE user_input_values[cell] = Nul

Entering == /\ \A cell \in 0..2 : AsEntered(cell)
            /\ user_input_values[Behind] = Nul /\ lcd[Behind] = Nul

\* An entry is complete.
AsValidated(cell) == /\ user_input_values[cell] \in 0..9
                     /\ lcd[cell] = user_input_values[cell]
                     /\ cell >= Entered => user_input_values[cell] = 0

Number == 100 * user_input_values[0] + 10 * user_input_values[1] + user_input_values[2]

Validating == /\ \A cell \in 0..2 : AsValidated(cell)
              /\ lcd[Behind] = Nul
              /\ input_rps = Number

IInv == /\ Types
        /\ Keyed
        /\ display_state = "NEXT_KEY_PRESS" => Entering
        /\ display_state = "VALIDATE_INPUT" => Validating

-----------------------------------------------------------------------------
(* The places of the buffer.                                               *)

LEMMA CellsAre == Cells = {0, 1, 2, 3} /\ Behind = 3 /\ 0..2 = {0, 1, 2} /\ Nul \notin 0..11
  BY DEF Cells, Behind, Nul

\* While digits are entered they stand on the LCD.
LEMMA EntersCell ==
  ASSUME Types, NEW cell \in 0..2
  PROVE  AsEntered(cell) => /\ lcd[cell] \in 0..9
                            /\ user_input_values[cell] \in 0..9 \cup {Nul}
                            /\ user_input_values[cell] # Nul <=> cell < Entered
  BY CellsAre DEF Types, AsEntered, Entered

\* The variables of an entry stay as they are.
LEMMA EntryStays ==
  ASSUME UNCHANGED <<entry, input_rps>>
  PROVE  /\ Entering' <=> Entering
         /\ Validating' <=> Validating
  BY DEF entry, Entering, AsEntered, Entered, Validating, AsValidated, Number

\* Printed writes up to the first Nul.
LEMMA PrintedIs ==
  ASSUME NEW string, NEW on
  PROVE  /\ Printed(string, on)[0] = IF string[0] # Nul THEN string[0] ELSE on[0]
         /\ Printed(string, on)[1] = IF string[0] # Nul /\ string[1] # Nul THEN string[1] ELSE on[1]
         /\ Printed(string, on)[2] = IF string[0] # Nul /\ string[1] # Nul /\ string[2] # Nul
                                       THEN string[2] ELSE on[2]
         /\ Printed(string, on)[3] = IF /\ string[0] # Nul /\ string[1] # Nul
                                        /\ string[2] # Nul /\ string[3] # Nul
                                       THEN string[3] ELSE on[3]
<1>1. 0..0 = {0} /\ 0..1 = {0, 1} /\ 0..2 = {0, 1, 2} /\ 0..3 = {0, 1, 2, 3}
  OBVIOUS
<1>2. \A i \in {0, 1, 2, 3} : Printed(string, on)[i] = IF \A j \in 0..i : string[j] # Nul
                                                         THEN string[i] ELSE on[i]
  BY CellsAre DEF Printed
<1> QED BY <1>1, <1>2

LEMMA PrintedType ==
  ASSUME NEW string \in [Cells -> Chars \cup {Nul}], NEW on \in [Cells -> Chars \cup {Nul}]
  PROVE  Printed(string, on) \in [Cells -> Chars \cup {Nul}]
  BY DEF Printed

\* sscanf reads three digits and nothing behind them.
LEMMA ScannedIs ==
  ASSUME NEW string, NEW otherwise, string[0] \in 0..9, string[Behind] = Nul
  PROVE  Scanned(string, otherwise) = 100 * string[0] + 10 * string[1] + string[2]
<1>1. ~(string[0] > 9)
  OBVIOUS
<1> QED BY <1>1 DEF Scanned

LEMMA NumberType ==
  ASSUME NEW string, \A cell \in 0..2 : string[cell] \in 0..9
  PROVE  100 * string[0] + 10 * string[1] + string[2] \in Nat
<1>1. string[0] \in 0..9 /\ string[1] \in 0..9 /\ string[2] \in 0..9
  BY CellsAre
<1> QED BY <1>1

-----------------------------------------------------------------------------
(* The steps.                                                              *)

LEMMA InitInv == EntryInit => IInv
<1> SUFFICES ASSUME EntryInit PROVE IInv
  OBVIOUS
<1>1. queue \in Seq([id : {MSG_ID_NEW_RPS_ENTERED}, context : Nat, text : {NoText}])
  BY DEF EntryInit
<1>2. [i \in Cells |-> Nul] \in [Cells -> Chars \cup {Nul}]
  OBVIOUS
<1>3. Types
  <2>1. user_input_values \in [Cells -> Chars \cup {Nul}] /\ lcd \in [Cells -> Chars \cup {Nul}]
    BY <1>2 DEF EntryInit, Init
  <2>2. init_complete \in BOOLEAN /\ is_key_pressed \in BOOLEAN /\ error_timer \in BOOLEAN
    BY DEF EntryInit, Init
  <2>3. /\ display_state \in States /\ current_key \in Chars /\ cursor_position \in 9..12
        /\ actual_rps \in Nat /\ current_rps \in Nat /\ demand_rps \in Nat /\ input_rps \in Nat
    BY DEF EntryInit, Init, States, Chars
  <2> QED BY <1>1, <2>1, <2>2, <2>3 DEF Types
<1> QED BY <1>3 DEF EntryInit, Init, IInv, Keyed

\* What the handlers of messages do.
LEMMA KeyStep == ASSUME IInv, Key PROVE IInv'
<1>1. PICK key \in Keys : Attentive /\ KeyPressed(key)
  BY DEF Key
<1>2. /\ is_key_pressed' = TRUE /\ current_key' = key /\ key \in Chars
      /\ display_state' = display_state /\ display_state # "FIRST_KEY_PRESS"
      /\ init_complete' = init_complete /\ error_timer' = error_timer /\ queue' = queue
      /\ actual_rps' = actual_rps /\ current_rps' = current_rps
      /\ demand_rps' = demand_rps /\ input_rps' = input_rps
      /\ cursor_position' = cursor_position /\ user_input_values' = user_input_values /\ lcd' = lcd
  BY <1>1, KeysAssumption DEF Attentive, KeyPressed, speeds, demands, entry, Chars
<1>3. (Entering' <=> Entering) /\ (Validating' <=> Validating)
  BY <1>2, EntryStays DEF entry
<1> QED BY <1>2, <1>3 DEF IInv, Types, Keyed

LEMMA ActualStep == ASSUME IInv, Actual PROVE IInv'
<1>1. PICK speed \in Speeds : NewActualRps(speed)
  BY DEF Actual
<1>2. /\ actual_rps' = speed /\ speed \in Nat
      /\ is_key_pressed' = is_key_pressed /\ current_key' = current_key
      /\ display_state' = display_state
      /\ init_complete' = init_complete /\ error_timer' = error_timer /\ queue' = queue
      /\ current_rps' = current_rps /\ demand_rps' = demand_rps /\ input_rps' = input_rps
      /\ cursor_position' = cursor_position /\ user_input_values' = user_input_values /\ lcd' = lcd
  BY <1>1, SpeedsAssumption DEF NewActualRps, keys, demands, entry
<1>3. (Entering' <=> Entering) /\ (Validating' <=> Validating)
  BY <1>2, EntryStays DEF entry
<1> QED BY <1>2, <1>3 DEF IInv, Types, Keyed

\* A step that touches nothing of an entry or of its key, and stays out of
\* the states of an entry.
LEMMA AsideStep ==
  ASSUME IInv, Types', UNCHANGED <<current_key, entry, input_rps>>,
         is_key_pressed' => is_key_pressed,
         \/ display_state' = display_state
         \/ display_state' \notin {"FIRST_KEY_PRESS", "NEXT_KEY_PRESS", "VALIDATE_INPUT"}
         \/ display_state' = "FIRST_KEY_PRESS" /\ is_key_pressed /\ current_key <= 9
  PROVE  IInv'
<1>1. (Entering' <=> Entering) /\ (Validating' <=> Validating)
  BY EntryStays
<1>2. Keyed'
  BY DEF IInv, Keyed
<1> QED BY <1>1, <1>2 DEF IInv

LEMMA SetupStep == ASSUME IInv, SetupDone PROVE IInv'
<1>1. Types' /\ UNCHANGED <<display_state, is_key_pressed, current_key, entry, input_rps>>
  BY DEF SetupDone, InitComplete, IInv, Types, keys, speeds, demands, entry
<1> QED BY <1>1, AsideStep

LEMMA DispatchStep == ASSUME IInv, Dispatch PROVE IInv'
<1>1. queue' \in Seq([id : {MSG_ID_NEW_RPS_ENTERED}, context : Nat, text : {NoText}])
  BY HeadTailProperties DEF Dispatch, IInv, Types
<1>2. Types' /\ UNCHANGED <<display_state, is_key_pressed, current_key, entry, input_rps>>
  BY <1>1 DEF Dispatch, display, IInv, Types, keys, speeds, demands, entry
<1> QED BY <1>2, AsideStep

LEMMA TimerStep == ASSUME IInv, ErrorTimerExpires PROVE IInv'
<1>1. Types' /\ UNCHANGED <<display_state, is_key_pressed, current_key, entry, input_rps>>
  BY DEF ErrorTimerExpires, IInv, Types, keys, speeds, demands, entry
<1> QED BY <1>1, AsideStep

LEMMA StutterStep == ASSUME IInv, UNCHANGED <<display, queue>> PROVE IInv'
<1>1. Types' /\ UNCHANGED <<display_state, is_key_pressed, current_key, entry, input_rps>>
  BY DEF display, IInv, Types, keys, speeds, demands, entry
<1> QED BY <1>1, AsideStep

\* The states before an entry and after it.
LEMMA IdleStep ==
  ASSUME IInv, IdleDigit \/ IdleActual \/ Idle \/ ShowActual
  PROVE  IInv'
<1>1. CASE IdleDigit
  <2>1. Types' /\ UNCHANGED <<current_key, entry, input_rps>>
    BY <1>1 DEF IdleDigit, IInv, Types, States, speeds, demands, entry
  <2>2. is_key_pressed /\ current_key <= 9 /\ display_state' = "FIRST_KEY_PRESS"
    BY <1>1 DEF IdleDigit, DigitWaits, IInv, Types, Chars
  <2> QED BY <2>1, <2>2, AsideStep
<1>2. CASE IdleActual
  <2>1. Types' /\ UNCHANGED <<is_key_pressed, current_key, entry, input_rps>>
    BY <1>2 DEF IdleActual, IInv, Types, States, keys, demands, entry
  <2> QED BY <1>2, <2>1, AsideStep DEF IdleActual
<1>3. CASE Idle
  BY <1>3, StutterStep DEF Idle
<1>4. CASE ShowActual
  <2>1. Types' /\ UNCHANGED <<is_key_pressed, current_key, entry, input_rps>>
    BY <1>4 DEF ShowActual, IInv, Types, States, keys, speeds, demands, entry
  <2> QED BY <1>4, <2>1, AsideStep DEF ShowActual
<1> QED BY <1>1, <1>2, <1>3, <1>4

\* The LCD is written outside of an entry.
LEMMA ScreenStep ==
  ASSUME IInv, Starting \/ Refresh \/ ErrorEnds
  PROVE  IInv'
<1>1. Blank \in [Cells -> Chars \cup {Nul}]
  BY DEF Blank
<1>2. lcd' \in [Cells -> Chars \cup {Nul}]
  BY <1>1, PrintedType DEF Starting, Refresh, ErrorEnds, IInv, Types
<1>3. /\ UNCHANGED <<init_complete, is_key_pressed, current_key, actual_rps, current_rps, demand_rps,
                     input_rps, cursor_position, user_input_values, error_timer, queue>>
      /\ display_state' \in {"INIT_DISPLAY", "REFRESH_DISPLAY", "IDLE_DISPLAY"}
  BY DEF Starting, Refresh, ErrorEnds, keys, speeds, demands
<1>4. Types'
  BY <1>2, <1>3 DEF IInv, Types, States
<1> QED BY <1>3, <1>4 DEF IInv, Keyed

LEMMA RejectStep == ASSUME IInv, ValidateReject PROVE IInv'
<1>1. PICK byte \in {Nul, 0} : user_input_values' = [user_input_values EXCEPT ![Behind] = byte]
  BY DEF ValidateReject
<1>2. user_input_values' \in [Cells -> Chars \cup {Nul}] /\ lcd' \in [Cells -> Chars \cup {Nul}]
  <2>1. byte \in Chars \cup {Nul}
    BY DEF Chars
  <2>2. lcd' = Blank /\ Blank \in [Cells -> Chars \cup {Nul}]
    BY DEF ValidateReject, Blank
  <2> QED BY <1>1, <2>1, <2>2 DEF IInv, Types
<1>3. /\ UNCHANGED <<init_complete, is_key_pressed, current_key, actual_rps, current_rps, demand_rps,
                     input_rps, cursor_position, queue>>
      /\ error_timer' = FALSE /\ display_state' = "DISPLAY_ERROR"
  BY DEF ValidateReject, keys, speeds, demands
<1>4. Types'
  BY <1>2, <1>3 DEF IInv, Types, States
<1> QED BY <1>3, <1>4 DEF IInv, Keyed

LEMMA AcceptStep == ASSUME IInv, ValidateAccept PROVE IInv'
<1>1. queue' \in Seq([id : {MSG_ID_NEW_RPS_ENTERED}, context : Nat, text : {NoText}])
  BY AppendProperties DEF ValidateAccept, Message, IInv, Types
<1>2. Types' /\ UNCHANGED <<is_key_pressed, current_key, entry, input_rps>>
  BY <1>1 DEF ValidateAccept, IInv, Types, States, keys, speeds, entry
<1> QED BY <1>2, AsideStep DEF ValidateAccept

\* An entry begins.
LEMMA FirstKeyStep == ASSUME IInv, FirstKey PROVE IInv'
<1>1. /\ user_input_values' = [i \in Cells |-> IF i = 0 THEN current_key ELSE Nul]
      /\ lcd' = Printed(user_input_values', Zeros)
      /\ cursor_position' = 10 /\ display_state' = "NEXT_KEY_PRESS"
      /\ UNCHANGED <<init_complete, is_key_pressed, current_key, actual_rps, current_rps, demand_rps,
                     input_rps, error_timer, queue>>
      /\ current_key \in 0..9
  BY DEF FirstKey, keys, speeds, demands, IInv, Types, Keyed, Chars
<1>2. /\ user_input_values'[0] = current_key /\ user_input_values'[1] = Nul
      /\ user_input_values'[2] = Nul /\ user_input_values'[3] = Nul
  BY <1>1, CellsAre
<1>3. Zeros[0] = 0 /\ Zeros[1] = 0 /\ Zeros[2] = 0 /\ Zeros[3] = Nul
  BY CellsAre DEF Zeros
<1>4. current_key # Nul
  BY <1>1, CellsAre
<1>5. lcd'[0] = current_key /\ lcd'[1] = 0 /\ lcd'[2] = 0 /\ lcd'[3] = Nul
  BY <1>1, <1>2, <1>3, <1>4, PrintedIs
<1>6. Types'
  <2>1. user_input_values' \in [Cells -> Chars \cup {Nul}]
    BY <1>1 DEF IInv, Types
  <2>2. Zeros \in [Cells -> Chars \cup {Nul}]
    BY DEF Zeros, Chars
  <2>3. lcd' \in [Cells -> Chars \cup {Nul}]
    BY <1>1, <2>1, <2>2, PrintedType
  <2> QED BY <1>1, <2>1, <2>3 DEF IInv, Types, States
<1>7. AsEntered(0)' /\ AsEntered(1)' /\ AsEntered(2)'
  BY <1>1, <1>2, <1>4, <1>5 DEF AsEntered, Entered
<1>8. Entering'
  BY <1>2, <1>5, <1>7, CellsAre DEF Entering
<1> QED BY <1>1, <1>6, <1>8 DEF IInv, Keyed

\* What a step in the middle of an entry leaves alone.
LEMMA TakenKey ==
  ASSUME IInv, TakeNextKey
  PROVE  /\ Entering /\ display_state = "NEXT_KEY_PRESS"
         /\ UNCHANGED <<init_complete, current_key, actual_rps, current_rps, demand_rps,
                        error_timer, queue>>
         /\ is_key_pressed' = FALSE
         /\ current_key \in Keys /\ current_key \in 0..11
  BY KeysAssumption DEF TakeNextKey, speeds, IInv, Keyed

LEMMA BackspaceStep == ASSUME IInv, NextKeyBackspace PROVE IInv'
<1> DEFINE at == cursor_position - 10
<1>1. /\ Entering /\ display_state' = "NEXT_KEY_PRESS" /\ input_rps' = input_rps
      /\ UNCHANGED <<init_complete, current_key, actual_rps, current_rps, demand_rps, error_timer, queue>>
      /\ is_key_pressed' = FALSE
      /\ cursor_position' = cursor_position - 1
      /\ user_input_values' = [user_input_values EXCEPT ![at] = Nul]
      /\ lcd' = [lcd EXCEPT ![at] = 0]
  BY TakenKey DEF NextKeyBackspace
<1>2. at \in 0..2 /\ cursor_position \in 10..12 /\ at \in Cells
  BY CellsAre DEF NextKeyBackspace, IInv, Types
<1>3. /\ cursor_position' \in 9..12 /\ Entered' = at /\ Entered = at + 1
  BY <1>1, <1>2 DEF Entered
<1> HIDE DEF at
<1>4. Types'
  <2>1. 0 \in Chars
    BY DEF Chars
  <2>2. user_input_values' \in [Cells -> Chars \cup {Nul}]
    BY <1>1 DEF IInv, Types
  <2>3. lcd' \in [Cells -> Chars \cup {Nul}]
    BY <1>1, <2>1 DEF IInv, Types
  <2> QED BY <1>1, <1>3, <2>2, <2>3 DEF IInv, Types, States
<1>5. ASSUME NEW cell \in 0..2 PROVE AsEntered(cell)'
  <2>0. cell \in Cells
    BY CellsAre
  <2>1. CASE cell = at
    <3>1. user_input_values'[cell] = Nul /\ lcd'[cell] = 0
      BY <1>1, <1>2, <2>1 DEF IInv, Types
    <3>2. ~(cell < Entered')
      BY <1>3, <2>1
    <3> QED BY <3>1, <3>2 DEF AsEntered
  <2>2. CASE cell # at
    <3>1. user_input_values'[cell] = user_input_values[cell] /\ lcd'[cell] = lcd[cell]
      BY <1>1, <2>0, <2>2 DEF IInv, Types
    <3>2. cell < Entered' <=> cell < Entered
      BY <1>2, <1>3, <2>2
    <3> QED BY <1>1, <3>1, <3>2 DEF AsEntered, Entering
  <2> QED BY <2>1, <2>2
<1>6. user_input_values'[Behind] = Nul /\ lcd'[Behind] = Nul
  BY <1>1, <1>2, CellsAre DEF Entering, IInv, Types
<1> QED BY <1>1, <1>4, <1>5, <1>6 DEF IInv, Keyed, Entering

LEMMA DigitStep == ASSUME IInv, NextKeyDigit PROVE IInv'
<1> DEFINE at == cursor_position - 9
<1>1. /\ Entering /\ display_state' = "NEXT_KEY_PRESS" /\ input_rps' = input_rps
      /\ UNCHANGED <<init_complete, current_key, actual_rps, current_rps, demand_rps, error_timer, queue>>
      /\ is_key_pressed' = FALSE
      /\ cursor_position' = cursor_position + 1
      /\ user_input_values' = [user_input_values EXCEPT ![at] = current_key]
      /\ lcd' = Printed(user_input_values', lcd)
      /\ current_key \in 0..9
  BY TakenKey DEF NextKeyDigit
<1>2. at \in 0..2 /\ cursor_position \in 9..11 /\ at \in Cells
  BY CellsAre DEF NextKeyDigit, IInv, Types
<1>3. /\ cursor_position' \in 9..12 /\ Entered' = at + 1 /\ Entered = at
  BY <1>1, <1>2 DEF Entered
<1> HIDE DEF at
<1>4. Types'
  <2>1. user_input_values' \in [Cells -> Chars \cup {Nul}]
    BY <1>1 DEF IInv, Types, Chars
  <2>2. lcd' \in [Cells -> Chars \cup {Nul}]
    BY <1>1, <2>1, PrintedType DEF IInv, Types
  <2> QED BY <1>1, <1>3, <2>1, <2>2 DEF IInv, Types, States
<1>5. \A cell \in 0..3 : user_input_values'[cell] = IF cell = at THEN current_key ELSE user_input_values[cell]
  BY <1>1, CellsAre DEF IInv, Types
<1>6. \A cell \in 0..2 : AsEntered(cell)
  BY <1>1 DEF Entering
<1>7. \A cell \in 0..2 : user_input_values'[cell] # Nul <=> cell <= at
  <2>1. current_key # Nul
    BY <1>1, CellsAre
  <2>2. ASSUME NEW cell \in 0..2 PROVE user_input_values'[cell] # Nul <=> cell <= at
    <3>1. user_input_values[cell] # Nul <=> cell < at
      BY <1>3, <1>6, EntersCell DEF IInv
    <3> QED BY <1>2, <1>5, <2>1, <3>1
  <2> QED BY <2>2
<1>8. /\ lcd'[0] = IF user_input_values'[0] # Nul THEN user_input_values'[0] ELSE lcd[0]
      /\ lcd'[1] = IF user_input_values'[0] # Nul /\ user_input_values'[1] # Nul
                     THEN user_input_values'[1] ELSE lcd[1]
      /\ lcd'[2] = IF /\ user_input_values'[0] # Nul /\ user_input_values'[1] # Nul
                      /\ user_input_values'[2] # Nul
                     THEN user_input_values'[2] ELSE lcd[2]
      /\ lcd'[3] = IF /\ user_input_values'[0] # Nul /\ user_input_values'[1] # Nul
                      /\ user_input_values'[2] # Nul /\ user_input_values'[3] # Nul
                     THEN user_input_values'[3] ELSE lcd[3]
  <2> DEFINE string == user_input_values'
  <2>1. lcd' = Printed(string, lcd)
    BY <1>1
  <2> HIDE DEF string
  <2>2. /\ Printed(string, lcd)[0] = IF string[0] # Nul THEN string[0] ELSE lcd[0]
        /\ Printed(string, lcd)[1] = IF string[0] # Nul /\ string[1] # Nul THEN string[1] ELSE lcd[1]
        /\ Printed(string, lcd)[2] = IF string[0] # Nul /\ string[1] # Nul /\ string[2] # Nul
                                       THEN string[2] ELSE lcd[2]
        /\ Printed(string, lcd)[3] = IF /\ string[0] # Nul /\ string[1] # Nul
                                        /\ string[2] # Nul /\ string[3] # Nul
                                       THEN string[3] ELSE lcd[3]
    BY PrintedIs
  <2> QED BY <2>1, <2>2 DEF string
<1>9. ASSUME NEW cell \in 0..2
      PROVE  lcd'[cell] = IF cell <= at THEN user_input_values'[cell] ELSE lcd[cell]
  <2>1. /\ user_input_values'[0] # Nul <=> 0 <= at
        /\ user_input_values'[1] # Nul <=> 1 <= at
        /\ user_input_values'[2] # Nul <=> 2 <= at
    BY <1>7
  <2>2. CASE cell = 0
    BY <1>2, <1>8, <2>1, <2>2
  <2>3. CASE cell = 1
    BY <1>2, <1>8, <2>1, <2>3
  <2>4. CASE cell = 2
    BY <1>2, <1>8, <2>1, <2>4
  <2> QED BY <2>2, <2>3, <2>4
<1>10. ASSUME NEW cell \in 0..2 PROVE AsEntered(cell)'
  <2>1. CASE cell < at
    BY <1>2, <1>3, <1>5, <1>6, <1>7, <1>9, <2>1 DEF AsEntered
  <2>2. CASE cell = at
    BY <1>1, <1>2, <1>3, <1>5, <1>7, <1>9, <2>2 DEF AsEntered
  <2>3. CASE cell > at
    BY <1>2, <1>3, <1>5, <1>6, <1>7, <1>9, <2>3 DEF AsEntered
  <2> QED BY <1>2, <2>1, <2>2, <2>3
<1>11. user_input_values'[Behind] = Nul /\ lcd'[Behind] = Nul
  <2>1. user_input_values'[3] = Nul
    BY <1>1, <1>2, <1>5, CellsAre DEF Entering
  <2>2. lcd'[3] = lcd[3]
    BY <1>8, <2>1
  <2> QED BY <1>1, <2>1, <2>2, CellsAre DEF Entering
<1> QED BY <1>1, <1>4, <1>10, <1>11 DEF IInv, Keyed, Entering

\* The places not entered count as 0, as they stand on the LCD.
LEMMA EnterStep == ASSUME IInv, NextKeyEnter PROVE IInv'
<1>1. /\ Entering /\ display_state' = "VALIDATE_INPUT" /\ is_key_pressed' = FALSE
      /\ UNCHANGED <<init_complete, current_key, actual_rps, current_rps, demand_rps, error_timer, queue>>
      /\ user_input_values' = Filled(user_input_values)
      /\ input_rps' = Scanned(user_input_values', input_rps)
      /\ cursor_position' = cursor_position /\ lcd' = lcd
  BY TakenKey DEF NextKeyEnter
<1>2. /\ \A cell \in 0..2 : user_input_values'[cell] =
                              IF user_input_values[cell] = Nul THEN 0 ELSE user_input_values[cell]
      /\ user_input_values'[3] = user_input_values[3]
  BY <1>1, CellsAre DEF Filled
<1>3. user_input_values' \in [Cells -> Chars \cup {Nul}]
  BY <1>1 DEF Filled, Chars, IInv, Types
<1>4. ASSUME NEW cell \in 0..2 PROVE AsValidated(cell)'
  <2>1. AsEntered(cell)
    BY <1>1 DEF Entering
  <2>2. lcd[cell] \in 0..9 /\ (user_input_values[cell] # Nul <=> cell < Entered)
    BY <2>1, EntersCell DEF IInv
  <2>3. user_input_values'[cell] = lcd[cell] /\ Entered' = Entered
    BY <1>1, <1>2, <2>1 DEF AsEntered, Entered
  <2>4. cell >= Entered => user_input_values'[cell] = 0
    BY <1>2, <2>2 DEF Entered, IInv, Types
  <2> QED BY <1>1, <2>2, <2>3, <2>4 DEF AsValidated
<1>5. \A cell \in 0..2 : user_input_values'[cell] \in 0..9
  BY <1>4 DEF AsValidated
<1>6. input_rps' = Number' /\ input_rps' \in Nat
  <2>1. user_input_values'[0] \in 0..9 /\ user_input_values'[Behind] = Nul
    BY <1>1, <1>2, <1>5, CellsAre DEF Entering
  <2>2. input_rps' = Number'
    BY <1>1, <2>1, ScannedIs DEF Number
  <2> QED BY <1>5, <2>2, NumberType DEF Number
<1>7. Types'
  BY <1>1, <1>3, <1>6 DEF IInv, Types, States
<1>8. Validating'
  BY <1>1, <1>4, <1>6 DEF Validating, Entering
<1> QED BY <1>1, <1>7, <1>8 DEF IInv, Keyed

LEMMA IgnoredStep == ASSUME IInv, NextKeyIgnored PROVE IInv'
<1>1. Types' /\ UNCHANGED <<display_state, current_key, entry, input_rps>> /\ is_key_pressed' = FALSE
  BY TakenKey DEF NextKeyIgnored, IInv, Types, entry
<1> QED BY <1>1, AsideStep

LEMMA TaskStep == ASSUME IInv, TaskLoop PROVE IInv'
<1>1. CASE Starting \/ Refresh \/ ErrorEnds
  BY <1>1, ScreenStep
<1>2. CASE IdleDigit \/ IdleActual \/ Idle \/ ShowActual
  BY <1>2, IdleStep
<1>3. CASE FirstKey
  BY <1>3, FirstKeyStep
<1>4. CASE NextKeyNone \/ ErrorShown
  BY <1>4, StutterStep DEF NextKeyNone, ErrorShown
<1>5. CASE NextKeyBackspace
  BY <1>5, BackspaceStep
<1>6. CASE NextKeyEnter
  BY <1>6, EnterStep
<1>7. CASE NextKeyDigit
  BY <1>7, DigitStep
<1>8. CASE NextKeyIgnored
  BY <1>8, IgnoredStep
<1>9. CASE ValidateAccept
  BY <1>9, AcceptStep
<1>10. CASE ValidateReject
  BY <1>10, RejectStep
<1> QED BY <1>1, <1>2, <1>3, <1>4, <1>5, <1>6, <1>7, <1>8, <1>9, <1>10 DEF TaskLoop

LEMMA NextInv == IInv /\ [Next]_vars => IInv'
<1> SUFFICES ASSUME IInv, [Next]_vars PROVE IInv'
  OBVIOUS
<1>1. CASE Key
  BY <1>1, KeyStep
<1>2. CASE Actual
  BY <1>2, ActualStep
<1>3. CASE SetupDone
  BY <1>3, SetupStep
<1>4. CASE Task
  BY <1>4, TaskStep DEF Task
<1>5. CASE Dispatch
  BY <1>5, DispatchStep
<1>6. CASE ErrorTimerExpires
  BY <1>6, TimerStep
<1>7. CASE UNCHANGED vars
  BY <1>7, StutterStep DEF vars
<1> QED BY <1>1, <1>2, <1>3, <1>4, <1>5, <1>6, <1>7 DEF Next

LEMMA Inductive == Spec => []IInv
<1> QED BY InitInv, NextInv, PTL DEF Spec

-----------------------------------------------------------------------------
(* The theorems.                                                           *)

\* Every variable keeps its type: no key and no backspace writes beyond the
\* buffer (Display::TaskLoop, NEXT_KEY_PRESS).
THEOREM TypeCorrect == Spec => []TypeOK
<1>1. IInv => TypeOK
  BY DEF IInv, Types, TypeOK
<1> QED BY <1>1, Inductive, PTL

\* The speed that is validated is the one that stands on the LCD, however
\* digits were entered and removed before and whatever earlier entries left
\* in the buffer and behind it (Display::TaskLoop, VALIDATE_INPUT).
THEOREM ValidatesWhatIsShown == Spec => []EnteredAsShown
<1>1. ASSUME IInv PROVE EnteredAsShown
  <2> SUFFICES ASSUME display_state = "VALIDATE_INPUT" PROVE EnteredAsShown
    BY DEF EnteredAsShown
  <2>1. Validating
    BY <1>1 DEF IInv
  <2>2. \A cell \in 0..2 : lcd[cell] \in 0..9 /\ lcd[cell] = user_input_values[cell]
    BY <2>1 DEF Validating, AsValidated
  <2>3. input_rps = 100 * lcd[0] + 10 * lcd[1] + lcd[2]
    BY <2>1, <2>2, CellsAre DEF Validating, Number
  <2> QED BY <2>1, <2>2, <2>3 DEF EnteredAsShown, Validating
<1> QED BY <1>1, Inductive, PTL

-----------------------------------------------------------------------------
(* The display implements DigitEntry: the digits before the cursor are     *)
(* those that DigitEntry has, an entry ends with the validation.           *)

InEntry == display_state \in {"NEXT_KEY_PRESS", "VALIDATE_INPUT"}

LEMMA TypedIs ==
  ASSUME Types, InEntry
  PROVE  /\ Entered \in 0..3 /\ Len(Typed) = Entered
         /\ Typed \in Seq(Chars \cup {Nul})
         /\ \A i \in 1..Entered : Typed[i] = user_input_values[i - 1]
<1>1. Entered \in 0..3
  BY DEF Types, Entered
<1>2. Typed = [i \in 1..Entered |-> user_input_values[i - 1]]
  BY DEF Typed, InEntry, Entered
<1>3. \A i \in 1..Entered : user_input_values[i - 1] \in Chars \cup {Nul}
  BY <1>1 DEF Types, Cells, Behind
<1> QED BY <1>1, <1>2, <1>3

LEMMA TypedNone == ASSUME ~InEntry PROVE Typed = <<>>
  BY DEF Typed, InEntry

\* What DigitEntry sees stays as it is.
LEMMA Aside ==
  ASSUME demand_rps' = demand_rps, InEntry' <=> InEntry,
         InEntry => UNCHANGED <<cursor_position, user_input_values>>
  PROVE  UNCHANGED Entry!vars
<1>1. Typed' = Typed
  <2>1. CASE InEntry
    BY <2>1 DEF Typed, InEntry
  <2>2. CASE ~InEntry
    BY <2>2 DEF Typed, InEntry
  <2> QED BY <2>1, <2>2
<1>2. (display_state \in {"NEXT_KEY_PRESS", "VALIDATE_INPUT"})'
        = (display_state \in {"NEXT_KEY_PRESS", "VALIDATE_INPUT"})
  BY DEF InEntry
<1> QED BY <1>1, <1>2 DEF Entry!vars

LEMMA FirstIsBegin == ASSUME IInv, FirstKey PROVE Entry!Next
<1>1. /\ ~InEntry /\ display_state' = "NEXT_KEY_PRESS" /\ cursor_position' = 10
      /\ demand_rps' = demand_rps
      /\ user_input_values' = [i \in Cells |-> IF i = 0 THEN current_key ELSE Nul]
      /\ current_key \in Keys \cap 0..9
  BY DEF FirstKey, InEntry, demands, IInv, Keyed, Types, Chars
<1>2. Typed = <<>>
  BY <1>1, TypedNone
<1>3. Typed' = <<current_key>>
  <2>1. Typed' = [i \in 1..(cursor_position' - 9) |-> user_input_values'[i - 1]]
    BY <1>1 DEF Typed
  <2>2. user_input_values'[0] = current_key
    BY <1>1, CellsAre
  <2>3. Typed' = [i \in 1..1 |-> current_key]
    BY <1>1, <2>1, <2>2
  <2> QED BY <2>3
<1>4. Entry!Begin(current_key)
  BY <1>1, <1>2, <1>3 DEF Entry!Begin, InEntry
<1> QED BY <1>1, <1>4 DEF Entry!Next

LEMMA DigitIsDigit == ASSUME IInv, NextKeyDigit PROVE Entry!Next
<1>1. /\ InEntry /\ InEntry' /\ demand_rps' = demand_rps
      /\ current_key \in Keys \cap 0..9
      /\ cursor_position' = cursor_position + 1 /\ Entered < 3 /\ Entered' = Entered + 1
      /\ user_input_values' = [user_input_values EXCEPT ![Entered] = current_key]
  <2>1. display_state = "NEXT_KEY_PRESS" /\ display_state' = display_state /\ demand_rps' = demand_rps
    BY TakenKey DEF NextKeyDigit
  <2>2. current_key \in Keys /\ current_key \in 0..9
    BY TakenKey DEF NextKeyDigit
  <2>3. /\ cursor_position' = cursor_position + 1 /\ cursor_position \in 9..11
        /\ user_input_values' = [user_input_values EXCEPT ![Entered] = current_key]
    BY DEF NextKeyDigit, Entered, IInv, Types
  <2> QED BY <2>1, <2>2, <2>3 DEF InEntry, Entered
<1>2. Types'
  BY DigitStep DEF IInv
<1>3. /\ Entered \in 0..3 /\ Len(Typed) = Entered /\ Typed \in Seq(Chars \cup {Nul})
      /\ \A i \in 1..Entered : Typed[i] = user_input_values[i - 1]
  BY <1>1, TypedIs DEF IInv
<1>4. /\ Typed' = [i \in 1..Entered' |-> user_input_values'[i - 1]]
      /\ \A i \in 1..Entered' : user_input_values'[i - 1] =
                                  IF i = Entered + 1 THEN current_key ELSE user_input_values[i - 1]
  BY <1>1, <1>3 DEF Typed, InEntry, Entered, IInv, Types, Cells, Behind
<1>5. current_key \in Chars \cup {Nul}
  BY DEF IInv, Types
<1> DEFINE longer == Append(Typed, current_key)
<1>6. /\ Len(longer) = Entered + 1
      /\ longer \in Seq(Chars \cup {Nul})
      /\ \A i \in 1..Entered : longer[i] = Typed[i]
      /\ longer[Entered + 1] = current_key
  BY <1>3, <1>5, AppendProperties
<1>7. Typed' = longer
  <2>1. Typed' \in Seq(Chars \cup {Nul}) /\ Len(Typed') = Entered + 1
    <3>1. \A i \in 1..Entered' : user_input_values'[i - 1] \in Chars \cup {Nul}
      BY <1>1, <1>2, <1>3 DEF Types, Cells, Behind
    <3> QED BY <1>1, <1>3, <1>4, <3>1
  <2>2. \A i \in 1..(Entered + 1) : Typed'[i] = longer[i]
    BY <1>1, <1>3, <1>4, <1>6
  <2> HIDE DEF longer
  <2> QED BY <1>6, <2>1, <2>2, SeqEqual
<1>8. Entry!Digit(current_key)
  BY <1>1, <1>3, <1>7 DEF Entry!Digit, InEntry
<1> QED BY <1>1, <1>8 DEF Entry!Next

LEMMA BackspaceIsBackspace == ASSUME IInv, NextKeyBackspace PROVE Entry!Next
<1>1. /\ InEntry /\ InEntry' /\ demand_rps' = demand_rps
      /\ cursor_position' = cursor_position - 1 /\ Entered > 0 /\ Entered' = Entered - 1
      /\ user_input_values' = [user_input_values EXCEPT ![Entered - 1] = Nul]
  <2>1. display_state = "NEXT_KEY_PRESS" /\ display_state' = display_state /\ demand_rps' = demand_rps
    BY TakenKey DEF NextKeyBackspace
  <2>2. /\ cursor_position' = cursor_position - 1 /\ cursor_position \in 10..12
        /\ user_input_values' = [user_input_values EXCEPT ![cursor_position - 10] = Nul]
    BY DEF NextKeyBackspace, IInv, Types
  <2>3. cursor_position - 10 = Entered - 1
    BY <2>2 DEF Entered
  <2> QED BY <2>1, <2>2, <2>3 DEF InEntry, Entered
<1>2. /\ Entered \in 0..3 /\ Len(Typed) = Entered /\ Typed \in Seq(Chars \cup {Nul})
      /\ \A i \in 1..Entered : Typed[i] = user_input_values[i - 1]
  BY <1>1, TypedIs DEF IInv
<1>3. Typed # <<>>
  BY <1>1, <1>2
<1> DEFINE shorter == SubSeq(Typed, 1, Len(Typed) - 1)
<1>4. /\ shorter \in Seq(Chars \cup {Nul}) /\ Len(shorter) = Entered - 1
      /\ \A i \in 1..(Entered - 1) : shorter[i] = Typed[i]
  <2>1. \A i \in 1..(Entered - 1) : Typed[i] \in Chars \cup {Nul}
    BY <1>2, ElementOfSeq
  <2>2. /\ shorter \in Seq(Chars \cup {Nul})
        /\ Len(shorter) = IF 1 <= Entered - 1 THEN (Entered - 1) - 1 + 1 ELSE 0
        /\ \A i \in 1..((Entered - 1) - 1 + 1) : shorter[i] = Typed[1 + i - 1]
    BY <1>1, <1>2, <2>1, SubSeqProperties
  <2> QED BY <1>1, <1>2, <2>2
<1>5. Typed' = shorter
  <2>1. /\ Typed' = [i \in 1..(Entered - 1) |-> user_input_values'[i - 1]]
        /\ \A i \in 1..(Entered - 1) : user_input_values'[i - 1] = user_input_values[i - 1]
    BY <1>1, <1>2 DEF Typed, InEntry, Entered, IInv, Types, Cells, Behind
  <2>2. Typed' = [i \in 1..(Entered - 1) |-> Typed[i]]
    BY <1>2, <2>1
  <2>3. \A i \in 1..(Entered - 1) : Typed[i] \in Chars \cup {Nul}
    BY <1>2, ElementOfSeq
  <2>4. Typed' \in Seq(Chars \cup {Nul}) /\ Len(Typed') = Entered - 1
    BY <1>1, <1>2, <2>2, <2>3
  <2> HIDE DEF shorter
  <2> QED BY <1>4, <2>2, <2>4, SeqEqual
<1>6. Entry!Backspace
  BY <1>1, <1>3, <1>5 DEF Entry!Backspace, InEntry
<1> QED BY <1>6 DEF Entry!Next

\* Filling up changes nothing of what was entered.
LEMMA EnterIsAside == ASSUME IInv, NextKeyEnter PROVE UNCHANGED Entry!vars
<1>1. /\ display_state = "NEXT_KEY_PRESS" /\ display_state' = "VALIDATE_INPUT"
      /\ demand_rps' = demand_rps /\ Entered' = Entered /\ cursor_position' = cursor_position
      /\ user_input_values' = Filled(user_input_values)
      /\ Entering
  BY TakenKey DEF NextKeyEnter, Entered
<1>2. Entered \in 0..3 /\ \A i \in 1..Entered : i - 1 \in 0..2 /\ i - 1 < Entered /\ i - 1 \in Cells
  BY CellsAre DEF Entered, IInv, Types
<1>3. \A i \in 1..Entered : user_input_values'[i - 1] = user_input_values[i - 1]
  <2>1. ASSUME NEW i \in 1..Entered PROVE user_input_values'[i - 1] = user_input_values[i - 1]
    <3>1. AsEntered(i - 1)
      BY <1>1, <1>2 DEF Entering
    <3>2. user_input_values[i - 1] # Nul
      BY <1>2, <3>1, EntersCell DEF IInv
    <3> QED BY <1>1, <1>2, <3>2 DEF Filled
  <2> QED BY <2>1
<1>4. Typed' = [i \in 1..Entered |-> user_input_values'[i - 1]]
  BY <1>1 DEF Typed, Entered
<1>5. Typed = [i \in 1..Entered |-> user_input_values[i - 1]]
  BY <1>1 DEF Typed, Entered
<1>6. Typed' = Typed
  BY <1>3, <1>4, <1>5
<1> QED BY <1>1, <1>6 DEF Entry!vars

\* The number that is validated is the one DigitEntry enters.
LEMMA NumberIs == ASSUME Types, InEntry, Validating PROVE Entry!Number = input_rps /\ input_rps \in Nat
<1>1. /\ Entered \in 0..3 /\ Len(Typed) = Entered
      /\ \A i \in 1..Entered : Typed[i] = user_input_values[i - 1]
  BY TypedIs
<1>2. /\ 0 >= Entered => user_input_values[0] = 0
      /\ 1 >= Entered => user_input_values[1] = 0
      /\ 2 >= Entered => user_input_values[2] = 0
  BY DEF Validating, AsValidated
<1>3. Entry!Place(1) = user_input_values[0]
  BY <1>1, <1>2 DEF Entry!Place
<1>4. Entry!Place(2) = user_input_values[1]
  BY <1>1, <1>2 DEF Entry!Place
<1>5. Entry!Place(3) = user_input_values[2]
  BY <1>1, <1>2 DEF Entry!Place
<1> QED BY <1>3, <1>4, <1>5 DEF Entry!Number, Number, Validating, Types

LEMMA ValidateIsEnter == ASSUME IInv, ValidateAccept \/ ValidateReject PROVE Entry!Next
<1>1. display_state = "VALIDATE_INPUT" /\ Validating /\ InEntry /\ ~InEntry'
  BY DEF ValidateAccept, ValidateReject, IInv, InEntry
<1>2. Entry!Number = input_rps /\ input_rps \in Nat
  BY <1>1, NumberIs DEF IInv
<1>3. Entry!InRange(input_rps) <=> InRange(input_rps)
  BY <1>2, RangeAssumption DEF Entry!InRange, InRange
<1>4. demand_rps' = IF InRange(input_rps) THEN input_rps ELSE demand_rps
  BY DEF ValidateAccept, ValidateReject, demands
<1>5. Typed' = <<>>
  BY <1>1 DEF Typed, InEntry
<1>6. Entry!Enter
  BY <1>1, <1>2, <1>3, <1>4, <1>5 DEF Entry!Enter, InEntry
<1> QED BY <1>6 DEF Entry!Next

LEMMA TaskRefines == ASSUME IInv, TaskLoop PROVE [Entry!Next]_(Entry!vars)
<1>1. CASE \/ Starting \/ Refresh \/ ErrorEnds \/ IdleDigit \/ IdleActual \/ ShowActual
  <2>1. ~InEntry /\ ~InEntry' /\ demand_rps' = demand_rps
    BY <1>1 DEF Starting, Refresh, ErrorEnds, IdleDigit, IdleActual, ShowActual, InEntry, demands
  <2> QED BY <2>1, Aside
<1>2. CASE Idle \/ NextKeyNone \/ ErrorShown
  <2>1. demand_rps' = demand_rps /\ (InEntry' <=> InEntry) /\ UNCHANGED <<cursor_position, user_input_values>>
    BY <1>2 DEF Idle, NextKeyNone, ErrorShown, display, demands, entry, InEntry
  <2> QED BY <2>1, Aside
<1>3. CASE NextKeyIgnored
  <2>1. demand_rps' = demand_rps /\ (InEntry' <=> InEntry) /\ UNCHANGED <<cursor_position, user_input_values>>
    BY <1>3, TakenKey DEF NextKeyIgnored, TakeNextKey, entry, InEntry
  <2> QED BY <2>1, Aside
<1>4. CASE FirstKey
  BY <1>4, FirstIsBegin
<1>5. CASE NextKeyBackspace
  BY <1>5, BackspaceIsBackspace
<1>6. CASE NextKeyEnter
  BY <1>6, EnterIsAside
<1>7. CASE NextKeyDigit
  BY <1>7, DigitIsDigit
<1>8. CASE ValidateAccept \/ ValidateReject
  BY <1>8, ValidateIsEnter
<1> QED BY <1>1, <1>2, <1>3, <1>4, <1>5, <1>6, <1>7, <1>8 DEF TaskLoop

LEMMA NextRefines == IInv /\ [Next]_vars => [Entry!Next]_(Entry!vars)
<1> SUFFICES ASSUME IInv, [Next]_vars PROVE [Entry!Next]_(Entry!vars)
  OBVIOUS
<1>1. CASE Task
  BY <1>1, TaskRefines DEF Task
<1>2. CASE Key \/ Actual \/ SetupDone \/ Dispatch \/ ErrorTimerExpires \/ UNCHANGED vars
  <2>1. demand_rps' = demand_rps /\ (InEntry' <=> InEntry) /\ UNCHANGED <<cursor_position, user_input_values>>
    BY <1>2 DEF Key, KeyPressed, Actual, NewActualRps, SetupDone, InitComplete, Dispatch,
                ErrorTimerExpires, vars, display, demands, entry, InEntry
  <2> QED BY <2>1, Aside
<1> QED BY <1>1, <1>2 DEF Next

\* The display keeps the promise of DigitEntry: digits go in from the left,
\* backspace takes the last one back, places left open count as 0, and enter
\* makes the number the demanded speed if it is in range.
THEOREM DisplayImplementsEntry == Spec => EntersDigits
<1>1. EntryInit => Entry!Init
  BY DEF EntryInit, Init, Entry!Init, Typed
<1>2. Spec => Entry!Init /\ [][Entry!Next]_(Entry!vars)
  BY <1>1, NextRefines, Inductive, PTL DEF Spec
<1> QED BY <1>2 DEF EntersDigits, Entry!Spec
=============================================================================
