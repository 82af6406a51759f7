------------------------------ MODULE Firmware ------------------------------
(***************************************************************************)
(* The firmware as App.ino and kernel.cpp put it together: the keypad, the *)
(* display, Control, the logger and the seven-segment display around one   *)
(* message queue.  The superloop dispatches at most two messages and then  *)
(* calls one task of the ring.  The queue is the FIFO that MessageQueue    *)
(* implements, the ring the round that TaskRing implements; no ISR of this *)
(* firmware posts.                                                         *)
(***************************************************************************)
EXTENDS Messages

CONSTANTS Readings,           \* what a poll of the keypad's port may return
          Speeds,             \* what RPS::GetRPS may return
          RPS_MIN, RPS_MAX,   \* the range of speeds
          LOG_TICKS,          \* the ticks between two periodic log entries
          MaxMessages         \* the argument of MQClass::Loop: 2

ASSUME ControlAssumption == RPS_MAX \in Nat \ {0} /\ LOG_TICKS \in Nat \ {0}

ASSUME MaxMessagesAssumption == MaxMessages \in Nat /\ MaxMessages >= 2

VARIABLES
  key_state, last_pressed, key_timer, column,
  display_state, init_complete, is_key_pressed, current_key,
  actual_rps, current_rps, demand_rps, input_rps,
  cursor_position, user_input_values, error_timer, lcd,
  timer, timer_counter, control_demand_rps, control_actual_rps, log_message, duty,
  pattern, point,
  queue,
  hand,     \* the message that is being dispatched
  budget,   \* how many more messages Loop takes
  turn      \* the task of the ring that is called next

Keypad == INSTANCE Keypad
Display == INSTANCE Display
Control == INSTANCE Control WITH demand_rps <- control_demand_rps,
                                 actual_rps <- control_actual_rps
SevenSeg == INSTANCE SevenSeg

keypad == <<key_state, last_pressed, key_timer, column>>
display == <<display_state, init_complete, is_key_pressed, current_key,
             actual_rps, current_rps, demand_rps, input_rps,
             cursor_position, user_input_values, error_timer, lcd>>
control == <<timer, timer_counter, control_demand_rps, control_actual_rps,
             log_message, duty>>
sevenseg == <<pattern, point>>
superloop == <<hand, budget, turn>>
vars == <<keypad, display, control, sevenseg, queue, superloop>>

\* The round of the ring, the reverse of the order of registration: the keypad
\* registers in its constructor, twice, and setup() starts the other three.
Ring == <<"control", "logger", "display", "keypad", "keypad">>

NoMessage == Message(-1, 0)

\* After setup(). The seven-segment display's constructor has posted; the
\* message that start-up is complete is not posted if the clock refuses the date.
Init == /\ Keypad!Init /\ Display!Init /\ Control!Init
        /\ pattern \in 0..SevenSeg!Off /\ point \in BOOLEAN
        /\ \E completed \in {<<>>, <<Message(MSG_ID_INIT_COMPLETE, 0)>>} :
             queue = <<Message(MSG_ID_UPDATE_7SEG, 255)>> \o completed
        /\ hand = NoMessage
        /\ budget = MaxMessages
        /\ turn = 1

-----------------------------------------------------------------------------
(* MQClass::Loop.                                                          *)

Dispatching == hand # NoMessage
Looping == budget > 0 /\ ~Dispatching
Between == budget = 0 /\ ~Dispatching

Take == /\ Looping
        /\ queue # <<>>
        /\ hand' = Head(queue)
        /\ queue' = Tail(queue)
        /\ UNCHANGED <<keypad, display, control, sevenseg, budget, turn>>

NothingToTake == /\ Looping
                 /\ queue = <<>>
                 /\ budget' = budget - 1
                 /\ UNCHANGED <<keypad, display, control, sevenseg, queue, hand, turn>>

\* Mutant: Loop dispatches one message at a time.
DispatchedOne == /\ Dispatching
                 /\ hand' = NoMessage
                 /\ budget' = 0
                 /\ UNCHANGED turn

\* The handler has returned: the message is deleted and counted.
Dispatched == /\ Dispatching
              /\ hand' = NoMessage
              /\ budget' = budget - 1
              /\ UNCHANGED turn

ToSevenSeg == /\ Dispatched
              /\ hand.id = MSG_ID_UPDATE_7SEG
              /\ SevenSeg!EventHandler(hand)
              /\ UNCHANGED <<keypad, display, control, queue>>

ToDisplay == /\ Dispatched
             /\ Display!EventHandler(hand)
             /\ UNCHANGED <<keypad, control, sevenseg>>

ToControl == /\ Dispatched
             /\ Control!EventHandler(hand)
             /\ UNCHANGED <<keypad, display, sevenseg>>

\* The logger copies log_message or begins a dump: see LogTask.
ToLogger == /\ Dispatched
            /\ hand.id \in {MSG_ID_DATALOG_LOGEVENT, MSG_ID_DATALOG_DUMPLOG}
            /\ UNCHANGED <<keypad, display, control, sevenseg, queue>>

-----------------------------------------------------------------------------
(* TaskRing::Loop.                                                         *)

\* The task returns: on to the next one, after another call of MQClass::Loop.
Called(task) == /\ Between
                /\ Ring[turn] = task
                /\ turn' = (turn % Len(Ring)) + 1
                /\ budget' = MaxMessages
                /\ UNCHANGED hand

CallKeypad == /\ Called("keypad")
              /\ \E reading \in Readings : Keypad!TaskLoop(reading)
              /\ UNCHANGED <<display, control, sevenseg>>

CallDisplay == /\ Called("display")
               /\ Display!TaskLoop
               /\ UNCHANGED <<keypad, control, sevenseg>>

CallControl == /\ Called("control")
               /\ \E speed \in Speeds : Control!TaskLoop(speed)
               /\ UNCHANGED <<keypad, display, sevenseg>>

\* The logger posts nothing.
CallLogger == /\ Called("logger")
              /\ UNCHANGED <<keypad, display, control, sevenseg, queue>>

\* A timer may expire at any time; its task is the first to notice.
KeyTimer == /\ Between /\ Ring[turn] = "keypad"
            /\ Keypad!KeyTimerExpires
            /\ UNCHANGED <<display, control, sevenseg, superloop>>

ErrorTimer == /\ Between /\ Ring[turn] = "display"
              /\ Display!ErrorTimerExpires
              /\ UNCHANGED <<keypad, control, sevenseg, superloop>>

ControlTimer == /\ Between /\ Ring[turn] = "control"
                /\ Control!TimerExpires
                /\ UNCHANGED <<keypad, display, sevenseg, superloop>>

Next == \/ Take \/ NothingToTake
        \/ ToSevenSeg \/ ToDisplay \/ ToControl \/ ToLogger
        \/ CallKeypad \/ CallDisplay \/ CallControl \/ CallLogger
        \/ KeyTimer \/ ErrorTimer \/ ControlTimer

Spec == Init /\ [][Next]_vars

-----------------------------------------------------------------------------
(* Properties.                                                             *)

\* The messages posted and not yet dispatched.
Pending == {queue[i] : i \in 1..Len(queue)} \cup ({hand} \ {NoMessage})
Awaited(id) == \E m \in Pending : m.id = id

\* Every variable of the superloop keeps its type, the ticks stay below the
\* limit at which they are taken back, and every id that is dispatched has a
\* receiver.
TypeOK == /\ turn \in 1..Len(Ring) /\ budget \in 0..MaxMessages
          /\ timer_counter \in 0..(LOG_TICKS - 1)
          /\ duty \in 0..255 /\ pattern \in 0..SevenSeg!Off
          /\ \A m \in Pending : m.id \in {MSG_ID_UPDATE_7SEG, MSG_ID_KEY_PRESSED,
               MSG_ID_INIT_COMPLETE, MSG_ID_NEW_ACTUAL_RPS, MSG_ID_NEW_RPS_ENTERED,
               MSG_ID_DATALOG_LOGEVENT, MSG_ID_DATALOG_DUMPLOG}

\* Two messages an iteration are enough: whatever the tasks post, and the
\* handlers in turn, has been dispatched before the next task is called, and
\* the heap never holds more than two messages.
QueueDrained == /\ Between => queue = <<>>
                /\ Len(queue) <= 2

\* log_message is one static buffer. While a LOGEVENT that points to it is
\* pending it still says what it said when it was posted, and that is what the
\* motor is to do now; nothing is logged while the motor is to stand still.
LogMessageFresh ==
  \A m \in Pending : m.id = MSG_ID_DATALOG_LOGEVENT =>
    /\ log_message = m.text
    /\ m.text.demand = control_demand_rps /\ m.text.actual = control_actual_rps
    /\ control_demand_rps # 0

\* Control works towards the speed that the display shows as demanded, except
\* while that is on its way.
DemandFollowed ==
  ~Awaited(MSG_ID_NEW_RPS_ENTERED) => control_demand_rps = demand_rps

\* What the calibration adds to a speed, and takes from it, at most.
Raise == 5
Lower == 40

\* The motor gets what the display took, except while that is on its way: it stands
\* still just for 0, runs at full duty just for the highest speed, and in between
\* OCR0A holds the speed's share of the full duty, calibrated and rounded down. No
\* speed that the display lets pass is more than OCR0A can hold, and so cut.
MotorRuns ==
  ~Awaited(MSG_ID_NEW_RPS_ENTERED) =>
    /\ duty = 0 <=> demand_rps = 0
    /\ duty = 255 <=> demand_rps = RPS_MAX
    /\ duty * RPS_MAX > 255 * (demand_rps - Lower) - RPS_MAX
    /\ duty * RPS_MAX <= 255 * (demand_rps + Raise)

\* While a key counts as pressed, the seven-segment display shows the key that
\* the LCD display was told last; otherwise nothing but the point.
KeyShown ==
  ~Awaited(MSG_ID_UPDATE_7SEG) =>
    IF key_state = "KEY_PRESSED"
      THEN /\ ~point
           /\ Awaited(MSG_ID_KEY_PRESSED) \/ pattern = current_key
      ELSE point /\ pattern = SevenSeg!Off
=============================================================================
