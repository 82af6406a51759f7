------------------------------ MODULE Control ------------------------------
(***************************************************************************)
(* Control: sets the motor's duty cycle when a speed was entered, reports  *)
(* the measured speed four times a second and has both logged every two    *)
(* seconds while the motor is to run.                                      *)
(***************************************************************************)
EXTENDS Messages

CONSTANTS RPS_MAX,     \* of class Control
          LOG_TICKS    \* the ticks between two log entries: 8

VARIABLES timer,          \* whether it has expired
          timer_counter,
          demand_rps, actual_rps,
          log_message,    \* SendLogMessage's static buffer
          duty,           \* OCR0A
          queue

control == <<timer, timer_counter, demand_rps, actual_rps, log_message, duty>>

Init == /\ timer = FALSE
        /\ timer_counter = 0
        /\ demand_rps = 0 /\ actual_rps = 0
        /\ log_message = NoText
        /\ duty = 0

\* Time passes: timer.isExpired() holds from now on.
TimerExpires == /\ ~timer
                /\ timer' = TRUE
                /\ UNCHANGED <<timer_counter, demand_rps, actual_rps, log_message, duty, queue>>

Text(demand, actual) == [demand |-> demand, actual |-> actual]

-----------------------------------------------------------------------------
(* TaskLoop.                                                               *)

Waiting == ~timer /\ UNCHANGED <<control, queue>>

\* The ticks are not counted while the motor is to stand still.
Ticks == IF demand_rps # 0 THEN timer_counter + 1 ELSE timer_counter

Tick(speed) == /\ timer
               /\ Ticks < LOG_TICKS \/ demand_rps = 0
               /\ timer_counter' = Ticks
               /\ actual_rps' = speed
               /\ queue' = Append(queue, Message(MSG_ID_NEW_ACTUAL_RPS, speed))
               /\ timer' = FALSE
               /\ UNCHANGED <<demand_rps, log_message, duty>>

\* Mutant: the entry is asked for twice.
TickAndLogTwice(speed) ==
  /\ timer
  /\ Ticks >= LOG_TICKS /\ demand_rps > 0
  /\ timer_counter' = 0
  /\ actual_rps' = speed
  /\ log_message' = Text(demand_rps, speed)
  /\ queue' = queue \o <<Message(MSG_ID_NEW_ACTUAL_RPS, speed),
                         LogEvent(log_message'), LogEvent(log_message')>>
  /\ timer' = FALSE
  /\ UNCHANGED <<demand_rps, duty>>

\* Mutant: the count of the ticks is not taken back.
TickAndLogOn(speed) ==
  /\ timer
  /\ Ticks >= LOG_TICKS /\ demand_rps > 0
  /\ timer_counter' = Ticks
  /\ actual_rps' = speed
  /\ log_message' = Text(demand_rps, speed)
  /\ queue' = queue \o <<Message(MSG_ID_NEW_ACTUAL_RPS, speed), LogEvent(log_message')>>
  /\ timer' = FALSE
  /\ UNCHANGED <<demand_rps, duty>>

TickAndLog(speed) ==
  /\ timer
  /\ Ticks >= LOG_TICKS /\ demand_rps > 0
  /\ timer_counter' = 0
  /\ actual_rps' = speed
  /\ log_message' = Text(demand_rps, speed)
  /\ queue' = queue \o <<Message(MSG_ID_NEW_ACTUAL_RPS, speed), LogEvent(log_message')>>
  /\ timer' = FALSE
  /\ UNCHANGED <<demand_rps, duty>>

TaskLoop(speed) == Waiting \/ Tick(speed) \/ TickAndLog(speed)

-----------------------------------------------------------------------------
(* EventHandler of MSG_ID_NEW_RPS_ENTERED.                                 *)

\* Mutant: a demand of zero is not calibrated to zero.
CalibratedNonzero(rps) ==
  CASE rps >= 330 -> rps
    [] rps >= 310 /\ rps < 330 -> rps - 10
    [] rps >= 150 /\ rps < 310 -> rps - 40
    [] rps >= 120 /\ rps < 150 -> rps - 35
    [] rps >= 100 /\ rps < 120 -> rps - 25
    [] rps >= 70 /\ rps < 100 -> rps - 5
    [] rps >= 50 /\ rps < 70 -> rps + 5
    [] OTHER -> demand_rps

\* The speed whose duty cycle makes the motor turn at rps: a calibration by
\* intervals. Below 50, but for 0, the last demand is taken again. (The
\* interval of the -55 is empty.)
Calibrated(rps) ==
  CASE rps >= 330 \/ rps = 0 -> rps
    [] rps >= 310 /\ rps < 330 -> rps - 10
    [] rps >= 150 /\ rps < 310 -> rps - 40
    [] rps >= 120 /\ rps < 150 -> rps - 35
    [] rps >= 100 /\ rps < 120 -> rps - 25
    [] rps >= 70 /\ rps < 100 -> rps - 5
    [] rps >= 50 /\ rps < 70 -> rps + 5
    [] OTHER -> demand_rps

\* SetPWM takes an unsigned char.
Duty(rps) == ((rps * 255) \div RPS_MAX) % 256

\* Mutant: the calibrated speed is kept as the demanded one.
NewRpsKeptCalibrated(rps) ==
  /\ duty' = Duty(Calibrated(rps))
  /\ demand_rps' = Calibrated(rps)
  /\ IF rps = 0
       THEN /\ queue' = Append(queue, Message(MSG_ID_DATALOG_DUMPLOG, 0))
            /\ UNCHANGED log_message
       ELSE /\ log_message' = Text(rps, actual_rps)
            /\ queue' = Append(queue, LogEvent(log_message'))
  /\ UNCHANGED <<timer, timer_counter, actual_rps>>

\* A demand of zero has the log dumped, any other is logged.
NewRpsEntered(rps) ==
  /\ duty' = Duty(Calibrated(rps))
  /\ demand_rps' = rps
  /\ IF rps = 0
       THEN /\ queue' = Append(queue, Message(MSG_ID_DATALOG_DUMPLOG, 0))
            /\ UNCHANGED log_message
       ELSE /\ log_message' = Text(rps, actual_rps)
            /\ queue' = Append(queue, LogEvent(log_message'))
  /\ UNCHANGED <<timer, timer_counter, actual_rps>>

EventHandler(m) == m.id = MSG_ID_NEW_RPS_ENTERED /\ NewRpsEntered(m.context)
=============================================================================
