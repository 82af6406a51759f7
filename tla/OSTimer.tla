------------------------------ MODULE OSTimer ------------------------------
(***************************************************************************)
(* OSTimer (kernel/ostimer.cpp): a timer that compares differences of      *)
(* millis(), which counts modulo 2^32.  The reference is a clock that      *)
(* never wraps: ran, the time the timer was to count.  The automata of the *)
(* tasks (Keypad, Display, Control) see of a timer only whether it has     *)
(* expired.                                                                *)
(***************************************************************************)
EXTENDS Integers

CONSTANTS Modulus    \* 2^32: millis() is an unsigned long

ASSUME ModulusAssumption == Modulus \in Nat \ {0}

Millis == 0..(Modulus - 1)

VARIABLES now,           \* millis()
          tmr, time,     \* when it was started, the timeout
          freeze, frozen,
          stopped,       \* auxiliary: whether it was frozen and not thawed since
          ran            \* auxiliary: the time it was to count since it was started

timer == <<now, tmr, time, freeze, frozen, stopped, ran>>

\* The constructor, at any time.
TimerInit == /\ now \in Millis /\ tmr = now
             /\ time \in Millis
             /\ freeze = 0 /\ frozen = FALSE
             /\ stopped = FALSE /\ ran = 0

\* A millisecond passes. A timer is not left alone for a whole period of
\* millis(), 49 days: its task restarts it, or is done with it, before.
Millisecond == /\ now' = (now + 1) % Modulus
               /\ IF stopped THEN UNCHANGED ran
                  ELSE ran + 1 < Modulus /\ ran' = ran + 1
               /\ UNCHANGED <<tmr, time, freeze, frozen, stopped>>

Set(timeout) == /\ ~stopped
                /\ time' = timeout
                /\ tmr' = now
                /\ ran' = 0
                /\ UNCHANGED <<now, freeze, frozen, stopped>>

Restart == /\ ~stopped
           /\ tmr' = now
           /\ ran' = 0
           /\ UNCHANGED <<now, time, freeze, frozen, stopped>>

Freeze == /\ ~stopped
          /\ freeze' = now
          /\ frozen' = TRUE
          /\ stopped' = TRUE
          /\ UNCHANGED <<now, tmr, time, ran>>

\* frozen stays: a Thaw without a Freeze would move tmr again, and so would
\* one after a Restart. Callers do neither.
Thaw == /\ stopped
        /\ tmr' = IF frozen THEN (tmr + (now - freeze)) % Modulus ELSE tmr
        /\ stopped' = FALSE
        /\ UNCHANGED <<now, time, freeze, frozen, ran>>

\* Mutant: the clock is compared with a deadline.
ExpiredByDeadline == now > (tmr + time) % Modulus

isExpired == (now - tmr) % Modulus > time

TimerNext == \/ Millisecond
             \/ \E timeout \in Millis : Set(timeout)
             \/ Restart \/ Freeze \/ Thaw

TimerSpec == TimerInit /\ [][TimerNext]_timer

-----------------------------------------------------------------------------
(* Properties.                                                             *)

\* Across every wrap of millis(), and however often it was frozen and thawed,
\* a timer that is not frozen has expired just if it counted beyond its timeout.
ExpiryExact == ~stopped => (isExpired <=> ran > time)
=============================================================================
