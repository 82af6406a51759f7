----------------------------- MODULE DigitEntry -----------------------------
(***************************************************************************)
(* What the display promises the operator who sets a speed: digits are     *)
(* entered one at a time from the left, places not yet entered count as 0, *)
(* backspace removes the last digit, and enter sets the demanded speed if  *)
(* it is in range.                                                         *)
(***************************************************************************)
EXTENDS Integers, Sequences

CONSTANTS Digits,            \* the digits the operator uses
          RPS_MIN, RPS_MAX   \* the range of speeds

VARIABLES entering,  \* whether an entry has begun
          typed,     \* the digits entered
          demand     \* the demanded speed

vars == <<entering, typed, demand>>

Place(i) == IF i <= Len(typed) THEN typed[i] ELSE 0
Number == 100 * Place(1) + 10 * Place(2) + Place(3)

InRange(speed) == speed = 0 \/ speed \in RPS_MIN..RPS_MAX

Init == entering = FALSE /\ typed = <<>> /\ demand = 0

Begin(d) == /\ ~entering
            /\ entering' = TRUE /\ typed' = <<d>>
            /\ UNCHANGED demand

Digit(d) == /\ entering /\ Len(typed) < 3
            /\ typed' = Append(typed, d)
            /\ UNCHANGED <<entering, demand>>

Backspace == /\ entering /\ typed # <<>>
             /\ typed' = SubSeq(typed, 1, Len(typed) - 1)
             /\ UNCHANGED <<entering, demand>>

Enter == /\ entering
         /\ entering' = FALSE /\ typed' = <<>>
         /\ demand' = IF InRange(Number) THEN Number ELSE demand

Next == \/ \E d \in Digits : Begin(d) \/ Digit(d)
        \/ Backspace \/ Enter

Spec == Init /\ [][Next]_vars
=============================================================================
