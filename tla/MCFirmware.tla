----------------------------- MODULE MCFirmware -----------------------------
(***************************************************************************)
(* The firmware with one digit, the star and the hash.                     *)
(***************************************************************************)
EXTENDS Firmware

NoRow == [rows |-> {}, column |-> 3]
Three == [rows |-> {1}, column |-> 3]
Hash == [rows |-> {4}, column |-> 3]
Star == [rows |-> {4}, column |-> 1]

\* Two of the keys are in one column: the finger may roll from one to the other.
MCReadings == {NoRow, Three, Hash, Star}
=============================================================================
