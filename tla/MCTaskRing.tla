---------------------------- MODULE MCTaskRing ----------------------------
(***************************************************************************)
(* TaskRing with fewer tasks than registrations, so that one is registered *)
(* twice, as KeypadTask is by its constructor.                             *)
(***************************************************************************)
EXTENDS TaskRing

CONSTANTS control, keypad

MCTask == {control, keypad}
=============================================================================
