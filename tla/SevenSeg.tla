------------------------------ MODULE SevenSeg ------------------------------
(***************************************************************************)
(* SevenSegEventHandler: what the seven-segment display shows.             *)
(***************************************************************************)
EXTENDS Messages

VARIABLES pattern,  \* the index into segment, which is shifted out bit by bit
          point     \* whether the decimal point is lit

sevenseg == <<pattern, point>>

\* The last entry of segment: all off.
Off == 12

SmallerOf(a, b) == IF a < b THEN a ELSE b

\* The low four bits choose the pattern, the top bit lights the point.
EventHandler(m) == /\ pattern' = SmallerOf(m.context % 16, Off)
                   /\ point' = (m.context % 256 >= 128)
=============================================================================
