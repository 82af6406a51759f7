------------------------------- MODULE Slave -------------------------------
(***************************************************************************)
(* A memory on the I2C bus, as the drivers use it: the EEPROM 24LC512      *)
(* (schematics/MCHPS03117.pdf) or the registers of the clock MCP7940M      *)
(* (schematics/MCHPS05656.pdf).  The first bytes of a write set a pointer; *)
(* further ones are stored from there on: at once by the clock, by the     *)
(* EEPROM in a buffer that it programs after the stop condition.  A read   *)
(* goes on from the pointer.  A slave that sends holds the bus until a     *)
(* byte is not acknowledged.                                               *)
(*                                                                         *)
(* A slave is a record; each operator says what becomes of it.  addressing *)
(* is how many bytes set the pointer (1 or 2), block how many cells are    *)
(* programmed together (0: none, a byte is stored at once).                *)
(***************************************************************************)
EXTENDS Integers, Sequences

CONSTANTS
  Base,           \* 256: what a byte holds
  Released        \* what is read from a bus that nobody drives: 0xff

New(cells, addressing, block) ==
  [cells |-> cells, addressing |-> addressing, block |-> block,
   pointer |-> 0,
   received |-> <<>>,        \* in the write in progress, or the one being programmed
   programming |-> FALSE, sending |-> FALSE]

Size(s) == Len(s.cells)
Data(s) == SubSeq(s.received, s.addressing + 1, Len(s.received))

\* Cells are numbered from 0.
Cell(s, a) == s.cells[a + 1]
InBlock(s, a) == s.block > 0 /\ a \div s.block = s.pointer \div s.block

\* The contents with what is in the buffer, which wraps around at the end of a block.
Overlaid(s) ==
  LET data == Data(s)
      From(c) == ((c - 1 - s.pointer) % s.block) + 1
  IN  IF data = <<>> THEN s.cells
      ELSE [c \in 1..Size(s) |-> IF InBlock(s, c - 1) /\ From(c) <= Len(data)
                                   THEN data[From(c)]
                                   ELSE s.cells[c]]

\* It does not answer to its address while it programs.
Answers(s) == ~s.programming

Selected(s, direction) == [s EXCEPT !.received = <<>>, !.sending = (direction = "read")]

Received(s, b) ==
  LET got == [s EXCEPT !.received = Append(@, b)]
      next == (s.pointer + 1) % Size(s)
      address == IF s.addressing = 1 THEN b ELSE s.received[1] * Base + b
  IN  CASE Len(s.received) + 1 < s.addressing -> got
        [] Len(s.received) + 1 = s.addressing -> [got EXCEPT !.pointer = address % Size(s)]
        [] Len(s.received) >= s.addressing /\ s.block > 0 -> got
        [] OTHER -> [got EXCEPT !.cells[s.pointer + 1] = b, !.pointer = next]

\* The next byte, and the slave after the master acknowledged it or not.
Byte(s) == IF s.sending THEN Cell(s, s.pointer) ELSE Released
Sent(s, acknowledged) ==
  [s EXCEPT !.pointer = IF s.sending THEN (@ + 1) % Size(s) ELSE @,
            !.sending = @ /\ acknowledged]

\* Noise on the bus: the slave has let go of it.
Silenced(s) == [s EXCEPT !.sending = FALSE]

\* There is no stop condition while the slave holds the bus.  (A write that does no
\* more than set the pointer leaves it for the read that follows; where any other
\* transfer leaves it no driver may rely on: here, at the last cell.)
Adrift(s) == Size(s) - 1
StopPossible(s) == ~s.sending
AfterStop(s) ==
  CASE s.block > 0 /\ Data(s) # <<>> -> [s EXCEPT !.programming = TRUE]
    [] s.received # <<>> /\ Data(s) = <<>> -> [s EXCEPT !.received = <<>>]
    [] OTHER -> [s EXCEPT !.received = <<>>, !.pointer = Adrift(s)]

Programmed(s) == [s EXCEPT !.cells = Overlaid(s), !.received = <<>>, !.pointer = Adrift(s),
                           !.programming = FALSE]

\* Power is lost: what is being programmed, and what else is in its block, may be
\* damaged; a buffer that is not yet being programmed is gone.
Endangered(s) == {c \in 1..Size(s) : s.programming /\ InBlock(s, c - 1)}
PoweredOff(s, damaged) ==
  LET kept == IF s.programming THEN Overlaid(s) ELSE s.cells
  IN  New([c \in 1..Size(s) |-> IF c \in damaged THEN Released ELSE kept[c]],
          s.addressing, s.block)
=============================================================================
