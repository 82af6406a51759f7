---------------------------- MODULE Peripherals ----------------------------
(***************************************************************************)
(* The I2C bus: the EEPROM driver and the clock driver, called one at a    *)
(* time by the main thread, the master they share, and the two slaves.     *)
(* Transfers may fail at every byte, and power may be lost at any time.    *)
(*                                                                         *)
(* Not modelled: the time the clock counts while it is read and written.   *)
(***************************************************************************)
EXTENDS E2Driver, RTCDriver

CONSTANTS
  E2Calls,      \* the calls that are made: records [op, page, data, length]
  Dates,        \* the dates set_date is called with
  DeviceBlock,  \* 128: the bytes the EEPROM programs together
  Released      \* 0xff, also in a cell that was never written

\* The device holds whole pages and programs whole pages together.
ASSUME DeviceAssumption ==
  /\ E2_IIC_ADDRESS # RTC_IIC_ADDRESS
  /\ ByteSize <= 256 /\ Released \in 0..(ByteSize - 1)
  /\ (E2_MEMORY_SIZE + 1) % E2_PAGE_SIZE = 0
  /\ DeviceBlock \in Nat \ {0} /\ DeviceBlock % E2_PAGE_SIZE = 0

\* What the parameters of the calls can hold; the weekday is a byte of the stack.
ASSUME CallsAssumption ==
  /\ \A c \in E2Calls :
       /\ c.op \in {"write", "read"} /\ c.page \in Nat /\ c.length \in Nat
       /\ c.data \in Seq(0..(ByteSize - 1))
       /\ c.op = "write" => c.length = Len(c.data)
  /\ Dates \subseteq [second : 0..255, minute : 0..255, hour : 0..255,
                      date : 0..255, month : 0..255, year : 0..255]
  /\ Weekdays \subseteq 0..255

VARIABLE slave  \* the devices, by their address

vars == <<iic, e2_driver, rtc_driver, slave>>

S == INSTANCE Slave WITH Base <- ByteSize

E2Cells == E2_MEMORY_SIZE + 1

Init == /\ IICInit /\ E2Init /\ RTCInit
        /\ slave = [a \in {E2_IIC_ADDRESS, RTC_IIC_ADDRESS} |->
                      IF a = E2_IIC_ADDRESS
                        THEN S!New([c \in 1..E2Cells |-> Released], 2, DeviceBlock)
                        ELSE S!New([r \in 1..7 |-> 0], 1, 0)]

-----------------------------------------------------------------------------
(* Calls.                                                                  *)

Free == phase = "idle" /\ e2.op = "none" /\ rtc = "none"

Call == /\ Free
        /\ \/ \E c \in E2Calls :
                /\ \/ E2Refuse(c.page, c.length)
                   \/ c.op = "write" /\ memory_write(c.page, c.data)
                   \/ c.op = "read" /\ memory_read(c.page, c.length)
                /\ rtc_result' = DateResult(0, NoDate)
                /\ UNCHANGED <<rtc, clock_date>>
           \/ /\ get_date \/ \E d \in Dates : RefuseDate(d) \/ set_date(d)
              /\ e2_result' = NoResult
              /\ UNCHANGED e2
        /\ UNCHANGED slave

\* A driver goes on, with its first or its next transfer.
GoOn == /\ \/ E2ReadOn /\ UNCHANGED rtc_driver
           \/ (Construct \/ RTCReadOn) /\ UNCHANGED e2_driver
        /\ UNCHANGED slave

\* A transfer has returned r to its driver.
Returned(r) == \/ E2Returns(r, bytes) /\ UNCHANGED rtc_driver
               \/ RTCReturns(r, bytes) /\ UNCHANGED e2_driver

-----------------------------------------------------------------------------
(* The bus.                                                                *)

Becomes(s) == slave' = [slave EXCEPT ![addr] = s]
InDrivers == UNCHANGED <<e2_driver, rtc_driver>>

BusStart == \/ Started /\ InDrivers /\ UNCHANGED slave
            \/ StartFails /\ Returned(-1) /\ UNCHANGED slave

\* An address that was refused may have arrived all the same: its acknowledgement
\* was lost.  A slave that is to be read then sends.
BusAddress == LET arrives == /\ S!Answers(slave[addr])
                             /\ Becomes(S!Selected(slave[addr], rw))
              IN  /\ \/ AddressAcked /\ arrives
                     \/ AddressRefused /\ (arrives \/ UNCHANGED slave)
                  /\ InDrivers

\* The same of a byte.
BusWrite == LET arrived == S!Received(slave[addr], bytes[idx + 1])
            IN  /\ \/ ByteAcked /\ Becomes(arrived)
                   \/ ByteRefused /\ (Becomes(arrived) \/ UNCHANGED slave)
                /\ InDrivers

\* The clock shows in bit 5 of the month whether the year is a leap year.
Month == 6
LeapFlag(s) == IF addr = RTC_IIC_ADDRESS /\ s.pointer = Month - 1 /\ Leap(FromBCDYear(s.cells[7]))
                 THEN 32 ELSE 0

\* A slave whose byte was lost lets go of the bus, or sends on.
BusRead == /\ \/ /\ ByteReceived(S!Byte(slave[addr]) + LeapFlag(slave[addr]))
                 /\ Becomes(S!Sent(slave[addr], Acks))
              \/ /\ ByteLost
                 /\ Becomes(S!Silenced(slave[addr])) \/ Becomes(S!Sent(slave[addr], TRUE))
           /\ InDrivers

BusStop == /\ Stopped
           /\ S!StopPossible(slave[addr])
           /\ Becomes(S!AfterStop(slave[addr]))
           /\ Returned(rc)

\* The EEPROM has programmed its buffer.
ProgramEnds == /\ slave[E2_IIC_ADDRESS].programming
               /\ slave' = [slave EXCEPT ![E2_IIC_ADDRESS] = S!Programmed(@)]
               /\ UNCHANGED <<iic, e2_driver, rtc_driver>>

\* Power is lost and returns; the clock has a battery.
PowerFails == /\ \E damaged \in SUBSET S!Endangered(slave[E2_IIC_ADDRESS]) :
                   slave' = [a \in DOMAIN slave |->
                               S!PoweredOff(slave[a], IF a = E2_IIC_ADDRESS THEN damaged ELSE {})]
              /\ Ended
              /\ e2' = NoCall /\ e2_result' = NoResult
              /\ rtc' = "construct" /\ rtc_result' = DateResult(0, NoDate)
              /\ clock_date' = NoDate

Driver == GoOn \/ BusStart \/ BusAddress \/ BusWrite \/ BusRead \/ BusStop

Next == Call \/ Driver \/ ProgramEnds \/ PowerFails

\* The bus answers, in one way or another; a stop condition that is not possible is
\* waited for until power is lost.
Spec == Init /\ [][Next]_vars /\ WF_vars(Driver)

-----------------------------------------------------------------------------
(* Properties.                                                             *)

E2 == slave[E2_IIC_ADDRESS]

\* Types, and the cursors of both sides agree: the master never reads past what it
\* sends, nor sends more than the slave has seen.
TypeOK == /\ phase \in {"idle", "start", "address", "byte", "stop"}
          /\ rc \in {0, -1, -2}
          /\ idx \in 0..n
          /\ phase = "byte" => idx < n
          /\ rw = "write" => n = Len(bytes)
          /\ rw = "read" /\ phase # "idle" => Len(bytes) <= n
          /\ phase = "idle" => \A a \in DOMAIN slave : ~slave[a].sending
          /\ \A a \in DOMAIN slave : \A c \in 1..Len(slave[a].cells) :
               slave[a].cells[c] \in 0..255

E2Pages == LET all == S!Overlaid(E2)
           IN  [p \in 0..E2_LAST_ADDRESS |->
                  SubSeq(all, p * E2_PAGE_SIZE + 1, (p + 1) * E2_PAGE_SIZE)]

\* memory_read is one call; bytes of a write are accepted until they are programmed.
E2Call == [e2 EXCEPT !.op = IF @ = "point" THEN "read" ELSE @]
E2Accepted == IF e2.op = "write" /\ ~E2.programming THEN Len(S!Data(E2)) ELSE 0
E2Unsettled == IF S!Data(E2) = <<>> THEN -1 ELSE E2.pointer \div E2_PAGE_SIZE
E2Outcome == [ok |-> e2_result.rc = 0, data |-> e2_result.data]

Store == INSTANCE PageStore
  WITH PageCount <- E2_LAST_ADDRESS + 1,
       PageSize <- E2_PAGE_SIZE,
       Bytes <- 0..(ByteSize - 1),
       PagesPerBlock <- DeviceBlock \div E2_PAGE_SIZE,
       pages <- E2Pages, call <- E2Call, accepted <- E2Accepted,
       unsettled <- E2Unsettled, result <- E2Outcome

\* The EEPROM driver implements PageStore over the bus, whatever goes wrong on it: a
\* successful write has stored the page and a failed one a beginning of it, a
\* successful read returns the page, no other page changes, and a power failure
\* damages nothing but the page being written and its neighbour.
ImplementsPages == Store!Spec

\* In a year that is not a leap year the date that get_date returns is the one the
\* clock was set to, through BCD, register order and failed transfers in between.
DateKept ==
  [][rtc = "get" /\ rtc' = "none" /\ rtc_result'.rc = 0 /\ clock_date # NoDate
       => Leap(clock_date.year) \/ rtc_result'.date = clock_date]_vars

\* A slave sends although the transfer was given up: nobody is there to refuse its
\* next byte, and the driver waits for a stop condition that it does not let through.
Jammed == phase = "stop" /\ rc = -2 /\ slave[addr].sending

\* Every call returns, unless an acknowledgement or a byte was lost in such a way
\* that the bus is jammed: no transfer that went well leaves a slave sending.
CallReturns ==
  /\ (e2.op # "none") ~> (e2.op = "none" \/ Jammed)
  /\ (rtc \notin {"none", "construct"}) ~> (rtc \in {"none", "construct"} \/ Jammed)
=============================================================================
