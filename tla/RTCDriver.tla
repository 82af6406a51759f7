----------------------------- MODULE RTCDriver -----------------------------
(***************************************************************************)
(* The clock driver (RTCDriver.cpp): the date is checked, converted to BCD *)
(* and written in one transfer, and read in two.  The clock's registers    *)
(* are seconds, minutes, hours, weekday, date, month, year.                *)
(***************************************************************************)
EXTENDS IIC

CONSTANTS
  RTC_IIC_ADDRESS,
  Weekdays          \* what set_date's uninitialised weekday may be

VARIABLES
  rtc,              \* the call in progress: "none", "construct", "set", "point", "get"
  rtc_result,       \* what the last call returned, and the date it read; the date
                    \* that is being set
  clock_date        \* auxiliary: the date the clock was last set to; NoDate when a
                    \* call that sets the clock has begun or failed since

rtc_driver == <<rtc, rtc_result, clock_date>>

NoDate == [second |-> 0, minute |-> 0, hour |-> 0, date |-> 0, month |-> 0, year |-> 0]
DateResult(r, date) == [rc |-> r, date |-> date]

\* The clock is set by the constructor of a static object, before anything else is
\* done.  (A LogTask holds two RTCDrivers; the second one does the same again.)
RTCInit == /\ rtc = "construct"
           /\ rtc_result = DateResult(0, NoDate)
           /\ clock_date = NoDate

Leap(year) == \/ (year + 2000) % 400 = 0
              \/ (year + 2000) % 4 = 0 /\ (year + 2000) % 100 # 0

max_month_days(year) ==
  <<31, IF Leap(year) THEN 28 ELSE 29, 31, 30, 31, 30, 31, 31, 30, 31, 30, 31>>

\* The rules for sensible input; there is none for the hour.
Sensible(d) == /\ d.month \in 1..12
               /\ d.date \in 1..max_month_days(d.year)[d.month]
               /\ d.year <= 99
               /\ d.minute <= 59
               /\ d.second <= 59

\* Mutant: a mask that is too narrow for the tens of a minute.
FromBCDNarrow(b) == (b % 16) + 10 * ((b \div 16) % 4)

\* Two digits in a byte; the upper one may have lost its highest bit to a flag.
BCD(x) == (x % 10) + 16 * ((x \div 10) % 16)
FromBCD(b) == (b % 16) + 10 * ((b \div 16) % 8)

FromBCDYear(b) == (b % 16) + 10 * (b \div 16)

Registers(d, weekday) ==
  <<BCD(d.second) + 128, BCD(d.minute) + 128, BCD(d.hour), weekday,
    BCD(d.date), BCD(d.month), BCD(d.year)>>

Decoded(regs) ==
  [second |-> FromBCD(regs[1]), minute |-> FromBCD(regs[2]), hour |-> FromBCD(regs[3]),
   date |-> FromBCD(regs[5]), month |-> FromBCD(regs[6]), year |-> FromBCDYear(regs[7])]

\* RTCDriver(): the oscillator is started, the seconds are cleared.
Construct == /\ rtc = "construct"
             /\ IICWrite(RTC_IIC_ADDRESS, <<0, 128>>)
             /\ UNCHANGED rtc_driver

RefuseDate(d) == /\ ~Sensible(d)
                 /\ rtc_result' = DateResult(-1, NoDate)
                 /\ UNCHANGED <<iic, rtc, clock_date>>

set_date(d) == /\ Sensible(d)
               /\ rtc' = "set"
               /\ rtc_result' = DateResult(0, d)
               /\ clock_date' = NoDate
               /\ \E weekday \in Weekdays :
                    IICWrite(RTC_IIC_ADDRESS, <<0>> \o Registers(d, weekday))

get_date == /\ rtc' = "point"
            /\ rtc_result' = DateResult(0, NoDate)
            /\ UNCHANGED clock_date
            /\ IICWrite(RTC_IIC_ADDRESS, <<0>>)

\* get_date goes on to its second transfer.
RTCReadOn == /\ rtc = "get"
             /\ IICRead(RTC_IIC_ADDRESS, 7)
             /\ UNCHANGED rtc_driver

\* A transfer has returned r, and read data.
RTCReturns(r, data) ==
  \/ /\ rtc = "point" /\ r = 0
     /\ rtc' = "get"
     /\ UNCHANGED <<rtc_result, clock_date>>
  \/ /\ rtc \in {"point", "get"} /\ r # 0
     /\ rtc' = "none"
     /\ rtc_result' = DateResult(-1, NoDate)
     /\ UNCHANGED clock_date
  \/ /\ rtc = "get" /\ r = 0
     /\ rtc' = "none"
     /\ rtc_result' = DateResult(0, Decoded(data))
     /\ UNCHANGED clock_date
  \/ /\ rtc = "set"
     /\ rtc' = "none"
     /\ rtc_result' = DateResult(r, NoDate)
     /\ clock_date' = IF r = 0 THEN rtc_result.date ELSE NoDate
  \/ /\ rtc = "construct"
     /\ rtc' = "none"
     /\ UNCHANGED <<rtc_result, clock_date>>
=============================================================================
