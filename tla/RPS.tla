-------------------------------- MODULE RPS --------------------------------
(***************************************************************************)
(* The measured speed (rps.cpp).  A beam breaker changes a pin; the        *)
(* pin-change ISR counts its rising edges, the overflow ISR of timer 1     *)
(* takes over the count and starts a new one, and the main thread reads    *)
(* the last count, of two bytes, one byte after the other.  ISRs do not    *)
(* nest, a pending pin change comes before a pending overflow, and a flag  *)
(* is cleared when its ISR is entered.  The overflow ISR is one step: only *)
(* the pin can change while it runs.                                       *)
(***************************************************************************)
EXTENDS Integers

CONSTANTS
  Base,         \* 256: what a byte holds
  MaxRises      \* bound: how many rising edges there are between two overflows

ASSUME BaseAssumption == Base \in Nat /\ Base >= 2
ASSUME RisesAssumption == MaxRises \in 0..(Base * Base - 1)

Counts == 0..(Base * Base - 1)
Byte(count, half) == IF half = "high" THEN count \div Base ELSE count % Base
OtherHalf(half) == IF half = "high" THEN "low" ELSE "high"

VARIABLES
  pin,                  \* bit 3 of PINC
  PCIF1, TOV1,          \* pending pin change, pending overflow
  isr,                  \* where the pin-change ISR stands: before its first read
                        \* of PINC ("test") or its second one ("store")
  pinC_last_state, rps_count, current_rps_count,
  half, byte,           \* GetRPS: the half it has read ("none" outside), its value
  count,                \* what GetRPS last computed the speed from
  before, renewed,      \* auxiliary: latched when GetRPS began, and whether an
                        \* overflow has come since
  rises, latched,       \* auxiliary: rising edges since the last overflow, and
                        \* between the last two
  paced                 \* auxiliary: whether every edge so far came after the ISR
                        \* for the one before it had returned

counters == <<pinC_last_state, rps_count, current_rps_count>>
reader == <<half, byte, count, before, renewed>>
edges == <<rises, latched, paced>>
rps == <<pin, PCIF1, TOV1, isr, counters, reader, edges>>

RPSInit == /\ pin \in {0, 1}
           /\ PCIF1 = FALSE /\ TOV1 = FALSE /\ isr = "none"
           /\ pinC_last_state = 0 /\ rps_count = 0 /\ current_rps_count = 0
           /\ half = "none" /\ byte = 0 /\ count = 0 /\ before = 0 /\ renewed = FALSE
           /\ rises = 0 /\ latched = 0 /\ paced = TRUE

-----------------------------------------------------------------------------
(* The hardware.                                                           *)

Edge == /\ pin = 0 => rises < MaxRises
        /\ pin' = 1 - pin
        /\ PCIF1' = TRUE
        /\ rises' = rises + pin'
        /\ paced' = (paced /\ ~PCIF1 /\ isr = "none")
        /\ UNCHANGED <<TOV1, isr, counters, reader, latched>>

Overflow == /\ TOV1' = TRUE
            /\ UNCHANGED <<pin, PCIF1, isr, counters, reader, edges>>

-----------------------------------------------------------------------------
(* ISR(PCINT1_vect)                                                        *)

EnterPinChange == /\ PCIF1 /\ isr = "none"
                  /\ PCIF1' = FALSE
                  /\ isr' = "test"
                  /\ UNCHANGED <<pin, TOV1, counters, reader, edges>>

\* Mutant: the last state is not looked at.
TestPinAlone == /\ isr = "test"
                /\ rps_count' = IF pin = 1 THEN (rps_count + 1) % (Base * Base) ELSE rps_count
                /\ isr' = "store"
                /\ UNCHANGED <<pin, PCIF1, TOV1, pinC_last_state, current_rps_count,
                               reader, edges>>

TestPin == /\ isr = "test"
           /\ rps_count' = IF pin = 1 /\ pinC_last_state = 0
                             THEN (rps_count + 1) % (Base * Base)
                             ELSE rps_count
           /\ isr' = "store"
           /\ UNCHANGED <<pin, PCIF1, TOV1, pinC_last_state, current_rps_count,
                          reader, edges>>

StorePin == /\ isr = "store"
            /\ pinC_last_state' = pin
            /\ isr' = "none"
            /\ UNCHANGED <<pin, PCIF1, TOV1, rps_count, current_rps_count, reader, edges>>

-----------------------------------------------------------------------------
(* ISR(TIMER1_OVF_vect).  Overflows are 0.26 s apart: no two of them meet  *)
(* the same call of GetRPS.                                                *)

\* Mutant: the count is cleared before it is taken over.
TakeOverCleared == /\ TOV1 /\ ~PCIF1 /\ isr = "none"
                   /\ ~renewed
                   /\ TOV1' = FALSE
                   /\ current_rps_count' = 0
                   /\ rps_count' = 0
                   /\ latched' = rises /\ rises' = 0
                   /\ renewed' = (half # "none")
                   /\ UNCHANGED <<pin, PCIF1, isr, pinC_last_state, half, byte, count,
                                  before, paced>>

TakeOver == /\ TOV1 /\ ~PCIF1 /\ isr = "none"
            /\ ~renewed
            /\ TOV1' = FALSE
            /\ current_rps_count' = rps_count
            /\ rps_count' = 0
            /\ latched' = rises /\ rises' = 0
            /\ renewed' = (half # "none")
            /\ UNCHANGED <<pin, PCIF1, isr, pinC_last_state, half, byte, count, before, paced>>

-----------------------------------------------------------------------------
(* GetRPS: the compiler chooses which half is read first.  The speed it    *)
(* returns, count * 100 / 78, is a function of the count.                  *)

ReadHalf(h) == /\ isr = "none" /\ half = "none"
               /\ half' = h
               /\ byte' = Byte(current_rps_count, h)
               /\ before' = latched
               /\ UNCHANGED <<pin, PCIF1, TOV1, isr, counters, count, renewed, edges>>

Joined(h, b, other) == IF h = "high" THEN b * Base + other ELSE other * Base + b

GetRPS == /\ isr = "none" /\ half # "none"
          /\ count' = Joined(half, byte, Byte(current_rps_count, OtherHalf(half)))
          /\ half' = "none" /\ byte' = 0 /\ before' = 0 /\ renewed' = FALSE
          /\ UNCHANGED <<pin, PCIF1, TOV1, isr, counters, edges>>

RPSNext == \/ Edge \/ Overflow
           \/ EnterPinChange \/ TestPin \/ StorePin
           \/ TakeOver
           \/ \E h \in {"low", "high"} : ReadHalf(h)
           \/ GetRPS

RPSSpec == RPSInit /\ [][RPSNext]_rps

-----------------------------------------------------------------------------
(* Properties.                                                             *)

\* No rising edge is counted twice, neither in one interval nor in two, however
\* fast the edges are and whenever they come while the ISR reads the pin.
CountedOnce == rps_count <= rises /\ current_rps_count <= latched

\* As long as the edges are slower than the ISR, the counts are exact whenever it
\* has nothing left to do: no edge is lost when an overflow comes in between.
CountExact == paced /\ ~PCIF1 /\ isr = "none" =>
                rps_count = rises /\ current_rps_count = latched

\* As long as the edges are slower than the ISR, GetRPS computes the speed from the
\* number of rising edges between the last two overflows.  If an overflow comes in
\* the middle of it, that may be the number from before; and if the two numbers
\* differ in their high byte it may be neither, for nothing keeps the overflow ISR
\* out while the count is read.
SpeedRead ==
  [][GetRPS /\ paced =>
       \/ count' = latched
       \/ renewed /\ (count' = before \/ Byte(before, "high") # Byte(latched, "high"))]_rps
=============================================================================
