---------------------------- MODULE InputProofs ----------------------------
(***************************************************************************)
(* What the program reads of the world: the pulses of the speed sensor     *)
(* (RPS), for every number of rising edges that a count of two bytes holds *)
(* and bytes of any size, and the contacts of the keypad (KeypadContacts), *)
(* whatever keys the operator uses.                                        *)
(***************************************************************************)
EXTENDS RPS, KeypadContacts, TLAPS

\* What the variables the counting depends on may be.
Types == /\ pin \in {0, 1} /\ pinC_last_state \in {0, 1}
         /\ PCIF1 \in BOOLEAN /\ paced \in BOOLEAN
         /\ isr \in {"none", "test", "store"}
         /\ rises \in 0..MaxRises /\ latched \in 0..MaxRises
         /\ rps_count \in Nat /\ current_rps_count \in Nat

\* When the ISR is going to count an edge there is one that was not counted.
EdgeLeft == isr # "store" /\ pinC_last_state = 0 /\ pin = 1 /\ (PCIF1 \/ isr = "test")
              => rps_count < rises

\* While the edges are slower than the ISR: what is still to be counted, and what
\* the ISR is going to compare the pin with.
Exact == paced =>
           /\ current_rps_count = latched
           /\ ~(PCIF1 /\ isr # "none")
           /\ isr = "none" /\ ~PCIF1 =>
                rps_count = rises /\ (pin = 0 => pinC_last_state = 0)
           /\ PCIF1 \/ isr = "test" =>
                IF pin = 1 THEN pinC_last_state = 0 /\ rps_count + 1 = rises
                           ELSE rps_count = rises
           /\ isr = "store" => rps_count = rises

\* What GetRPS holds between its two reads.
HalfRead == /\ half \in {"none", "high", "low"}
            /\ before \in Nat /\ renewed \in BOOLEAN
            /\ half # "none" /\ paced => byte = Byte(before, half)
            /\ half # "none" /\ paced /\ ~renewed => before = latched

IInv == Types /\ CountedOnce /\ EdgeLeft /\ Exact /\ HalfRead

-----------------------------------------------------------------------------

\* A count that fits into two bytes does not wrap.
LEMMA NoWrap ==
  ASSUME NEW w \in Nat \ {0}, NEW x \in 0..(w - 1)
  PROVE  x % w = x
OBVIOUS

\* The two bytes of a count are the count.
LEMMA TwoBytes ==
  ASSUME NEW x \in Nat
  PROVE  (x \div Base) * Base + (x % Base) = x
<1>1. ASSUME NEW b \in Nat \ {0}
      PROVE  x = b * (x \div b) + (x % b)
  BY <1>1, Z3
<1>2. ASSUME NEW b \in Nat, NEW q \in Int
      PROVE  b * q = q * b
  OBVIOUS
<1>3. Base \in Nat \ {0} /\ x \div Base \in Int
  BY BaseAssumption
<1> QED BY <1>1, <1>2, <1>3

LEMMA MaxRisesNat == MaxRises \in Nat
<1>1. Base * Base \in Int
  BY BaseAssumption
<1> QED BY <1>1, RisesAssumption

LEMMA InitIInv == RPSInit => IInv
<1> SUFFICES ASSUME RPSInit PROVE IInv
  OBVIOUS
<1>1. Types
  <2>1. PCIF1 \in BOOLEAN /\ paced \in BOOLEAN
    BY DEF RPSInit
  <2>2. rises \in 0..MaxRises /\ latched \in 0..MaxRises
    BY MaxRisesNat DEF RPSInit
  <2> QED BY <2>1, <2>2 DEF RPSInit, Types
<1>2. CountedOnce /\ EdgeLeft /\ Exact
  BY DEF RPSInit, CountedOnce, EdgeLeft, Exact
<1>3. HalfRead
  BY DEF RPSInit, HalfRead
<1> QED BY <1>1, <1>2, <1>3 DEF IInv

LEMMA EdgeIInv == IInv /\ Edge => IInv'
<1> SUFFICES ASSUME IInv, Edge PROVE IInv'
  OBVIOUS
<1>1. Types'
  BY MaxRisesNat DEF IInv, Types, Edge, counters
<1>2. (CountedOnce /\ EdgeLeft)'
  BY <1>1 DEF IInv, Types, CountedOnce, EdgeLeft, Edge, counters
<1>3. Exact'
  <2>1. paced' => paced /\ ~PCIF1 /\ isr = "none"
    BY DEF Edge
  <2>2. PCIF1'
    BY DEF Edge
  <2> QED BY <2>1, <2>2 DEF IInv, Types, Exact, Edge, counters
<1>4. HalfRead'
  BY DEF IInv, HalfRead, Edge, reader
<1> QED BY <1>1, <1>2, <1>3, <1>4 DEF IInv

LEMMA EnterIInv == IInv /\ EnterPinChange => IInv'
<1> SUFFICES ASSUME IInv, EnterPinChange PROVE IInv'
  OBVIOUS
<1>1. (Types /\ CountedOnce)'
  BY DEF IInv, Types, CountedOnce, EnterPinChange, counters, edges
<1>2. (EdgeLeft /\ Exact)'
  BY DEF IInv, Types, EdgeLeft, Exact, EnterPinChange, counters, edges
<1>3. HalfRead'
  BY DEF IInv, HalfRead, EnterPinChange, reader, edges
<1> QED BY <1>1, <1>2, <1>3 DEF IInv

LEMMA TestIInv == IInv /\ TestPin => IInv'
<1> SUFFICES ASSUME IInv, TestPin PROVE IInv'
  OBVIOUS
<1>1. pin = 1 /\ pinC_last_state = 0 => rps_count < rises
  BY DEF IInv, EdgeLeft, TestPin
<1>2. rps_count' = IF pin = 1 /\ pinC_last_state = 0 THEN rps_count + 1 ELSE rps_count
  <2> DEFINE w == Base * Base
  <2>1. w \in Nat \ {0} /\ MaxRises \in 0..(w - 1)
    BY BaseAssumption, RisesAssumption
  <2>2. ASSUME rps_count < rises
        PROVE  (rps_count + 1) % w = rps_count + 1
    <3>1. rps_count + 1 \in 0..(w - 1)
      BY <2>1, <2>2 DEF IInv, Types
    <3> HIDE DEF w
    <3> QED BY <2>1, <3>1, NoWrap
  <2> QED BY <1>1, <2>2 DEF TestPin
<1> QED BY <1>1, <1>2
        DEF IInv, Types, CountedOnce, EdgeLeft, Exact, HalfRead, TestPin, reader, edges

LEMMA StoreIInv == IInv /\ StorePin => IInv'
BY DEF IInv, Types, CountedOnce, EdgeLeft, Exact, HalfRead, StorePin, reader, edges

LEMMA TakeOverIInv == IInv /\ TakeOver => IInv'
BY MaxRisesNat
   DEF IInv, Types, CountedOnce, EdgeLeft, Exact, HalfRead, TakeOver

\* What leaves the counting alone.
LEMMA RestIInv == IInv /\ (Overflow \/ GetRPS \/ \E h \in {"low", "high"} : ReadHalf(h)) => IInv'
<1> SUFFICES ASSUME IInv, Overflow \/ GetRPS \/ \E h \in {"low", "high"} : ReadHalf(h)
             PROVE  IInv'
  OBVIOUS
<1>1. UNCHANGED <<pin, PCIF1, isr, counters, edges>>
  BY DEF Overflow, GetRPS, ReadHalf
<1>2. HalfRead'
  <2>1. CASE Overflow
    BY <2>1 DEF IInv, HalfRead, Overflow, reader, edges
  <2>2. CASE GetRPS
    BY <2>2 DEF IInv, HalfRead, GetRPS
  <2>3. ASSUME NEW h \in {"low", "high"}, ReadHalf(h) PROVE HalfRead'
    <3>1. /\ half' = h /\ byte' = Byte(current_rps_count, h) /\ before' = latched
          /\ renewed' = renewed /\ latched' = latched /\ paced' = paced
      BY <2>3 DEF ReadHalf, edges
    <3>2. latched \in Nat /\ renewed \in BOOLEAN /\ (paced => current_rps_count = latched)
      BY MaxRisesNat DEF IInv, Types, Exact, HalfRead
    <3> QED BY <3>1, <3>2 DEF HalfRead, Byte
  <2> QED BY <2>1, <2>2, <2>3
<1> QED BY <1>1, <1>2
        DEF IInv, Types, CountedOnce, EdgeLeft, Exact, counters, edges

LEMMA NextIInv == IInv /\ [RPSNext]_rps => IInv'
<1> SUFFICES ASSUME IInv, [RPSNext]_rps PROVE IInv'
  OBVIOUS
<1>1. CASE UNCHANGED rps
  BY <1>1 DEF IInv, Types, CountedOnce, EdgeLeft, Exact, HalfRead, rps, counters,
              reader, edges
<1>2. CASE RPSNext
  BY <1>2, EdgeIInv, EnterIInv, TestIInv, StoreIInv, TakeOverIInv, RestIInv DEF RPSNext
<1> QED BY <1>1, <1>2

LEMMA Invariant == RPSSpec => []IInv
BY InitIInv, NextIInv, PTL DEF RPSSpec

-----------------------------------------------------------------------------

\* No rising edge is ever counted twice.
THEOREM NeverCountedTwice == RPSSpec => []CountedOnce
<1>1. IInv => CountedOnce
  BY DEF IInv
<1> QED BY <1>1, Invariant, PTL

\* Edges that are slower than the ISR are all counted, whenever an overflow comes.
THEOREM NoEdgeLost == RPSSpec => []CountExact
<1>1. IInv => CountExact
  BY DEF IInv, Exact, CountExact
<1> QED BY <1>1, Invariant, PTL

\* What the two halves joined give: the edges between the last two overflows, those
\* before an overflow that came in between, or a mixture of numbers whose high bytes
\* differ.
LEMMA ReadSound ==
  ASSUME IInv, GetRPS, paced
  PROVE  \/ count' = latched
         \/ renewed /\ (count' = before \/ Byte(before, "high") # Byte(latched, "high"))
<1>1. /\ before \in Nat /\ latched \in Nat /\ current_rps_count = latched
      /\ half \in {"high", "low"} /\ byte = Byte(before, half)
      /\ ~renewed => before = latched
  BY MaxRisesNat DEF IInv, Types, Exact, HalfRead, GetRPS
<1>2. CASE Byte(before, "high") = Byte(latched, "high")
  <2>1. CASE half = "high"
    <3>1. count' = (latched \div Base) * Base + (latched % Base)
      BY <1>1, <1>2, <2>1 DEF GetRPS, Joined, Byte, OtherHalf
    <3> QED BY <1>1, <3>1, TwoBytes
  <2>2. CASE half = "low"
    <3>1. count' = (before \div Base) * Base + (before % Base)
      BY <1>1, <1>2, <2>2 DEF GetRPS, Joined, Byte, OtherHalf
    <3>2. count' = before
      BY <1>1, <3>1, TwoBytes
    <3> QED BY <1>1, <3>2
  <2> QED BY <1>1, <2>1, <2>2
<1>3. CASE Byte(before, "high") # Byte(latched, "high")
  BY <1>1, <1>3
<1> QED BY <1>2, <1>3

\* GetRPS computes the speed from the true number of rising edges of an interval
\* of timer 1, the last one or the one before, for edges slower than the ISR; an
\* overflow between its two reads can only spoil that by changing the high byte.
THEOREM SpeedReadWhole == RPSSpec => SpeedRead
<1>1. IInv /\ [RPSNext]_rps =>
        [GetRPS /\ paced =>
           \/ count' = latched
           \/ renewed /\ (count' = before \/ Byte(before, "high") # Byte(latched, "high"))]_rps
  BY ReadSound
<1> QED BY <1>1, Invariant, PTL DEF RPSSpec, SpeedRead

-----------------------------------------------------------------------------
(* The keypad: a press is posted once, however its contact bounces.        *)

\* The key is posted, or is being dispatched.
KeyMessage == Message(MSG_ID_KEY_PRESSED, press)
Digit(context) == Message(MSG_ID_UPDATE_7SEG, context)
OnItsWay == queue = <<Digit(press), KeyMessage>> \/ queue = <<KeyMessage>>

\* What was read is the key that was pressed last.
PressRead == /\ last_pressed = Reading(RowsOf({press}), column)
             /\ RowsOf({press}) # {}

\* A contact that bounces is never taken for pressed: either the timer was set
\* during this bounce and does not expire before it is over, or the key was
\* accepted before.
Debounced ==
  /\ key_state \in {"KEY_IDLE", "KEY_PRESS_DETECTED", "KEY_PRESSED"}
  /\ column \in 1..3
  /\ key_state # "KEY_IDLE" => PressRead
  /\ key_state = "KEY_PRESS_DETECTED" /\ bouncing => outlasted /\ ~key_timer
  /\ key_state = "KEY_PRESSED" /\ down => ~bouncing
  /\ polled /\ ~down /\ ~bouncing => key_state = "KEY_IDLE"

\* A press that was posted stays accepted until the key is released.
Once ==
  /\ reported \in {<<>>, <<press>>}
  /\ OnItsWay \/ queue = <<>> \/ queue = <<Digit(255)>>
  /\ OnItsWay => key_state = "KEY_PRESSED" /\ down /\ reported = <<>>
  /\ key_state = "KEY_PRESSED" => OnItsWay \/ reported = <<press>>
  /\ down /\ reported = <<press>> => key_state = "KEY_PRESSED"

KeypadInv == Debounced /\ Once

\* No key is twice in a column.
LEMMA RowsDiffer ==
  ASSUME NEW c \in 1..3, NEW r \in 1..4, NEW q \in 1..4,
         KEY_MAP[r][c] = KEY_MAP[q][c]
  PROVE  r = q
<1>1. (c = 1 \/ c = 2 \/ c = 3) /\ (r = 1 \/ r = 2 \/ r = 3 \/ r = 4) /\ (q = 1 \/ q = 2 \/ q = 3 \/ q = 4)
  OBVIOUS
<1> QED BY <1>1 DEF KEY_MAP

\* The reading of a key that is alone is that key.
LEMMA KeysOfPress ==
  ASSUME column \in 1..3, RowsOf({press}) # {}
  PROVE  KeysOf(Reading(RowsOf({press}), column)) = {press}
<1>1. PICK r \in 1..4 : KEY_MAP[r][column] = press
  BY DEF RowsOf
<1>2. RowsOf({press}) = {r}
  BY <1>1, RowsDiffer DEF RowsOf
<1>3. {q \in 1..4 : RowsOf({press}) = {q}} = {r}
  BY <1>2
<1>4. {c \in 1..3 : column = c} = {column}
  OBVIOUS
<1> QED BY <1>1, <1>3, <1>4 DEF KeysOf, Reading

\* Nothing is read of a contact that is open.
LEMMA NothingRead ==
  /\ RowsOf({}) = {}
  /\ \A reading : reading.rows = {} => KeysOf(reading) = {}
<1>1. RowsOf({}) = {}
  BY DEF RowsOf
<1>2. ASSUME NEW reading, reading.rows = {} PROVE KeysOf(reading) = {}
  <2>1. {r \in 1..4 : reading.rows = {r}} = {}
    BY <1>2
  <2> QED BY <2>1 DEF KeysOf
<1> QED BY <1>1, <1>2

\* The three forms of the queue are different.
LEMMA QueueForms ==
  /\ queue = <<>> => ~OnItsWay
  /\ queue = <<Digit(255)>> => ~OnItsWay
  /\ <<Digit(press), KeyMessage>> # <<KeyMessage>>
<1>1. Digit(255) # KeyMessage
  BY DEF Digit, KeyMessage, Message, MSG_ID_UPDATE_7SEG, MSG_ID_KEY_PRESSED
<1> QED BY <1>1 DEF OnItsWay

LEMMA ContactsStart == ContactsInit => KeypadInv
<1> SUFFICES ASSUME ContactsInit PROVE KeypadInv
  OBVIOUS
<1>1. /\ key_state = "KEY_IDLE" /\ column = 3 /\ queue = <<>> /\ reported = <<>> /\ down = FALSE
  BY DEF ContactsInit, Init
<1>2. Debounced
  BY <1>1 DEF Debounced
<1>3. Once
  BY <1>1, QueueForms DEF Once
<1> QED BY <1>2, <1>3 DEF KeypadInv

\* The operator and the contact.
LEMMA PressStep ==
  ASSUME KeypadInv, Unhurried = TRUE, NEW key \in Keys, Press(key)
  PROVE  KeypadInv'
<1>1. /\ ~down /\ ~bouncing /\ polled /\ queue = <<>>
      /\ press' = key /\ down' = TRUE /\ reported' = <<>> /\ polled' = FALSE
      /\ UNCHANGED <<key_state, last_pressed, key_timer, column, queue>>
  BY DEF Press, Patience, keypad
<1>2. key_state = "KEY_IDLE" /\ column \in 1..3
  BY <1>1 DEF KeypadInv, Debounced
<1>3. Debounced'
  BY <1>1, <1>2 DEF Debounced
<1>4. ~OnItsWay'
  BY <1>1 DEF OnItsWay
<1>5. Once'
  BY <1>1, <1>2, <1>4 DEF Once
<1> QED BY <1>3, <1>5 DEF KeypadInv

LEMMA ReleaseStep ==
  ASSUME KeypadInv, Unhurried = TRUE, Release
  PROVE  KeypadInv'
<1>1. /\ down /\ ~bouncing /\ queue = <<>> /\ key_state # "KEY_PRESS_DETECTED"
      /\ down' = FALSE /\ polled' = FALSE
      /\ UNCHANGED <<key_state, last_pressed, key_timer, column, queue, press, reported>>
  BY DEF Release, Patience, keypad
<1>2. (PressRead' <=> PressRead) /\ (OnItsWay' <=> OnItsWay)
  BY <1>1 DEF PressRead, RowsOf, OnItsWay, KeyMessage, Digit
<1>3. Debounced'
  BY <1>1, <1>2 DEF KeypadInv, Debounced
<1>4. ~OnItsWay
  BY <1>1, QueueForms
<1>5. Once'
  BY <1>1, <1>2, <1>4 DEF KeypadInv, Once
<1> QED BY <1>3, <1>5 DEF KeypadInv

\* A step in which the operator does nothing and no message is posted or
\* dispatched.
LEMMA QuietStep ==
  ASSUME KeypadInv, UNCHANGED <<key_state, last_pressed, column, queue, press, down, reported>>,
         Debounced'
  PROVE  KeypadInv'
<1>1. OnItsWay' <=> OnItsWay
  BY DEF OnItsWay, KeyMessage, Digit
<1>2. Once'
  BY <1>1 DEF KeypadInv, Once, Digit
<1> QED BY <1>2 DEF KeypadInv

LEMMA SettleStep == ASSUME KeypadInv, Settle PROVE KeypadInv'
<1>1. /\ bouncing' = FALSE /\ polled' = FALSE
      /\ UNCHANGED <<key_state, last_pressed, key_timer, column, queue, press, down, reported>>
  BY DEF Settle, keypad
<1>2. PressRead' <=> PressRead
  BY <1>1 DEF PressRead, RowsOf
<1>3. Debounced'
  BY <1>1, <1>2 DEF KeypadInv, Debounced
<1> QED BY <1>1, <1>3, QuietStep

LEMMA ExpiryStep == ASSUME KeypadInv, TimerExpires PROVE KeypadInv'
<1>1. /\ ~outlasted
      /\ UNCHANGED <<key_state, last_pressed, column, queue, press, down, bouncing, polled, reported>>
  BY DEF TimerExpires, KeyTimerExpires, contacts
<1>2. PressRead' <=> PressRead
  BY <1>1 DEF PressRead, RowsOf
<1>3. Debounced'
  BY <1>1, <1>2 DEF KeypadInv, Debounced
<1> QED BY <1>1, <1>3, QuietStep

\* The superloop.
LEMMA PollStep == ASSUME KeypadInv, Poll PROVE KeypadInv'
<1>1. PICK keys \in Closed : TaskLoop(Reading(RowsOf(keys), column))
  BY DEF Poll
<1> DEFINE rows == RowsOf(keys)
           reading == Reading(rows, column)
<1>2. /\ queue = <<>> /\ polled' = TRUE
      /\ outlasted' = (IF key_state = "KEY_IDLE" /\ key_state' = "KEY_PRESS_DETECTED"
                         THEN bouncing ELSE outlasted)
      /\ UNCHANGED <<press, down, bouncing, reported>>
  BY DEF Poll
<1>3. /\ keys = {} \/ keys = {press}
      /\ ~bouncing => keys = (IF down THEN {press} ELSE {})
  BY DEF Closed
<1>4. reading.rows = rows /\ reading.column = column /\ reading = Reading(rows, column)
  BY DEF Reading
<1>5. rows # {} => keys = {press} /\ rows = RowsOf({press})
  BY <1>3, NothingRead
<1>6. /\ Debounced /\ Once /\ ~OnItsWay /\ column \in 1..3
  BY <1>2, QueueForms DEF KeypadInv, Debounced
<1>7. TaskLoop(reading)
  BY <1>1
<1> HIDE DEF reading
<1>8. CASE KeyDetected(reading)
  <2>1. /\ key_state = "KEY_IDLE" /\ rows # {} /\ key_state' = "KEY_PRESS_DETECTED"
        /\ last_pressed' = reading /\ key_timer' = FALSE /\ column' = column /\ queue' = queue
    BY <1>4, <1>8 DEF KeyDetected
  <2>2. PressRead'
    BY <1>2, <1>4, <1>5, <2>1 DEF PressRead, RowsOf
  <2>3. down' \/ bouncing'
    BY <1>2, <1>3, <1>5, <2>1
  <2>4. bouncing' => outlasted'
    BY <1>2, <2>1
  <2>5. Debounced'
    BY <1>6, <2>1, <2>2, <2>3, <2>4 DEF Debounced
  <2>6. ~OnItsWay'
    BY <1>2, <2>1 DEF OnItsWay
  <2>7. Once'
    BY <1>2, <1>6, <2>1, <2>6 DEF Once
  <2> QED BY <2>5, <2>7 DEF KeypadInv
<1>9. CASE ScanColumn(reading)
  <2>1. /\ key_state = "KEY_IDLE" /\ key_state' = "KEY_IDLE" /\ queue' = queue
        /\ column' = NextColumn(column)
    BY <1>4, <1>9 DEF ScanColumn
  <2>2. column' \in 1..3
    BY <2>1 DEF NextColumn
  <2>3. Debounced'
    BY <2>1, <2>2 DEF Debounced
  <2>4. ~OnItsWay'
    BY <1>2, <2>1 DEF OnItsWay
  <2>5. Once'
    BY <1>2, <1>6, <2>1, <2>4 DEF Once
  <2> QED BY <2>3, <2>5 DEF KeypadInv
<1>10. CASE KeyAccepted(reading)
  <2>1. /\ key_state = "KEY_PRESS_DETECTED" /\ key_timer /\ rows # {}
        /\ key_state' = "KEY_PRESSED" /\ last_pressed' = last_pressed /\ column' = column
    BY <1>4, <1>10 DEF KeyAccepted, StillPressed
  <2>2. ~bouncing /\ down
    BY <1>3, <1>5, <1>6, <2>1 DEF Debounced
  <2>3. PressRead' /\ KeysOf(reading) = {press}
    <3>1. PressRead
      BY <1>6, <2>1 DEF Debounced
    <3>2. reading = Reading(RowsOf({press}), column)
      BY <1>4, <1>5, <2>1
    <3> QED BY <1>2, <1>6, <2>1, <3>1, <3>2, KeysOfPress DEF PressRead, RowsOf
  <2>4. queue' = <<Digit(press), KeyMessage>>
    BY <1>2, <1>10, <2>3 DEF KeyAccepted, Digit, KeyMessage
  <2>5. OnItsWay'
    BY <1>2, <2>4 DEF OnItsWay, Digit, KeyMessage
  <2>6. reported = <<>>
    BY <1>6, <2>1, <2>2 DEF Once
  <2>7. Debounced'
    BY <1>2, <1>6, <2>1, <2>2, <2>3 DEF Debounced
  <2>8. Once'
    BY <1>2, <2>1, <2>2, <2>5, <2>6 DEF Once
  <2> QED BY <2>7, <2>8 DEF KeypadInv
<1>11. CASE KeyUndecided(reading)
  <2>1. /\ key_state = "KEY_PRESS_DETECTED" /\ rows # {}
        /\ UNCHANGED <<key_state, last_pressed, key_timer, column, queue>>
    BY <1>4, <1>11 DEF KeyUndecided, StillPressed, keypad
  <2>2. down \/ bouncing
    BY <1>3, <1>5, <2>1
  <2>3. PressRead' <=> PressRead
    BY <1>2, <2>1 DEF PressRead, RowsOf
  <2>4. Debounced'
    BY <1>2, <1>6, <2>1, <2>2, <2>3 DEF Debounced
  <2> QED BY <1>2, <2>1, <2>4, QuietStep
<1>12. CASE KeyBounced(reading)
  <2>1. /\ key_state = "KEY_PRESS_DETECTED" /\ key_state' = "KEY_IDLE" /\ queue' = queue /\ column' = column
    BY <1>12 DEF KeyBounced
  <2>2. Debounced'
    BY <1>6, <2>1 DEF Debounced
  <2>3. ~OnItsWay'
    BY <1>2, <2>1 DEF OnItsWay
  <2>4. Once'
    BY <1>2, <1>6, <2>1, <2>3 DEF Once
  <2> QED BY <2>2, <2>4 DEF KeypadInv
<1>13. CASE KeyHeld(reading)
  <2>1. /\ key_state = "KEY_PRESSED" /\ reading = last_pressed
        /\ UNCHANGED <<key_state, last_pressed, key_timer, column, queue>>
    BY <1>13 DEF KeyHeld, keypad
  <2>2. PressRead' <=> PressRead
    BY <1>2, <2>1 DEF PressRead, RowsOf
  <2>3. down \/ bouncing
    <3>1. rows # {}
      BY <1>4, <1>6, <2>1 DEF Debounced, PressRead, Reading
    <3> QED BY <1>3, <1>5, <3>1
  <2>4. Debounced'
    BY <1>2, <1>6, <2>1, <2>2, <2>3 DEF Debounced
  <2> QED BY <1>2, <2>1, <2>4, QuietStep
<1>14. CASE KeyReleased(reading)
  <2>1. /\ key_state = "KEY_PRESSED" /\ reading # last_pressed
        /\ key_state' = "KEY_IDLE" /\ column' = column
    BY <1>14 DEF KeyReleased
  <2>2. PressRead
    BY <1>6, <2>1 DEF Debounced
  <2>3. rows = {}
    BY <1>4, <1>5, <2>1, <2>2 DEF PressRead
  <2>4. ~down
    BY <1>3, <1>6, <2>1, <2>2, <2>3 DEF Debounced, PressRead
  <2>5. KeysOf(reading) = {}
    BY <1>4, <2>3, NothingRead
  <2>6. queue' = <<Digit(255)>>
    BY <1>2, <1>14, <2>5 DEF KeyReleased, KeyPosts, Digit
  <2>7. ~OnItsWay'
    <3>1. queue' # <<Digit(press'), KeyMessage'>> /\ queue' # <<KeyMessage'>>
      BY <2>6 DEF Digit, KeyMessage, Message, MSG_ID_UPDATE_7SEG,
                  MSG_ID_KEY_PRESSED
    <3> QED BY <3>1 DEF OnItsWay, Digit
  <2>8. Debounced'
    BY <1>6, <2>1 DEF Debounced
  <2>9. Once'
    BY <1>2, <1>6, <2>1, <2>4, <2>6, <2>7 DEF Once, Digit
  <2> QED BY <2>8, <2>9 DEF KeypadInv
<1> QED BY <1>7, <1>8, <1>9, <1>10, <1>11, <1>12, <1>13, <1>14 DEF TaskLoop

LEMMA ReportStep == ASSUME KeypadInv, Dispatch PROVE KeypadInv'
<1>1. /\ queue # <<>> /\ queue' = Tail(queue)
      /\ reported' = (IF Head(queue).id = MSG_ID_KEY_PRESSED
                        THEN Append(reported, Head(queue).context) ELSE reported)
      /\ UNCHANGED <<key_state, last_pressed, key_timer, column, press, down, bouncing, outlasted, polled>>
  BY DEF Dispatch, keypad
<1>2. PressRead' <=> PressRead
  BY <1>1 DEF PressRead, RowsOf
<1>3. Debounced'
  BY <1>1, <1>2 DEF KeypadInv, Debounced
<1>4. /\ Digit(press).id # MSG_ID_KEY_PRESSED /\ Digit(255).id # MSG_ID_KEY_PRESSED
      /\ KeyMessage.id = MSG_ID_KEY_PRESSED /\ KeyMessage.context = press
  BY DEF Digit, KeyMessage, Message, MSG_ID_UPDATE_7SEG, MSG_ID_KEY_PRESSED
<1>5. CASE queue = <<Digit(press), KeyMessage>>
  <2>1. Head(queue) = Digit(press) /\ queue' = <<KeyMessage>>
    BY <1>1, <1>5
  <2>2. OnItsWay /\ OnItsWay' /\ reported' = reported
    BY <1>1, <1>4, <1>5, <2>1 DEF OnItsWay, KeyMessage
  <2>3. Once'
    BY <1>1, <2>2 DEF KeypadInv, Once
  <2> QED BY <1>3, <2>3 DEF KeypadInv
<1>6. CASE queue = <<KeyMessage>>
  <2>1. Head(queue) = KeyMessage /\ queue' = <<>>
    BY <1>1, <1>6
  <2>2. key_state = "KEY_PRESSED" /\ reported = <<>>
    BY <1>6 DEF KeypadInv, Once, OnItsWay
  <2>3. reported' = <<press>>
    BY <1>1, <1>4, <2>1, <2>2
  <2>4. ~OnItsWay'
    BY <2>1 DEF OnItsWay
  <2>5. Once'
    BY <1>1, <2>1, <2>2, <2>3, <2>4 DEF Once
  <2> QED BY <1>3, <2>5 DEF KeypadInv
<1>7. CASE queue = <<Digit(255)>>
  <2>1. Head(queue) = Digit(255) /\ queue' = <<>>
    BY <1>1, <1>7
  <2>2. reported' = reported /\ ~OnItsWay
    BY <1>1, <1>4, <1>7, <2>1, QueueForms
  <2>3. ~OnItsWay'
    BY <2>1 DEF OnItsWay
  <2>4. Once'
    BY <1>1, <2>1, <2>2, <2>3 DEF KeypadInv, Once
  <2> QED BY <1>3, <2>4 DEF KeypadInv
<1> QED BY <1>1, <1>5, <1>6, <1>7 DEF KeypadInv, Once, OnItsWay

LEMMA ContactsStep == KeypadInv /\ Unhurried = TRUE /\ [ContactsNext]_vars => KeypadInv'
<1> SUFFICES ASSUME KeypadInv, Unhurried = TRUE, [ContactsNext]_vars
             PROVE KeypadInv'
  OBVIOUS
<1>1. CASE UNCHANGED vars
  <2>1. UNCHANGED <<key_state, last_pressed, key_timer, column, queue, press, down, bouncing,
                    outlasted, polled, reported>>
    BY <1>1 DEF vars, keypad, contacts
  <2>2. Debounced'
    BY <2>1 DEF KeypadInv, Debounced, PressRead, RowsOf
  <2> QED BY <2>1, <2>2, QuietStep
<1> QED BY <1>1, PressStep, ReleaseStep, SettleStep, ExpiryStep, PollStep, ReportStep
        DEF ContactsNext

\* However a contact bounces when it closes and when it opens, a press of an
\* unhurried operator is posted at most once, as the key it is
\* (KeypadTask::TaskLoop and its debounce timer).
THEOREM PressPostedOnce ==
  ASSUME Unhurried = TRUE
  PROVE  Spec => []PostedOnce
<1>1. KeypadInv => PostedOnce
  BY DEF KeypadInv, Once, PostedOnce
<1>2. KeypadInv /\ [ContactsNext]_vars => KeypadInv'
  BY ContactsStep
<1> QED BY <1>1, <1>2, ContactsStart, PTL DEF Spec
=============================================================================
