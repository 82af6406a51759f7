------------------------- MODULE PeripheralsProofs --------------------------
(***************************************************************************)
(* The bus, for every size of the EEPROM, of its pages and of the blocks   *)
(* it programs, whatever calls are made and however the transfers fail.    *)
(*                                                                         *)
(* The argument.  A transfer knows how far it has come (idx), and so does  *)
(* the slave: what it has received is a beginning of what the master sends *)
(* (Prefix), and its pointer is as far into the page, or the registers, as *)
(* the master has read (PageRead, RegistersRead).  As a write starts at    *)
(* the start of a page and is not longer than one, the buffer of the       *)
(* EEPROM never wraps around in its block (Buffered).  The date that was   *)
(* set is in the clock's registers until it is set again (DateStored).     *)
(*                                                                         *)
(* From this invariant follow the types; that a date survives its way to   *)
(* the registers and back; and, one action after the other, that each step *)
(* is one of the abstract store of pages or is not seen by it.             *)
(***************************************************************************)
EXTENDS Peripherals, SequenceTheorems, TLAPS

Octet == 0..255
Bytes == 0..(ByteSize - 1)
Devices == {E2_IIC_ADDRESS, RTC_IIC_ADDRESS}
Pages == 0..E2_LAST_ADDRESS

Clock == slave[RTC_IIC_ADDRESS]

-----------------------------------------------------------------------------
(* The inductive invariant.                                                *)

Eeproms == [cells : [1..E2Cells -> Bytes], addressing : {2}, block : {DeviceBlock},
            pointer : 0..(E2Cells - 1), received : Seq(Bytes),
            programming : BOOLEAN, sending : BOOLEAN]
Clocks == [cells : [1..7 -> Octet], addressing : {1}, block : {0},
           pointer : 0..6, received : Seq(Octet),
           programming : {FALSE}, sending : BOOLEAN]

DeviceTypes == /\ slave = [a \in Devices |-> slave[a]]
               /\ E2 \in Eeproms /\ Clock \in Clocks

\* How far the transfer has come.
Transferring ==
  /\ phase \in {"idle", "start", "address", "byte", "stop"}
  /\ rw \in {"write", "read"} /\ rc \in {0, -2}
  /\ n \in Nat /\ idx \in 0..n
  /\ phase = "idle" => rw = "write" /\ bytes = <<>> /\ n = 0 /\ rc = 0
  /\ phase # "idle" => n > 0
  /\ phase \in {"start", "address"} => idx = 0 /\ rc = 0
  /\ phase = "byte" => idx < n /\ rc = 0
  /\ phase = "stop" /\ rc = 0 => idx = n
  /\ rw = "write" => bytes \in Seq(Octet) /\ n = Len(bytes)
  /\ rw = "read" => bytes \in Seq(Nat) /\ Len(bytes) = idx

\* Whose transfer it is, and what it carries.
E2Transfer ==
  /\ addr = E2_IIC_ADDRESS /\ rtc = "none"
  /\ \/ e2.op = "write" /\ rw = "write" /\ bytes = page_address(e2.page) \o e2.data
     \/ e2.op = "point" /\ rw = "write" /\ bytes = page_address(e2.page)
     \/ e2.op = "read" /\ rw = "read" /\ n = e2.length

RTCTransfer ==
  /\ addr = RTC_IIC_ADDRESS /\ e2 = NoCall
  /\ \/ rtc = "construct" /\ rw = "write" /\ bytes = <<0, 128>>
     \/ /\ rtc = "set" /\ rw = "write"
        /\ rtc_result.date \in Dates /\ Sensible(rtc_result.date)
        /\ \E weekday \in Weekdays : bytes = <<0>> \o Registers(rtc_result.date, weekday)
     \/ rtc = "point" /\ rw = "write" /\ bytes = <<0>>
     \/ rtc = "get" /\ rw = "read" /\ n = 7

Calling ==
  /\ \/ e2 = NoCall
     \/ /\ e2 \in [op : {"write", "point", "read"}, page : Pages, data : Seq(Bytes),
                   length : 1..E2_PAGE_SIZE]
        /\ e2.op = "write" => e2.length = Len(e2.data)
  /\ IF phase = "idle"
       THEN \/ e2 = NoCall /\ rtc \in {"none", "construct", "get"}
            \/ e2.op = "read" /\ rtc = "none"
       ELSE E2Transfer \/ RTCTransfer

\* A slave sends as long as the master reads bytes of it, and perhaps still when the
\* master has given up.
Reading(a) == phase = "byte" /\ rw = "read" /\ addr = a
GivenUp(a) == phase = "stop" /\ rc # 0 /\ rw = "read" /\ addr = a
Sending == \A a \in Devices : /\ Reading(a) => slave[a].sending
                              /\ slave[a].sending => Reading(a) \/ GivenUp(a)

\* What a slave has received is a beginning of what is sent to it.
SentTo(a) == phase \in {"byte", "stop"} /\ rw = "write" /\ addr = a
Beginning(s) == /\ Len(s.received) <= n
                /\ \A i \in 1..Len(s.received) : s.received[i] = bytes[i]
                /\ rc = 0 => Len(s.received) = idx
Prefix == /\ SentTo(E2_IIC_ADDRESS) /\ ~E2.programming => Beginning(E2)
          /\ SentTo(E2_IIC_ADDRESS) /\ E2.programming => rc # 0
          /\ SentTo(RTC_IIC_ADDRESS) => Beginning(Clock)
          /\ ~SentTo(E2_IIC_ADDRESS) /\ ~E2.programming => E2.received = <<>>
          /\ ~SentTo(RTC_IIC_ADDRESS) => Clock.received = <<>>

\* The page that is in the buffer, or the one that is addressed.
InPage(page) == E2.pointer = page * E2_PAGE_SIZE
Buffered ==
  /\ S!Data(E2) # <<>> => \E page \in Pages : InPage(page) /\ Len(S!Data(E2)) <= E2_PAGE_SIZE
  /\ E2.programming => S!Data(E2) # <<>>
  /\ SentTo(E2_IIC_ADDRESS) /\ ~E2.programming /\ Len(E2.received) >= 2 => InPage(e2.page)

\* memory_read: the pointer, and the bytes that were read.
PageRead ==
  e2.op = "read" =>
    LET start == e2.page * E2_PAGE_SIZE
    IN  /\ ~E2.programming
        /\ phase # "stop" => E2.pointer = start + idx
        /\ phase # "idle" => \A k \in 1..idx : bytes[k] = E2.cells[start + k]

\* set_date and get_date: the registers that were written, and read.
Flagged(r) == IF r = Month /\ Leap(FromBCDYear(Clock.cells[7])) THEN Clock.cells[r] + 32
                                                                ELSE Clock.cells[r]
RegistersWritten ==
  /\ rtc = "set" /\ SentTo(RTC_IIC_ADDRESS) /\ rc = 0 /\ idx > 0 =>
       /\ Clock.pointer = (idx - 1) % 7
       /\ \A k \in 1..(idx - 1) : Clock.cells[k] = bytes[k + 1]
  /\ rtc = "point" /\ SentTo(RTC_IIC_ADDRESS) /\ rc = 0 /\ idx > 0 => Clock.pointer = 0

RegistersRead ==
  rtc = "get" => /\ phase # "stop" => Clock.pointer = idx
                 /\ phase # "idle" => \A k \in 1..idx : bytes[k] = Flagged(k)

\* What the clock was set to is in its registers.
DateStored ==
  clock_date # NoDate =>
    /\ rtc \in {"none", "point", "get"}
    /\ clock_date \in Dates /\ Sensible(clock_date)
    /\ \E weekday \in Weekdays : \A r \in 1..7 :
         Clock.cells[r] = Registers(clock_date, weekday)[r]

IInv == /\ DeviceTypes /\ Transferring /\ Calling /\ Sending
        /\ Prefix /\ Buffered /\ PageRead
        /\ RegistersWritten /\ RegistersRead /\ DateStored

\* Division by a divisor that is not known.
LEMMA Division ==
  ASSUME NEW m \in Nat \ {0}, NEW x \in Int
  PROVE  x \div m \in Int /\ x % m \in 0..(m - 1) /\ x = (x \div m) * m + (x % m)
<1>1. ASSUME NEW b \in Nat \ {0}, NEW y \in Int
      PROVE  y \div b \in Int /\ y % b \in 0..(b - 1) /\ y = b * (y \div b) + (y % b)
  BY <1>1, Z3
<1>2. ASSUME NEW b \in Nat, NEW q \in Int
      PROVE  b * q = q * b
  OBVIOUS
<1> QED BY <1>1, <1>2

LEMMA Times ==
  ASSUME NEW m \in Nat, NEW a \in Int, NEW b \in Int, a <= b
  PROVE  a * m \in Int /\ b * m \in Int /\ a * m <= b * m
<1>1. ASSUME NEW k \in Nat, NEW d \in Nat PROVE k * d \in Nat
  OBVIOUS
<1>2. b - a \in Nat /\ (b - a) * m = b * m - a * m
  OBVIOUS
<1>3. (b - a) * m \in Nat
  BY <1>1, <1>2
<1> QED BY <1>2, <1>3

LEMMA Quotient ==
  ASSUME NEW m \in Nat \ {0}, NEW q \in Int, NEW i \in 0..(m - 1)
  PROVE  (q * m + i) \div m = q /\ (q * m + i) % m = i
<1> DEFINE x == q * m + i
           p == x \div m
<1>1. q * m \in Int /\ x \in Int
  OBVIOUS
<1>2. p \in Int /\ x % m \in 0..(m - 1) /\ x = p * m + (x % m)
  BY <1>1, Division
<1>3. p * m \in Int
  BY <1>2
<1>4. ~(p < q)
  <2>1. ASSUME p < q PROVE FALSE
    <3>1. (p + 1) * m <= q * m
      BY <1>2, <2>1, Times
    <3>2. (p + 1) * m = p * m + m
      BY <1>2
    <3> HIDE DEF p
    <3> QED BY <1>1, <1>2, <1>3, <3>1, <3>2
  <2> QED BY <2>1
<1>5. ~(q < p)
  <2>1. ASSUME q < p PROVE FALSE
    <3>1. (q + 1) * m <= p * m
      BY <1>2, <2>1, Times
    <3>2. (q + 1) * m = q * m + m
      OBVIOUS
    <3> HIDE DEF p
    <3> QED BY <1>1, <1>2, <1>3, <3>1, <3>2
  <2> QED BY <2>1
<1>6. p = q
  BY <1>2, <1>4, <1>5
<1> QED BY <1>1, <1>2, <1>3, <1>6

\* The pages fill the EEPROM.
LEMMA Sizes ==
  /\ E2_PAGE_SIZE \in Nat \ {0} /\ ByteSize \in Nat \ {0} /\ E2_LAST_ADDRESS \in Nat
  /\ E2Cells \in Nat \ {0} /\ E2Cells <= ByteSize * ByteSize /\ ByteSize * ByteSize \in Nat
  /\ E2Cells = (E2_LAST_ADDRESS + 1) * E2_PAGE_SIZE
<1>1. E2_PAGE_SIZE \in Nat \ {0} /\ ByteSize \in Nat \ {0} /\ ByteSize * ByteSize \in Nat
  BY E2Assumption
<1>2. E2_MEMORY_SIZE \in Nat /\ E2_MEMORY_SIZE + 1 <= ByteSize * ByteSize
  BY <1>1, E2Assumption
<1> DEFINE m == E2_PAGE_SIZE
           q == E2_LAST_ADDRESS
<1>3. /\ q \in Int /\ E2_MEMORY_SIZE % m \in 0..(m - 1)
      /\ E2_MEMORY_SIZE = q * m + (E2_MEMORY_SIZE % m)
  BY <1>1, <1>2, Division DEF E2_LAST_ADDRESS
<1>4. q \in Nat
  <2>1. ASSUME q < 0 PROVE FALSE
    <3>1. (q + 1) * m <= 0 * m
      BY <1>1, <1>3, <2>1, Times
    <3>2. (q + 1) * m = q * m + m /\ 0 * m = 0
      BY <1>1, <1>3
    <3>3. q * m \in Int
      BY <1>1, <1>3
    <3> HIDE DEF q
    <3> QED BY <1>1, <1>2, <1>3, <3>1, <3>2, <3>3
  <2> QED BY <1>3, <2>1
<1>5. E2Cells = (q + 1) * m
  <2> DEFINE r == E2_MEMORY_SIZE % m
             d == E2Cells \div m
  <2>0. r \in 0..(m - 1)
    BY <1>3
  <2>1. E2Cells \in Int /\ E2Cells % m = 0
    BY <1>2, DeviceAssumption DEF E2Cells
  <2>2. d \in Int /\ E2Cells = d * m
    BY <1>1, <2>1, Division
  <2>3. d * m = q * m + (r + 1) /\ d * m \in Int /\ q * m \in Int
    BY <1>1, <1>3, <2>2 DEF E2Cells
  <2>4. (q + 1) * m = q * m + m
    BY <1>1, <1>3
  <2>5. ~(d <= q)
    <3>1. d <= q => d * m <= q * m
      BY <1>1, <1>3, <2>2, Times
    <3> HIDE DEF d, r, q
    <3> QED BY <1>1, <1>3, <2>0, <2>2, <2>3, <3>1
  <2>6. (q + 1) * m <= d * m
    <3>1. q + 1 <= d /\ q + 1 \in Int
      BY <1>3, <2>2, <2>5
    <3> QED BY <1>1, <2>2, <3>1, Times
  <2> HIDE DEF d, r, q
  <2> QED BY <1>1, <1>3, <2>0, <2>2, <2>3, <2>4, <2>6
<1> QED BY <1>1, <1>2, <1>4, <1>5 DEF E2Cells

LEMMA PageFits ==
  ASSUME NEW page \in Pages
  PROVE  /\ page * E2_PAGE_SIZE \in Nat
         /\ page * E2_PAGE_SIZE + E2_PAGE_SIZE <= E2Cells
<1>1. page \in Nat /\ page + 1 <= E2_LAST_ADDRESS + 1 /\ page * E2_PAGE_SIZE \in Nat
  BY Sizes DEF Pages
<1>2. (page + 1) * E2_PAGE_SIZE <= (E2_LAST_ADDRESS + 1) * E2_PAGE_SIZE
  BY <1>1, Sizes, Times
<1>3. (page + 1) * E2_PAGE_SIZE = page * E2_PAGE_SIZE + E2_PAGE_SIZE
  BY <1>1, Sizes
<1> QED BY <1>1, <1>2, <1>3, Sizes

LEMMA CellOfPage ==
  ASSUME NEW page \in Pages, NEW i \in 0..(E2_PAGE_SIZE - 1)
  PROVE  page * E2_PAGE_SIZE + i \in 0..(E2Cells - 1)
BY PageFits, Sizes

\* The cell of an address belongs to one page.
LEMMA OnePage ==
  ASSUME NEW page \in Pages, NEW other \in Pages, page # other,
         NEW i \in 0..(E2_PAGE_SIZE - 1), NEW k \in 0..(E2_PAGE_SIZE - 1)
  PROVE  page * E2_PAGE_SIZE + i # other * E2_PAGE_SIZE + k
<1>1. (page * E2_PAGE_SIZE + i) \div E2_PAGE_SIZE = page
  BY Quotient, Sizes DEF Pages
<1>2. (other * E2_PAGE_SIZE + k) \div E2_PAGE_SIZE = other
  BY Quotient, Sizes DEF Pages
<1> QED BY <1>1, <1>2

LEMMA Addressed ==
  ASSUME NEW page \in Pages
  PROVE  /\ page_address(page) \in Seq(0..(ByteSize - 1)) /\ Len(page_address(page)) = 2
         /\ page_address(page)[1] * ByteSize + page_address(page)[2] = page * E2_PAGE_SIZE
         /\ (page * E2_PAGE_SIZE) % E2Cells = page * E2_PAGE_SIZE
<1> DEFINE a == page * E2_PAGE_SIZE
           w == ByteSize * ByteSize
           high == a \div ByteSize
           low == a % ByteSize
<1>1. a \in Nat /\ a < E2Cells /\ a < w /\ w \in Nat \ {0}
  BY PageFits, Sizes
<1>2. a % w = a /\ a % E2Cells = a
  <2>1. ASSUME NEW m \in Nat \ {0}, NEW x \in 0..(m - 1) PROVE x % m = x
    BY <2>1
  <2> HIDE DEF a, w
  <2> QED BY <1>1, <2>1, Sizes
<1>3. high \in Int /\ low \in 0..(ByteSize - 1) /\ a = high * ByteSize + low
  <2> HIDE DEF a
  <2> QED BY <1>1, Sizes, Division
<1>4. high \in 0..(ByteSize - 1)
  <2> HIDE DEF high, low, a
  <2>0. high * ByteSize \in Int
    BY <1>3, Sizes
  <2>1. high >= 0
    <3>1. high < 0 => (high + 1) * ByteSize <= 0 * ByteSize
      BY <1>3, Sizes, Times
    <3>2. (high + 1) * ByteSize = high * ByteSize + ByteSize /\ 0 * ByteSize = 0
      BY <1>3, Sizes
    <3> QED BY <1>1, <1>3, <2>0, <3>1, <3>2, Sizes
  <2>2. high < ByteSize
    <3>1. ByteSize <= high => ByteSize * ByteSize <= high * ByteSize
      BY <1>3, Sizes, Times
    <3> QED BY <1>1, <1>3, <2>0, <3>1, Sizes
  <2> QED BY <1>3, <2>1, <2>2, Sizes
<1>5. page_address(page) = <<high, low>>
  BY <1>2 DEF page_address
<1> HIDE DEF high, low, a, w
<1>6. <<high, low>> \in Seq(0..(ByteSize - 1))
  BY <1>3, <1>4
<1> QED BY <1>2, <1>3, <1>5, <1>6 DEF a

\* A page is programmed as a whole: its cells belong to one block.
LEMMA Blocks ==
  ASSUME NEW page \in Pages, NEW i \in 0..(E2_PAGE_SIZE - 1)
  PROVE  /\ (page * E2_PAGE_SIZE + i) \div DeviceBlock = page \div (DeviceBlock \div E2_PAGE_SIZE)
         /\ ((page * E2_PAGE_SIZE + i) % DeviceBlock) + E2_PAGE_SIZE <= DeviceBlock + i
<1> DEFINE k == DeviceBlock \div E2_PAGE_SIZE
           b == page \div k
           j == page % k
<1>1. DeviceBlock \in Nat \ {0} /\ DeviceBlock % E2_PAGE_SIZE = 0
  BY DeviceAssumption
<1>2. k \in Int /\ DeviceBlock = k * E2_PAGE_SIZE
  BY <1>1, Sizes, Division
<1>3. k \in Nat \ {0}
  <2>1. k <= 0 => k * E2_PAGE_SIZE <= 0 * E2_PAGE_SIZE
    BY <1>2, Sizes, Times
  <2>2. 0 * E2_PAGE_SIZE = 0
    BY Sizes
  <2> HIDE DEF k
  <2> QED BY <1>1, <1>2, <2>1, <2>2
<1>4. b \in Int /\ j \in 0..(k - 1) /\ page = b * k + j
  <2> HIDE DEF k
  <2> QED BY <1>3, Division DEF Pages
<1> HIDE DEF k, b, j
<1>5. page * E2_PAGE_SIZE = b * DeviceBlock + j * E2_PAGE_SIZE
  <2>1. (b * k + j) * E2_PAGE_SIZE = (b * k) * E2_PAGE_SIZE + j * E2_PAGE_SIZE
    BY <1>3, <1>4, Sizes
  <2>2. (b * k) * E2_PAGE_SIZE = b * (k * E2_PAGE_SIZE)
    BY <1>3, <1>4, Sizes
  <2> QED BY <1>2, <1>4, <2>1, <2>2
<1>6. j * E2_PAGE_SIZE \in Nat /\ j * E2_PAGE_SIZE + E2_PAGE_SIZE <= DeviceBlock
  <2>1. (j + 1) * E2_PAGE_SIZE <= k * E2_PAGE_SIZE
    <3>1. j + 1 \in Int /\ j + 1 <= k
      BY <1>3, <1>4
    <3> QED BY <1>3, <3>1, Sizes, Times
  <2>2. (j + 1) * E2_PAGE_SIZE = j * E2_PAGE_SIZE + E2_PAGE_SIZE
    BY <1>4, Sizes
  <2>3. j * E2_PAGE_SIZE \in Nat
    BY <1>3, <1>4, Sizes
  <2> QED BY <1>2, <2>1, <2>2, <2>3
<1>7. j * E2_PAGE_SIZE + i \in 0..(DeviceBlock - 1)
  BY <1>1, <1>6, Sizes
<1>8. page * E2_PAGE_SIZE + i = b * DeviceBlock + (j * E2_PAGE_SIZE + i)
  <2>1. b * DeviceBlock \in Int
    BY <1>1, <1>4
  <2> QED BY <1>5, <1>6, <2>1, Sizes
<1>9. /\ (b * DeviceBlock + (j * E2_PAGE_SIZE + i)) \div DeviceBlock = b
      /\ (b * DeviceBlock + (j * E2_PAGE_SIZE + i)) % DeviceBlock = j * E2_PAGE_SIZE + i
  BY <1>1, <1>4, <1>7, Quotient
<1>10. b = page \div k
  BY DEF b
<1> QED BY <1>1, <1>6, <1>8, <1>9, <1>10, Sizes DEF k

\* How far behind the start of a page a cell of its block is, going round at the
\* end of the block.
LEMMA Behind ==
  ASSUME NEW page \in Pages, NEW c \in Nat,
         c \div DeviceBlock = (page * E2_PAGE_SIZE) \div DeviceBlock
  PROVE  LET from == (c - page * E2_PAGE_SIZE) % DeviceBlock
         IN  IF page * E2_PAGE_SIZE <= c THEN from = c - page * E2_PAGE_SIZE
                                         ELSE from >= E2_PAGE_SIZE /\ from \in Int
<1> DEFINE m == DeviceBlock
           start == page * E2_PAGE_SIZE
           b == c \div m
           r == c % m
           t == start % m
<1>1. m \in Nat \ {0} /\ start \in Nat
  BY DeviceAssumption, PageFits
<1>2. 0 \in 0..(E2_PAGE_SIZE - 1) /\ start + 0 = start
  BY <1>1, Sizes
<1>3. t + E2_PAGE_SIZE <= m
  <2>1. ((start + 0) % m) + E2_PAGE_SIZE <= m + 0
    BY <1>2, Blocks
  <2> HIDE DEF start
  <2> QED BY <1>1, <1>2, <2>1
<1>4. /\ b \in Int /\ b * m \in Int
      /\ r \in 0..(m - 1) /\ t \in 0..(m - 1)
      /\ c = b * m + r /\ start = b * m + t
  <2>1. c \div m \in Int /\ c % m \in 0..(m - 1) /\ c = (c \div m) * m + (c % m)
    BY <1>1, Division
  <2>2. start % m \in 0..(m - 1) /\ start = (start \div m) * m + (start % m)
    <3> HIDE DEF start
    <3> QED BY <1>1, Division
  <2>3. (c \div m) * m \in Int
    BY <1>1, <2>1
  <2> HIDE DEF start
  <2> QED BY <2>1, <2>2, <2>3 DEF start
<1>5. ASSUME NEW w \in Nat \ {0}, NEW x \in Int
      PROVE  /\ x \in 0..(w - 1) => x % w = x
             /\ x \in (-w)..(-1) => x % w = x + w
  BY <1>5
<1> HIDE DEF b, r, t, m, start
<1>6. c - start \in Int /\ c - start = r - t
  BY <1>1, <1>4
<1>7. CASE start <= c
  <2>1. c - start \in 0..(m - 1)
    BY <1>1, <1>4, <1>6, <1>7
  <2>2. (c - start) % m = c - start
    BY <1>1, <1>5, <1>6, <2>1
  <2> QED BY <1>7, <2>2 DEF start, m
<1>8. CASE ~(start <= c)
  <2>1. c - start \in (-m)..(-1)
    BY <1>1, <1>4, <1>6, <1>8
  <2>2. (c - start) % m = (c - start) + m
    BY <1>1, <1>5, <1>6, <2>1
  <2>3. (c - start) + m >= E2_PAGE_SIZE /\ (c - start) + m \in Int
    BY <1>1, <1>3, <1>4, <1>6, Sizes
  <2> QED BY <1>8, <2>2, <2>3 DEF start, m
<1> QED BY <1>7, <1>8

-----------------------------------------------------------------------------
(* The devices.                                                            *)

\* What has been received beyond the address.
LEMMA DataIs ==
  ASSUME NEW s \in Eeproms
  PROVE  /\ S!Data(s) \in Seq(Bytes)
         /\ Len(S!Data(s)) = IF Len(s.received) >= 2 THEN Len(s.received) - 2 ELSE 0
         /\ \A i \in 1..(Len(s.received) - 2) : S!Data(s)[i] = s.received[i + 2]
         /\ S!Data(s) = <<>> <=> Len(s.received) <= 2
<1>1. s.received \in Seq(Bytes) /\ s.addressing = 2 /\ Len(s.received) \in Nat
  BY DEF Eeproms
<1>2. S!Data(s) = SubSeq(s.received, 3, Len(s.received))
  BY <1>1 DEF S!Data
<1>3. CASE Len(s.received) >= 2
  <2>1. 3 \in 1..(Len(s.received) + 1) /\ Len(s.received) \in (3 - 1)..Len(s.received)
    BY <1>1, <1>3
  <2>2. /\ S!Data(s) \in Seq(Bytes) /\ Len(S!Data(s)) = Len(s.received) - 3 + 1
        /\ \A i \in 1..(Len(s.received) - 3 + 1) : S!Data(s)[i] = s.received[3 + i - 1]
    BY <1>1, <1>2, <2>1, SubSeqProperties
  <2>3. S!Data(s) = <<>> <=> Len(S!Data(s)) = 0
    BY <2>2, EmptySeq
  <2> QED BY <1>1, <1>3, <2>2, <2>3
<1>4. CASE ~(Len(s.received) >= 2)
  <2>1. SubSeq(s.received, 3, Len(s.received)) = <<>>
    BY <1>1, <1>4
  <2> QED BY <1>1, <1>2, <1>4, <2>1, EmptySeq
<1> QED BY <1>3, <1>4

\* The buffer holds a beginning of a page: it does not go round in its block.
LEMMA OverlaidIs ==
  ASSUME NEW s \in Eeproms, NEW page \in Pages,
         s.pointer = page * E2_PAGE_SIZE, Len(S!Data(s)) <= E2_PAGE_SIZE
  PROVE  S!Overlaid(s) =
           [c \in 1..E2Cells |->
              IF c - page * E2_PAGE_SIZE \in 1..Len(S!Data(s))
                THEN S!Data(s)[c - page * E2_PAGE_SIZE] ELSE s.cells[c]]
<1> DEFINE start == page * E2_PAGE_SIZE
           data == S!Data(s)
           From(c) == ((c - 1 - s.pointer) % s.block) + 1
<1>1. /\ s.cells \in [1..E2Cells -> Bytes] /\ S!Size(s) = E2Cells
      /\ s.block = DeviceBlock /\ s.block > 0
      /\ data \in Seq(Bytes) /\ Len(data) \in Nat
  <2>1. s.cells \in [1..E2Cells -> Bytes] /\ s.block = DeviceBlock /\ data \in Seq(Bytes)
    BY DataIs DEF Eeproms
  <2>2. Len(s.cells) = E2Cells
    BY <2>1, Sizes
  <2> QED BY <2>1, <2>2, DeviceAssumption DEF S!Size
<1>2. start \in Nat /\ start + E2_PAGE_SIZE <= E2Cells
  BY PageFits
<1>3. CASE data = <<>>
  <2>1. S!Overlaid(s) = s.cells
    BY <1>3 DEF S!Overlaid
  <2>2. \A x : x \notin 1..Len(data)
    BY <1>3
  <2> HIDE DEF data, start
  <2>3. s.cells = [c \in 1..E2Cells |->
                     IF c - start \in 1..Len(data) THEN data[c - start] ELSE s.cells[c]]
    BY <1>1, <2>2
  <2> QED BY <2>1, <2>3 DEF data, start
<1>4. CASE data # <<>>
  <2>1. S!Overlaid(s) = [c \in 1..E2Cells |-> IF S!InBlock(s, c - 1) /\ From(c) <= Len(data)
                                                THEN data[From(c)] ELSE s.cells[c]]
    BY <1>1, <1>4 DEF S!Overlaid
  <2>2. ASSUME NEW c \in 1..E2Cells
        PROVE  /\ S!InBlock(s, c - 1) /\ From(c) <= Len(data) <=> c - start \in 1..Len(data)
               /\ c - start \in 1..Len(data) => From(c) = c - start
    <3>1. S!InBlock(s, c - 1) <=> (c - 1) \div DeviceBlock = start \div DeviceBlock
      BY <1>1 DEF S!InBlock
    <3>2. From(c) = (((c - 1) - start) % DeviceBlock) + 1
      BY <1>1
    <3>3. c - 1 \in Nat /\ c \in Nat
      BY <2>2, Sizes
    <3>4. CASE c - start \in 1..Len(data)
      <4>1. (c - 1) - start \in 0..(E2_PAGE_SIZE - 1) /\ start + ((c - 1) - start) = c - 1
        BY <1>1, <1>2, <3>3, <3>4, Sizes
      <4>2. 0 \in 0..(E2_PAGE_SIZE - 1) /\ start + 0 = start
        BY <1>2, Sizes
      <4>3. (c - 1) \div DeviceBlock = start \div DeviceBlock
        <5>1. (start + ((c - 1) - start)) \div DeviceBlock = (start + 0) \div DeviceBlock
          BY <4>1, <4>2, Blocks
        <5> QED BY <4>1, <4>2, <5>1
      <4>4. ((c - 1) - start) % DeviceBlock = (c - 1) - start
        <5>1. start <= c - 1
          BY <1>2, <3>3, <4>1
        <5> QED BY <3>3, <4>3, <5>1, Behind
      <4>5. From(c) = c - start
        BY <1>2, <3>2, <3>3, <4>4
      <4> HIDE DEF From
      <4> QED BY <3>1, <3>4, <4>3, <4>5, <1>1
    <3>5. CASE ~(c - start \in 1..Len(data)) /\ S!InBlock(s, c - 1)
      <4>1. (c - 1) \div DeviceBlock = start \div DeviceBlock
        BY <3>1, <3>5
      <4> DEFINE from == ((c - 1) - start) % DeviceBlock
      <4>2. IF start <= c - 1 THEN from = (c - 1) - start ELSE from >= E2_PAGE_SIZE /\ from \in Int
        BY <3>3, <4>1, Behind
      <4>3. From(c) = from + 1
        BY <3>2
      <4> HIDE DEF From, from
      <4>4. ~(From(c) <= Len(data))
        BY <1>1, <1>2, <3>3, <3>5, <4>2, <4>3, Sizes
      <4> QED BY <3>5, <4>4
    <3> QED BY <3>4, <3>5
  <2> HIDE DEF data, start, From
  <2>3. [c \in 1..E2Cells |-> IF S!InBlock(s, c - 1) /\ From(c) <= Len(data)
                                THEN data[From(c)] ELSE s.cells[c]]
        = [c \in 1..E2Cells |-> IF c - start \in 1..Len(data) THEN data[c - start] ELSE s.cells[c]]
    BY <2>2
  <2> QED BY <2>1, <2>3 DEF data, start
<1> QED BY <1>3, <1>4

\* Nothing is in the buffer.
LEMMA OverlaidEmpty ==
  ASSUME NEW s, S!Data(s) = <<>>
  PROVE  S!Overlaid(s) = s.cells
BY DEF S!Overlaid

\* A byte arrives at the EEPROM.
LEMMA EepromReceives ==
  ASSUME NEW s \in Eeproms, NEW b \in Bytes
  PROVE  /\ S!Received(s, b) \in Eeproms
         /\ S!Received(s, b).received = Append(s.received, b)
         /\ S!Received(s, b).cells = s.cells
         /\ S!Received(s, b).programming = s.programming
         /\ S!Received(s, b).sending = s.sending
         /\ S!Received(s, b).pointer = IF Len(s.received) = 1
                                         THEN (s.received[1] * ByteSize + b) % E2Cells
                                         ELSE s.pointer
<1> DEFINE k == Len(s.received)
           to == (s.received[1] * ByteSize + b) % E2Cells
           got == [s EXCEPT !.received = Append(@, b)]
<1>1. s.addressing = 2 /\ s.block > 0 /\ S!Size(s) = E2Cells
  <2>1. s.cells \in [1..E2Cells -> Bytes] /\ s.block = DeviceBlock /\ s.addressing = 2
    BY DEF Eeproms
  <2>2. Len(s.cells) = E2Cells
    BY <2>1, Sizes
  <2> QED BY <2>1, <2>2, DeviceAssumption DEF S!Size
<1>2. k \in Nat /\ Append(s.received, b) \in Seq(Bytes) /\ s.received \in Seq(Bytes)
  <2>1. s.received \in Seq(Bytes)
    BY DEF Eeproms
  <2> QED BY <2>1, AppendProperties
<1>3. got \in Eeproms
  BY <1>2 DEF Eeproms
<1>4. CASE k = 1
  <2>1. S!Received(s, b) = [got EXCEPT !.pointer = to]
    BY <1>1, <1>4 DEF S!Received
  <2>2. to \in 0..(E2Cells - 1)
    <3>1. s.received[1] \in Nat /\ b \in Nat
      <4>1. s.received[1] \in Bytes
        BY <1>2, <1>4
      <4> QED BY <4>1, Sizes DEF Bytes
    <3>2. s.received[1] * ByteSize + b \in Int
      BY <3>1, Sizes
    <3> QED BY <3>2, Sizes, Division
  <2> HIDE DEF to
  <2>3. [got EXCEPT !.pointer = to] \in Eeproms
    BY <1>2, <2>2 DEF Eeproms
  <2> QED BY <1>2, <1>4, <2>1, <2>3 DEF Eeproms, to
<1>5. CASE k # 1
  <2>1. S!Received(s, b) = got
    <3>1. k + 1 < 2 \/ k >= 2
      <4> HIDE DEF k
      <4> QED BY <1>2, <1>5
    <3>2. ~(k + 1 = 2)
      <4> HIDE DEF k
      <4> QED BY <1>2, <1>5
    <3> QED BY <1>1, <3>1, <3>2 DEF S!Received
  <2> QED BY <1>2, <1>3, <1>5, <2>1 DEF Eeproms
<1> QED BY <1>4, <1>5

\* A byte arrives at the clock: the first one is the pointer.
LEMMA ClockReceives ==
  ASSUME NEW s \in Clocks, NEW b \in Octet
  PROVE  /\ S!Received(s, b) \in Clocks
         /\ S!Received(s, b).received = Append(s.received, b)
         /\ S!Received(s, b).sending = s.sending
         /\ IF s.received = <<>>
              THEN S!Received(s, b).pointer = b % 7 /\ S!Received(s, b).cells = s.cells
              ELSE /\ S!Received(s, b).pointer = (s.pointer + 1) % 7
                   /\ S!Received(s, b).cells = [s.cells EXCEPT ![s.pointer + 1] = b]
<1> DEFINE k == Len(s.received)
           got == [s EXCEPT !.received = Append(@, b)]
<1>1. s.addressing = 1 /\ ~(s.block > 0) /\ S!Size(s) = 7 /\ s.cells \in [1..7 -> Octet]
  <2>1. s.cells \in [1..7 -> Octet] /\ s.block = 0 /\ s.addressing = 1
    BY DEF Clocks
  <2>2. Len(s.cells) = 7
    BY <2>1
  <2> QED BY <2>1, <2>2 DEF S!Size
<1>2. k \in Nat /\ Append(s.received, b) \in Seq(Octet) /\ (k = 0 <=> s.received = <<>>)
  <2>1. s.received \in Seq(Octet)
    BY DEF Clocks
  <2> QED BY <2>1, AppendProperties, EmptySeq
<1>3. got \in Clocks
  BY <1>2 DEF Clocks
<1>4. CASE k = 0
  <2>1. S!Received(s, b) = [got EXCEPT !.pointer = b % 7]
    BY <1>1, <1>4 DEF S!Received
  <2>2. b % 7 \in 0..6
    BY DEF Octet
  <2>3. [got EXCEPT !.pointer = b % 7] \in Clocks
    BY <1>2, <2>2 DEF Clocks
  <2> QED BY <1>2, <1>4, <2>1, <2>3 DEF Clocks
<1>5. CASE k # 0
  <2> DEFINE next == (s.pointer + 1) % 7
  <2>1. S!Received(s, b) = [got EXCEPT !.cells[s.pointer + 1] = b, !.pointer = next]
    <3>1. ~(k + 1 < 1) /\ ~(k + 1 = 1)
      BY <1>2, <1>5
    <3> QED BY <1>1, <3>1 DEF S!Received
  <2>2. next \in 0..6 /\ s.pointer \in 0..6
    BY DEF Clocks
  <2>3. [s.cells EXCEPT ![s.pointer + 1] = b] \in [1..7 -> Octet]
    BY <1>1, <2>2
  <2>4. [got EXCEPT !.cells[s.pointer + 1] = b, !.pointer = next] \in Clocks
    BY <1>2, <2>2, <2>3 DEF Clocks
  <2> QED BY <1>2, <1>5, <2>1, <2>4 DEF Clocks
<1> QED BY <1>4, <1>5

-----------------------------------------------------------------------------
(* What is sent.                                                           *)

LEMMA TwoDevices == E2_IIC_ADDRESS # RTC_IIC_ADDRESS /\ Devices = {E2_IIC_ADDRESS, RTC_IIC_ADDRESS}
BY DeviceAssumption DEF Devices

LEMMA BytesAreOctets == Bytes \subseteq Octet /\ Bytes \subseteq Nat
BY Sizes, DeviceAssumption DEF Bytes, Octet

LEMMA OctetsOfBytes == ASSUME NEW s \in Seq(Bytes) PROVE s \in Seq(Octet)
<1>1. s \in [1..Len(s) -> Bytes] /\ Len(s) \in Nat
  BY LenProperties
<1>2. s \in [1..Len(s) -> Octet]
  BY <1>1, BytesAreOctets
<1> QED BY <1>1, <1>2, SeqDef

LEMMA ToE2 ==
  ASSUME Calling, phase # "idle", addr = E2_IIC_ADDRESS
  PROVE  /\ E2Transfer /\ ~RTCTransfer
         /\ e2.op \in {"write", "point", "read"} /\ e2 # NoCall /\ e2.page \in Pages
         /\ e2.length \in 1..E2_PAGE_SIZE /\ e2.data \in Seq(Bytes)
         /\ e2.op = "write" => e2.length = Len(e2.data)
<1>1. E2Transfer /\ ~RTCTransfer
  BY TwoDevices DEF Calling, RTCTransfer
<1>2. e2 # NoCall
  <2>1. e2.op # "none" /\ NoCall.op = "none"
    BY <1>1 DEF E2Transfer, NoCall
  <2> QED BY <2>1
<1> QED BY <1>1, <1>2 DEF Calling

LEMMA ToClock ==
  ASSUME Calling, phase # "idle", addr = RTC_IIC_ADDRESS
  PROVE  RTCTransfer /\ e2 = NoCall /\ e2.op = "none"
<1>1. RTCTransfer
  BY TwoDevices DEF Calling, E2Transfer
<1> QED BY <1>1 DEF RTCTransfer, NoCall

LEMMA OneOfTwo ==
  ASSUME Calling, phase # "idle"
  PROVE  addr = E2_IIC_ADDRESS \/ addr = RTC_IIC_ADDRESS
BY DEF Calling, E2Transfer, RTCTransfer

\* The bytes of a page's address, and those of memory_write.
LEMMA AddressAndData ==
  ASSUME NEW page \in Pages, NEW data \in Seq(Bytes)
  PROVE  LET sent == page_address(page) \o data
         IN  /\ sent \in Seq(Bytes) /\ Len(sent) = 2 + Len(data)
             /\ sent[1] = page_address(page)[1] /\ sent[2] = page_address(page)[2]
             /\ \A i \in 1..Len(data) : sent[i + 2] = data[i]
<1> DEFINE a == page_address(page)
<1>1. a \in Seq(Bytes) /\ Len(a) = 2
  BY Addressed DEF Bytes
<1> HIDE DEF a
<1>2. /\ a \o data \in Seq(Bytes) /\ Len(a \o data) = Len(a) + Len(data)
      /\ \A i \in 1..Len(a) + Len(data) :
           (a \o data)[i] = IF i <= Len(a) THEN a[i] ELSE data[i - Len(a)]
  BY <1>1, ConcatProperties
<1>3. Len(data) \in Nat
  OBVIOUS
<1>4. (a \o data)[1] = a[1] /\ (a \o data)[2] = a[2]
  BY <1>1, <1>2, <1>3
<1>5. ASSUME NEW i \in 1..Len(data) PROVE (a \o data)[i + 2] = data[i]
  <2>1. i + 2 \in 1..Len(a) + Len(data) /\ ~(i + 2 <= Len(a)) /\ (i + 2) - Len(a) = i
    BY <1>1, <1>3
  <2> QED BY <1>2, <2>1
<1> QED BY <1>1, <1>2, <1>4, <1>5 DEF a

LEMMA WrittenToE2 ==
  ASSUME Calling, phase # "idle", addr = E2_IIC_ADDRESS, rw = "write"
  PROVE  /\ bytes \in Seq(Bytes) /\ e2.op \in {"write", "point"} /\ rtc = "none"
         /\ Len(bytes) = IF e2.op = "write" THEN 2 + e2.length ELSE 2
         /\ bytes[1] * ByteSize + bytes[2] = e2.page * E2_PAGE_SIZE
         /\ e2.op = "write" => \A i \in 1..e2.length : bytes[i + 2] = e2.data[i]
<1>1. /\ E2Transfer /\ e2.page \in Pages /\ e2.data \in Seq(Bytes)
      /\ e2.op = "write" => e2.length = Len(e2.data)
  BY ToE2
<1>2. page_address(e2.page)[1] * ByteSize + page_address(e2.page)[2] = e2.page * E2_PAGE_SIZE
  BY <1>1, Addressed
<1>3. CASE e2.op = "write"
  <2>1. bytes = page_address(e2.page) \o e2.data /\ rtc = "none"
    BY <1>1, <1>3 DEF E2Transfer
  <2>2. /\ bytes \in Seq(Bytes) /\ Len(bytes) = 2 + Len(e2.data)
        /\ bytes[1] = page_address(e2.page)[1] /\ bytes[2] = page_address(e2.page)[2]
        /\ \A i \in 1..Len(e2.data) : bytes[i + 2] = e2.data[i]
    BY <1>1, <2>1, AddressAndData
  <2> QED BY <1>1, <1>2, <1>3, <2>1, <2>2
<1>4. CASE e2.op # "write"
  <2>1. bytes = page_address(e2.page) /\ rtc = "none" /\ e2.op = "point"
    BY <1>1, <1>4 DEF E2Transfer
  <2>2. bytes \in Seq(Bytes) /\ Len(bytes) = 2
    BY <1>1, <2>1, Addressed DEF Bytes
  <2> QED BY <1>2, <1>4, <2>1, <2>2
<1> QED BY <1>3, <1>4

\* The registers of a date.
LEMMA RegistersAre ==
  ASSUME NEW d \in Dates, NEW weekday \in Weekdays, Sensible(d)
  PROVE  /\ Registers(d, weekday) \in Seq(Octet) /\ Len(Registers(d, weekday)) = 7
         /\ <<0>> \o Registers(d, weekday) \in Seq(Octet)
         /\ Len(<<0>> \o Registers(d, weekday)) = 8
         /\ (<<0>> \o Registers(d, weekday))[1] = 0
         /\ \A r \in 1..7 : (<<0>> \o Registers(d, weekday))[r + 1] = Registers(d, weekday)[r]
<1>1. /\ d.second \in 0..59 /\ d.minute \in 0..59 /\ d.hour \in Octet
      /\ d.date \in Octet /\ d.month \in Octet /\ d.year \in Octet /\ weekday \in Octet
  <2>1. d \in [second : Octet, minute : Octet, hour : Octet, date : Octet,
              month : Octet, year : Octet] /\ weekday \in Octet
    BY CallsAssumption DEF Octet
  <2>2. d.second <= 59 /\ d.minute <= 59
    BY DEF Sensible
  <2> QED BY <2>1, <2>2 DEF Octet
<1>2. ASSUME NEW x \in Octet PROVE BCD(x) \in Octet
  BY <1>2 DEF BCD, Octet
<1>3. ASSUME NEW x \in 0..59 PROVE BCD(x) + 128 \in Octet
  BY <1>3 DEF BCD, Octet
<1> DEFINE regs == Registers(d, weekday)
<1>4. regs \in Seq(Octet) /\ Len(regs) = 7
  <2>1. /\ BCD(d.second) + 128 \in Octet /\ BCD(d.minute) + 128 \in Octet
        /\ BCD(d.hour) \in Octet /\ BCD(d.date) \in Octet /\ BCD(d.month) \in Octet
        /\ BCD(d.year) \in Octet
    BY <1>1, <1>2, <1>3
  <2> QED BY <1>1, <2>1 DEF Registers
<1> HIDE DEF regs
<1>5. <<0>> \in Seq(Octet) /\ Len(<<0>>) = 1 /\ <<0>>[1] = 0
  BY DEF Octet
<1>6. /\ <<0>> \o regs \in Seq(Octet) /\ Len(<<0>> \o regs) = Len(<<0>>) + Len(regs)
      /\ \A i \in 1..Len(<<0>>) + Len(regs) :
           (<<0>> \o regs)[i] = IF i <= Len(<<0>>) THEN <<0>>[i] ELSE regs[i - Len(<<0>>)]
  BY <1>4, <1>5, ConcatProperties
<1> DEFINE sent == <<0>> \o regs
<1>7. \A i \in 1..8 : sent[i] = IF i <= 1 THEN <<0>>[i] ELSE regs[i - 1]
  BY <1>4, <1>5, <1>6
<1>8. sent \in Seq(Octet) /\ Len(sent) = 8
  BY <1>4, <1>5, <1>6
<1> HIDE DEF sent
<1>9. sent[1] = 0 /\ \A r \in 1..7 : sent[r + 1] = regs[r]
  BY <1>5, <1>7
<1> QED BY <1>4, <1>8, <1>9 DEF sent, regs

-----------------------------------------------------------------------------
(* The device that is addressed becomes s, the other one stays.            *)

LEMMA BecomesE2 ==
  ASSUME DeviceTypes, addr = E2_IIC_ADDRESS, NEW s \in Eeproms, Becomes(s)
  PROVE  DeviceTypes' /\ E2' = s /\ Clock' = Clock
<1>1. E2' = s /\ Clock' = Clock /\ slave' = [a \in Devices |-> slave'[a]]
  BY TwoDevices DEF DeviceTypes, Becomes, E2, Clock
<1> QED BY <1>1 DEF DeviceTypes

LEMMA BecomesClock ==
  ASSUME DeviceTypes, addr = RTC_IIC_ADDRESS, NEW s \in Clocks, Becomes(s)
  PROVE  DeviceTypes' /\ Clock' = s /\ E2' = E2
<1>1. E2' = E2 /\ Clock' = s /\ slave' = [a \in Devices |-> slave'[a]]
  BY TwoDevices DEF DeviceTypes, Becomes, E2, Clock
<1> QED BY <1>1 DEF DeviceTypes

LEMMA SlavesStay ==
  ASSUME DeviceTypes, UNCHANGED slave
  PROVE  DeviceTypes' /\ E2' = E2 /\ Clock' = Clock
BY DEF DeviceTypes, E2, Clock

-----------------------------------------------------------------------------
(* A transfer begins.                                                      *)

\* Nothing was sent before and nothing has been sent yet.
LEMMA Begun ==
  ASSUME IInv, phase = "idle", phase' = "start", idx' = 0, UNCHANGED slave,
         (Transferring /\ Calling /\ DateStored)',
         e2'.op = "read" => e2' = e2, rtc' = "get" => rtc = "get"
  PROVE  IInv'
<1>1. DeviceTypes' /\ E2' = E2 /\ Clock' = Clock
  BY SlavesStay DEF IInv
<1>2. Sending'
  BY <1>1 DEF IInv, Sending, Reading, GivenUp
<1>3. ~SentTo(E2_IIC_ADDRESS)' /\ ~SentTo(RTC_IIC_ADDRESS)'
      /\ ~SentTo(E2_IIC_ADDRESS) /\ ~SentTo(RTC_IIC_ADDRESS)
  BY DEF SentTo
<1>4. Prefix'
  BY <1>1, <1>3 DEF IInv, Prefix
<1>5. Buffered'
  BY <1>1, <1>3 DEF IInv, Buffered, InPage
<1>6. idx = 0 /\ n = 0
  BY DEF IInv, Transferring
<1>7. PageRead'
  <2> SUFFICES ASSUME e2'.op = "read" PROVE PageRead'
    BY DEF PageRead
  <2>1. e2' = e2 /\ e2.op = "read"
    OBVIOUS
  <2>2. ~E2.programming /\ E2.pointer = e2.page * E2_PAGE_SIZE + idx
    BY <2>1 DEF IInv, PageRead
  <2> QED BY <1>1, <1>6, <2>1, <2>2 DEF PageRead
<1>8. RegistersWritten'
  BY <1>3 DEF RegistersWritten
<1>9. RegistersRead'
  <2> SUFFICES ASSUME rtc' = "get" PROVE RegistersRead'
    BY DEF RegistersRead
  <2>1. Clock.pointer = idx
    BY DEF IInv, RegistersRead
  <2> QED BY <1>1, <1>6, <2>1 DEF RegistersRead
<1> QED BY <1>1, <1>2, <1>4, <1>5, <1>7, <1>8, <1>9 DEF IInv

\* What IICWrite and IICRead do to the master.
LEMMA WriteBegins ==
  ASSUME NEW a, NEW data \in Seq(Octet), Len(data) > 0, IICWrite(a, data)
  PROVE  /\ phase = "idle" /\ phase' = "start" /\ idx' = 0
         /\ addr' = a /\ rw' = "write" /\ bytes' = data
         /\ Transferring'
<1>1. /\ phase = "idle" /\ phase' = "start" /\ idx' = 0 /\ rc' = 0
      /\ addr' = a /\ rw' = "write" /\ bytes' = data /\ n' = Len(data)
  BY DEF IICWrite, Transfer
<1>2. Len(data) \in Nat
  OBVIOUS
<1>3. Transferring'
  BY <1>1, <1>2 DEF Transferring
<1> QED BY <1>1, <1>3

LEMMA ReadBegins ==
  ASSUME NEW a, NEW length \in Nat \ {0}, IICRead(a, length)
  PROVE  /\ phase = "idle" /\ phase' = "start" /\ idx' = 0
         /\ addr' = a /\ rw' = "read" /\ n' = length
         /\ Transferring'
<1>1. /\ phase = "idle" /\ phase' = "start" /\ idx' = 0 /\ rc' = 0
      /\ addr' = a /\ rw' = "read" /\ bytes' = <<>> /\ n' = length
  BY DEF IICRead, Transfer
<1>2. <<>> \in Seq(Nat) /\ Len(<<>>) = 0
  OBVIOUS
<1>3. Transferring'
  BY <1>1, <1>2 DEF Transferring
<1> QED BY <1>1, <1>3

LEMMA MemoryWriteStep ==
  ASSUME IInv, Free, NEW c \in E2Calls, c.op = "write", memory_write(c.page, c.data),
         UNCHANGED <<rtc, clock_date, slave>>
  PROVE  IInv'
<1>1. /\ c.page \in Pages /\ c.data \in Seq(Bytes) /\ Len(c.data) \in 1..E2_PAGE_SIZE
      /\ e2' = [op |-> "write", page |-> c.page, data |-> c.data, length |-> Len(c.data)]
      /\ IICWrite(E2_IIC_ADDRESS, page_address(c.page) \o c.data)
  <2>1. c.page \in Nat /\ c.data \in Seq(Bytes) /\ Len(c.data) \in Nat
    BY CallsAssumption DEF Bytes
  <2> QED BY <2>1, Sizes DEF memory_write, Acceptable, Pages
<1> DEFINE sent == page_address(c.page) \o c.data
<1>2. sent \in Seq(Octet) /\ Len(sent) > 0
  <2>1. sent \in Seq(Bytes) /\ Len(sent) = 2 + Len(c.data)
    BY <1>1, AddressAndData
  <2> HIDE DEF sent
  <2> QED BY <1>1, <2>1, OctetsOfBytes
<1>3. /\ phase = "idle" /\ phase' = "start" /\ idx' = 0
      /\ addr' = E2_IIC_ADDRESS /\ rw' = "write" /\ bytes' = sent
      /\ Transferring'
  <2> HIDE DEF sent
  <2> QED BY <1>1, <1>2, WriteBegins DEF sent
<1>4. rtc' = "none" /\ clock_date' = clock_date
  BY DEF Free
<1>5. Calling'
  BY <1>1, <1>3, <1>4 DEF Calling, E2Transfer
<1>6. DateStored'
  BY <1>4 DEF IInv, DateStored, Clock
<1> QED BY <1>1, <1>3, <1>4, <1>5, <1>6, Begun

LEMMA MemoryReadStep ==
  ASSUME IInv, Free, NEW c \in E2Calls, memory_read(c.page, c.length),
         UNCHANGED <<rtc, clock_date, slave>>
  PROVE  IInv'
<1>1. /\ c.page \in Pages /\ c.length \in 1..E2_PAGE_SIZE
      /\ e2' = [op |-> "point", page |-> c.page, data |-> <<>>, length |-> c.length]
      /\ IICWrite(E2_IIC_ADDRESS, page_address(c.page))
  <2>1. c.page \in Nat /\ c.length \in Nat
    BY CallsAssumption
  <2> QED BY <2>1, Sizes DEF memory_read, Acceptable, Pages
<1>2. page_address(c.page) \in Seq(Octet) /\ Len(page_address(c.page)) > 0
  <2>1. page_address(c.page) \in Seq(Bytes) /\ Len(page_address(c.page)) = 2
    BY <1>1, Addressed DEF Bytes
  <2> QED BY <2>1, OctetsOfBytes
<1>3. /\ phase = "idle" /\ phase' = "start" /\ idx' = 0
      /\ addr' = E2_IIC_ADDRESS /\ rw' = "write" /\ bytes' = page_address(c.page)
      /\ Transferring'
  BY <1>1, <1>2, WriteBegins
<1>4. rtc' = "none" /\ clock_date' = clock_date
  BY DEF Free
<1>5. Calling'
  <2>1. <<>> \in Seq(Bytes)
    OBVIOUS
  <2> QED BY <1>1, <1>3, <1>4, <2>1 DEF Calling, E2Transfer
<1>6. DateStored'
  BY <1>4 DEF IInv, DateStored, Clock
<1> QED BY <1>1, <1>3, <1>4, <1>5, <1>6, Begun

LEMMA E2ReadOnStep ==
  ASSUME IInv, E2ReadOn, UNCHANGED <<rtc_driver, slave>>
  PROVE  IInv'
<1>1. e2.op = "read" /\ e2' = e2 /\ rtc' = rtc /\ clock_date' = clock_date
      /\ IICRead(E2_IIC_ADDRESS, e2.length)
  BY DEF E2ReadOn, e2_driver, rtc_driver
<1>2. e2 # NoCall
  BY <1>1 DEF NoCall
<1>3. /\ e2.length \in Nat \ {0} /\ rtc = "none"
      /\ e2 \in [op : {"write", "point", "read"}, page : Pages, data : Seq(Bytes),
                 length : 1..E2_PAGE_SIZE]
  <2>1. phase = "idle"
    BY <1>1 DEF IICRead, Transfer
  <2> QED BY <1>1, <1>2, <2>1, Sizes DEF IInv, Calling
<1>4. /\ phase = "idle" /\ phase' = "start" /\ idx' = 0
      /\ addr' = E2_IIC_ADDRESS /\ rw' = "read" /\ n' = e2.length
      /\ Transferring'
  BY <1>1, <1>3, ReadBegins
<1>5. Calling'
  BY <1>1, <1>3, <1>4 DEF Calling, E2Transfer
<1>6. DateStored'
  BY <1>1 DEF IInv, DateStored, Clock
<1> QED BY <1>1, <1>3, <1>4, <1>5, <1>6, Begun

\* The clock driver writes.
LEMMA ClockWriteBegins ==
  ASSUME IInv, NEW data \in Seq(Octet), Len(data) > 0, IICWrite(RTC_IIC_ADDRESS, data),
         UNCHANGED <<e2, slave>>, e2 = NoCall, rtc' # "get",
         bytes' = data /\ rw' = "write" /\ addr' = RTC_IIC_ADDRESS => RTCTransfer',
         DateStored'
  PROVE  IInv'
<1>1. /\ phase = "idle" /\ phase' = "start" /\ idx' = 0
      /\ addr' = RTC_IIC_ADDRESS /\ rw' = "write" /\ bytes' = data
      /\ Transferring'
  BY WriteBegins
<1>2. Calling'
  BY <1>1 DEF Calling, NoCall
<1>3. e2'.op # "read"
  BY DEF NoCall
<1> QED BY <1>1, <1>2, <1>3, Begun

LEMMA NothingCalled ==
  ASSUME IInv, Free
  PROVE  e2 = NoCall
BY DEF IInv, Calling, Free

LEMMA ConstructStep ==
  ASSUME IInv, Construct, UNCHANGED <<e2_driver, slave>>
  PROVE  IInv'
<1>1. /\ rtc = "construct" /\ rtc' = rtc /\ clock_date' = clock_date /\ e2' = e2
      /\ rtc_result' = rtc_result /\ IICWrite(RTC_IIC_ADDRESS, <<0, 128>>)
  BY DEF Construct, e2_driver, rtc_driver
<1>2. <<0, 128>> \in Seq(Octet) /\ Len(<<0, 128>>) > 0
  BY DEF Octet
<1>3. e2 = NoCall
  <2>1. phase = "idle"
    BY <1>1 DEF IICWrite, Transfer
  <2> QED BY <1>1, <2>1 DEF IInv, Calling
<1>4. DateStored'
  BY <1>1 DEF IInv, DateStored, Clock
<1>5. bytes' = <<0, 128>> /\ rw' = "write" /\ addr' = RTC_IIC_ADDRESS => RTCTransfer'
  BY <1>1, <1>3 DEF RTCTransfer, NoCall
<1> QED BY <1>1, <1>2, <1>3, <1>4, <1>5, ClockWriteBegins

LEMMA SetDateStep ==
  ASSUME IInv, Free, NEW d \in Dates, set_date(d), UNCHANGED <<e2, slave>>
  PROVE  IInv'
<1>1. PICK weekday \in Weekdays : IICWrite(RTC_IIC_ADDRESS, <<0>> \o Registers(d, weekday))
  BY DEF set_date
<1>2. /\ Sensible(d) /\ rtc' = "set" /\ rtc_result'.date = d /\ clock_date' = NoDate
  BY DEF set_date, DateResult
<1> DEFINE data == <<0>> \o Registers(d, weekday)
<1>3. data \in Seq(Octet) /\ Len(data) > 0
  BY <1>2, RegistersAre
<1>4. DateStored'
  BY <1>2 DEF DateStored
<1>5. e2 = NoCall /\ e2' = NoCall
  BY NothingCalled
<1>6. bytes' = data /\ rw' = "write" /\ addr' = RTC_IIC_ADDRESS => RTCTransfer'
  BY <1>2, <1>5 DEF RTCTransfer
<1> HIDE DEF data
<1>7. IICWrite(RTC_IIC_ADDRESS, data)
  BY <1>1 DEF data
<1> QED BY <1>2, <1>3, <1>4, <1>5, <1>6, <1>7, ClockWriteBegins

LEMMA GetDateStep ==
  ASSUME IInv, Free, get_date, UNCHANGED <<e2, slave>>
  PROVE  IInv'
<1>1. /\ rtc' = "point" /\ clock_date' = clock_date /\ rtc = "none"
      /\ IICWrite(RTC_IIC_ADDRESS, <<0>>)
  BY DEF get_date, Free
<1>2. <<0>> \in Seq(Octet) /\ Len(<<0>>) > 0
  BY DEF Octet
<1>3. DateStored'
  BY <1>1 DEF IInv, DateStored, Clock
<1>4. e2 = NoCall /\ e2' = NoCall
  BY NothingCalled
<1>5. bytes' = <<0>> /\ rw' = "write" /\ addr' = RTC_IIC_ADDRESS => RTCTransfer'
  BY <1>1, <1>4 DEF RTCTransfer
<1> QED BY <1>1, <1>2, <1>3, <1>4, <1>5, ClockWriteBegins

LEMMA RTCReadOnStep ==
  ASSUME IInv, RTCReadOn, UNCHANGED <<e2_driver, slave>>
  PROVE  IInv'
<1>1. /\ rtc = "get" /\ rtc' = rtc /\ clock_date' = clock_date /\ e2' = e2
      /\ IICRead(RTC_IIC_ADDRESS, 7)
  BY DEF RTCReadOn, e2_driver, rtc_driver
<1>2. /\ phase = "idle" /\ phase' = "start" /\ idx' = 0
      /\ addr' = RTC_IIC_ADDRESS /\ rw' = "read" /\ n' = 7
      /\ Transferring'
  BY <1>1, ReadBegins
<1>3. e2 = NoCall
  BY <1>1, <1>2 DEF IInv, Calling
<1>4. Calling'
  BY <1>1, <1>2, <1>3 DEF Calling, RTCTransfer, NoCall
<1>5. DateStored'
  BY <1>1 DEF IInv, DateStored, Clock
<1>6. e2'.op # "read"
  BY <1>1, <1>3 DEF NoCall
<1> QED BY <1>1, <1>2, <1>4, <1>5, <1>6, Begun

\* A call that is refused leaves everything as it is.
LEMMA RefusedStep ==
  ASSUME IInv, UNCHANGED <<iic, e2, rtc, clock_date, slave>>, rtc # "set"
  PROVE  IInv'
<1>1. DeviceTypes' /\ E2' = E2 /\ Clock' = Clock
  BY SlavesStay DEF IInv
<1>2. UNCHANGED <<phase, rw, addr, bytes, n, idx, rc>>
  BY DEF iic
<1>3. Transferring' /\ Calling'
  BY <1>2 DEF IInv, Transferring, Calling, E2Transfer, RTCTransfer
<1>4. Sending' /\ Prefix'
  BY <1>1, <1>2 DEF IInv, Sending, Reading, GivenUp, Prefix, SentTo, Beginning
<1>5. Buffered' /\ PageRead'
  BY <1>1, <1>2 DEF IInv, Buffered, PageRead, SentTo, InPage
<1>6. RegistersWritten' /\ RegistersRead'
  BY <1>1, <1>2 DEF IInv, RegistersWritten, RegistersRead, SentTo, Flagged
<1>7. DateStored'
  BY <1>1 DEF IInv, DateStored
<1> QED BY <1>1, <1>3, <1>4, <1>5, <1>6, <1>7 DEF IInv

LEMMA CallStep == ASSUME IInv, Call PROVE IInv'
<1>1. Free /\ UNCHANGED slave /\ rtc = "none"
  BY DEF Call, Free
<1>2. CASE \E c \in E2Calls :
             /\ \/ E2Refuse(c.page, c.length)
                \/ c.op = "write" /\ memory_write(c.page, c.data)
                \/ c.op = "read" /\ memory_read(c.page, c.length)
             /\ UNCHANGED <<rtc, clock_date>>
  <2>1. PICK c \in E2Calls :
             /\ \/ E2Refuse(c.page, c.length)
                \/ c.op = "write" /\ memory_write(c.page, c.data)
                \/ c.op = "read" /\ memory_read(c.page, c.length)
             /\ UNCHANGED <<rtc, clock_date>>
    BY <1>2
  <2>2. CASE E2Refuse(c.page, c.length)
    BY <1>1, <2>1, <2>2, RefusedStep DEF E2Refuse
  <2> QED BY <1>1, <2>1, <2>2, MemoryWriteStep, MemoryReadStep
<1>3. CASE get_date /\ UNCHANGED e2
  BY <1>1, <1>3, GetDateStep
<1>4. CASE \E d \in Dates : (RefuseDate(d) \/ set_date(d)) /\ UNCHANGED e2
  <2>1. PICK d \in Dates : (RefuseDate(d) \/ set_date(d)) /\ UNCHANGED e2
    BY <1>4
  <2>2. CASE RefuseDate(d)
    BY <1>1, <2>1, <2>2, RefusedStep DEF RefuseDate
  <2> QED BY <1>1, <2>1, <2>2, SetDateStep
<1> QED BY <1>2, <1>3, <1>4 DEF Call

LEMMA GoOnStep == ASSUME IInv, GoOn PROVE IInv'
BY E2ReadOnStep, ConstructStep, RTCReadOnStep DEF GoOn

-----------------------------------------------------------------------------
(* The transfer goes on.                                                   *)

\* Within a transfer the calls stay what they are.
LEMMA CallingStays ==
  ASSUME Calling, phase # "idle", phase' # "idle",
         UNCHANGED <<e2, rtc, rtc_result, rw, addr, n>>,
         rw = "write" => bytes' = bytes
  PROVE  Calling'
<1>1. E2Transfer => E2Transfer'
  BY DEF E2Transfer
<1>2. RTCTransfer => RTCTransfer'
  BY DEF RTCTransfer
<1> QED BY <1>1, <1>2 DEF Calling

LEMMA DateStays ==
  ASSUME DateStored, UNCHANGED <<rtc, clock_date>>, Clock'.cells = Clock.cells
  PROVE  DateStored'
BY DEF DateStored

LEMMA StartedStep ==
  ASSUME IInv, Started, InDrivers, UNCHANGED slave
  PROVE  IInv'
<1>1. /\ phase = "start" /\ phase' = "address" /\ UNCHANGED <<rw, addr, bytes, n, idx, rc>>
      /\ UNCHANGED <<e2, rtc, rtc_result, clock_date>>
  BY DEF Started, InDrivers, e2_driver, rtc_driver
<1>2. DeviceTypes' /\ E2' = E2 /\ Clock' = Clock
  BY SlavesStay DEF IInv
<1>3. Transferring' /\ Calling'
  BY <1>1, CallingStays DEF IInv, Transferring
<1>4. Sending'
  BY <1>1 DEF IInv, Sending, Reading, GivenUp
<1>5. ~SentTo(E2_IIC_ADDRESS)' /\ ~SentTo(RTC_IIC_ADDRESS)'
      /\ ~SentTo(E2_IIC_ADDRESS) /\ ~SentTo(RTC_IIC_ADDRESS)
  BY <1>1 DEF SentTo
<1>6. Prefix'
  BY <1>2, <1>5 DEF IInv, Prefix
<1>7. Buffered'
  BY <1>2, <1>5 DEF IInv, Buffered, InPage
<1>8. idx = 0
  BY <1>1 DEF IInv, Transferring
<1>9. PageRead'
  BY <1>1, <1>2, <1>8 DEF IInv, PageRead
<1>10. RegistersWritten' /\ RegistersRead'
  BY <1>1, <1>2, <1>5, <1>8 DEF IInv, RegistersWritten, RegistersRead
<1>11. DateStored'
  BY <1>1, <1>2, DateStays DEF IInv
<1> QED BY <1>2, <1>3, <1>4, <1>6, <1>7, <1>9, <1>10, <1>11 DEF IInv

\* Before a transfer has reached its first byte nothing is sent or received.
LEMMA NothingYet ==
  ASSUME IInv, phase = "address"
  PROVE  /\ ~SentTo(E2_IIC_ADDRESS) /\ ~SentTo(RTC_IIC_ADDRESS)
         /\ ~E2.sending /\ ~Clock.sending
         /\ ~E2.programming => E2.received = <<>>
         /\ Clock.received = <<>>
         /\ idx = 0 /\ rc = 0 /\ n > 0 /\ n \in Nat
<1>1. ~SentTo(E2_IIC_ADDRESS) /\ ~SentTo(RTC_IIC_ADDRESS)
  BY DEF SentTo
<1>2. ~slave[E2_IIC_ADDRESS].sending /\ ~slave[RTC_IIC_ADDRESS].sending
  BY DEF IInv, Sending, Reading, GivenUp, Devices
<1> QED BY <1>1, <1>2 DEF IInv, Prefix, Transferring, E2, Clock

LEMMA AddressRefusedStep ==
  ASSUME IInv, AddressRefused, InDrivers, UNCHANGED slave
  PROVE  IInv'
<1>1. /\ phase = "address" /\ phase' = "stop" /\ rc' = -2
      /\ UNCHANGED <<rw, addr, bytes, n, idx>>
      /\ UNCHANGED <<e2, rtc, rtc_result, clock_date>>
  BY DEF AddressRefused, Abandon, InDrivers, e2_driver, rtc_driver
<1>2. DeviceTypes' /\ E2' = E2 /\ Clock' = Clock
  BY SlavesStay DEF IInv
<1>3. Transferring' /\ Calling'
  BY <1>1, CallingStays DEF IInv, Transferring
<1>4. Sending'
  BY <1>1 DEF IInv, Sending, Reading, GivenUp
<1>5. /\ ~SentTo(E2_IIC_ADDRESS) /\ ~SentTo(RTC_IIC_ADDRESS)
      /\ ~E2.programming => E2.received = <<>>
      /\ Clock.received = <<>> /\ idx = 0 /\ n \in Nat
  BY <1>1, NothingYet
<1>6. ASSUME NEW s, s.received = <<>> PROVE Len(s.received) = 0 /\ Beginning(s)'
  BY <1>1, <1>5, <1>6 DEF Beginning
<1>7. Prefix'
  <2>1. ~E2.programming => Beginning(E2)'
    BY <1>1, <1>2, <1>5, <1>6 DEF Beginning
  <2>2. Beginning(Clock)'
    BY <1>1, <1>2, <1>5, <1>6 DEF Beginning
  <2> QED BY <1>1, <1>2, <1>5, <2>1, <2>2 DEF Prefix, Beginning
<1>8. Buffered'
  <2>1. ~E2.programming => ~(Len(E2.received) >= 2)
    BY <1>5, <1>6
  <2> QED BY <1>2, <2>1 DEF IInv, Buffered, InPage
<1>9. PageRead'
  BY <1>1, <1>2, <1>5 DEF IInv, PageRead
<1>10. RegistersWritten' /\ RegistersRead'
  BY <1>1, <1>2, <1>5 DEF IInv, RegistersWritten, RegistersRead
<1>11. DateStored'
  BY <1>1, <1>2, DateStays DEF IInv
<1> QED BY <1>2, <1>3, <1>4, <1>7, <1>8, <1>9, <1>10, <1>11 DEF IInv

\* The transfer is given up, and what the slave does is not known: it has received
\* nothing, and may be sending if it is to be read.
LEMMA GivenUpStep ==
  ASSUME IInv, InDrivers, phase \in {"address", "byte"}, phase = "byte" => rw = "read",
         Abandon, NEW s, Becomes(s),
         addr = E2_IIC_ADDRESS =>
           /\ s \in Eeproms /\ s.received = <<>> /\ s.cells = E2.cells
           /\ ~s.programming /\ (s.sending => rw = "read"),
         addr = RTC_IIC_ADDRESS =>
           /\ s \in Clocks /\ s.received = <<>> /\ s.cells = Clock.cells
           /\ (s.sending => rw = "read")
  PROVE  IInv'
<1>1. /\ phase' = "stop" /\ rc' = -2 /\ UNCHANGED <<rw, addr, bytes, n, idx>>
      /\ UNCHANGED <<e2, rtc, rtc_result, clock_date>>
  BY DEF Abandon, InDrivers, e2_driver, rtc_driver
<1>2. Transferring' /\ Calling'
  BY <1>1, CallingStays DEF IInv, Transferring
<1>3. ~SentTo(E2_IIC_ADDRESS) /\ ~SentTo(RTC_IIC_ADDRESS)
  BY DEF SentTo
<1>4. /\ Clock.received = <<>> /\ (~E2.programming => E2.received = <<>>)
      /\ n \in Nat /\ Len(<<>>) = 0
  BY <1>3 DEF IInv, Prefix, Transferring
<1>5. /\ addr # E2_IIC_ADDRESS => ~E2.sending
      /\ addr # RTC_IIC_ADDRESS => ~Clock.sending
  BY DEF IInv, Sending, Reading, GivenUp, Devices, E2, Clock
<1>6. /\ DeviceTypes'
      /\ addr = E2_IIC_ADDRESS => E2' = s /\ Clock' = Clock
      /\ addr = RTC_IIC_ADDRESS => Clock' = s /\ E2' = E2
  BY <1>1, BecomesE2, BecomesClock, OneOfTwo DEF IInv
<1>7. /\ E2'.cells = E2.cells /\ Clock'.cells = Clock.cells /\ Clock'.received = <<>>
      /\ ~E2'.programming => E2'.received = <<>>
      /\ addr = E2_IIC_ADDRESS => ~E2'.programming
      /\ E2'.sending => rw = "read" /\ addr = E2_IIC_ADDRESS
      /\ Clock'.sending => rw = "read" /\ addr = RTC_IIC_ADDRESS
  BY <1>4, <1>5, <1>6, OneOfTwo DEF IInv
<1>8. Sending'
  BY <1>1, <1>7, TwoDevices DEF Sending, Reading, GivenUp, E2, Clock
<1>9. ASSUME NEW t, t.received = <<>> PROVE Len(t.received) = 0 /\ Beginning(t)'
  BY <1>1, <1>4, <1>9 DEF Beginning
<1>10. Beginning(Clock)' /\ (~E2'.programming => Beginning(E2)')
  BY <1>1, <1>4, <1>7 DEF Beginning
<1>11. Prefix'
  <2>1. SentTo(E2_IIC_ADDRESS)' => ~E2'.programming
    BY <1>1, <1>7 DEF SentTo
  <2> QED BY <1>7, <1>10, <2>1 DEF Prefix
<1>12. Buffered'
  <2>1. CASE addr = E2_IIC_ADDRESS
    <3>1. E2'.received = <<>> /\ E2' \in Eeproms
      BY <1>6, <1>7, <2>1 DEF DeviceTypes
    <3>2. Len(E2'.received) = 0
      BY <1>4, <3>1
    <3>3. S!Data(E2)' = <<>>
      BY <3>1, <3>2, DataIs
    <3> QED BY <1>7, <2>1, <3>2, <3>3 DEF Buffered
  <2>2. CASE addr # E2_IIC_ADDRESS
    <3>1. E2' = E2 /\ ~SentTo(E2_IIC_ADDRESS)'
      BY <1>1, <1>6, <2>2, OneOfTwo DEF IInv, SentTo
    <3> QED BY <3>1 DEF IInv, Buffered, InPage
  <2> QED BY <2>1, <2>2
<1>13. PageRead'
  <2>1. e2.op = "read" => addr = E2_IIC_ADDRESS
    BY OneOfTwo, ToClock DEF IInv, RTCTransfer, NoCall
  <2> QED BY <1>1, <1>7, <2>1 DEF IInv, PageRead
<1>14. RegistersWritten' /\ RegistersRead'
  BY <1>1, <1>7 DEF IInv, RegistersWritten, RegistersRead, Flagged
<1>15. DateStored'
  BY <1>1, <1>7, DateStays DEF IInv
<1> QED BY <1>2, <1>6, <1>8, <1>11, <1>12, <1>13, <1>14, <1>15 DEF IInv

\* A slave that has heard its address.
LEMMA SelectedIs ==
  ASSUME IInv, phase = "address", S!Answers(slave[addr])
  PROVE  LET s == S!Selected(slave[addr], rw)
         IN  /\ addr = E2_IIC_ADDRESS =>
                  /\ s \in Eeproms /\ s.received = <<>> /\ s.cells = E2.cells
                  /\ ~s.programming /\ (s.sending => rw = "read")
             /\ addr = RTC_IIC_ADDRESS =>
                  /\ s \in Clocks /\ s.received = <<>> /\ s.cells = Clock.cells
                  /\ (s.sending => rw = "read")
<1>1. E2 \in Eeproms /\ Clock \in Clocks /\ (rw = "read") \in BOOLEAN
      /\ <<>> \in Seq(Bytes) /\ <<>> \in Seq(Octet)
  BY DEF IInv, DeviceTypes
<1>2. CASE addr = E2_IIC_ADDRESS
  BY <1>1, <1>2, TwoDevices DEF S!Selected, S!Answers, Eeproms, E2
<1>3. CASE addr = RTC_IIC_ADDRESS
  BY <1>1, <1>3, TwoDevices DEF S!Selected, Clocks, Clock
<1> QED BY <1>2, <1>3

LEMMA AddressLostStep ==
  ASSUME IInv, AddressRefused, InDrivers, S!Answers(slave[addr]),
         Becomes(S!Selected(slave[addr], rw))
  PROVE  IInv'
<1>1. phase = "address" /\ Abandon
  BY DEF AddressRefused
<1>2. PICK s : s = S!Selected(slave[addr], rw)
  OBVIOUS
<1>3. /\ Becomes(s)
      /\ addr = E2_IIC_ADDRESS =>
           /\ s \in Eeproms /\ s.received = <<>> /\ s.cells = E2.cells
           /\ ~s.programming /\ (s.sending => rw = "read")
      /\ addr = RTC_IIC_ADDRESS =>
           /\ s \in Clocks /\ s.received = <<>> /\ s.cells = Clock.cells
           /\ (s.sending => rw = "read")
  BY <1>1, <1>2, SelectedIs
<1> QED BY <1>1, <1>3, GivenUpStep

LEMMA AddressAckedStep ==
  ASSUME IInv, AddressAcked, S!Answers(slave[addr]), Becomes(S!Selected(slave[addr], rw)), InDrivers
  PROVE  IInv'
<1>1. /\ phase = "address" /\ idx' = 0
      /\ UNCHANGED <<rw, addr, bytes, n, rc>>
      /\ UNCHANGED <<e2, rtc, rtc_result, clock_date>>
      /\ phase' = IF 0 < n THEN "byte" ELSE "stop"
      /\ rw \in {"write", "read"}
  BY DEF AddressAcked, Proceed, InDrivers, e2_driver, rtc_driver, IInv, Transferring
<1>2. /\ ~SentTo(E2_IIC_ADDRESS) /\ ~SentTo(RTC_IIC_ADDRESS)
      /\ ~E2.sending /\ ~Clock.sending
      /\ ~E2.programming => E2.received = <<>>
      /\ Clock.received = <<>> /\ idx = 0 /\ rc = 0 /\ n > 0 /\ n \in Nat
  BY <1>1, NothingYet
<1>3. phase' = "byte"
  BY <1>1, <1>2
<1>4. Transferring' /\ Calling'
  BY <1>1, <1>2, <1>3, CallingStays DEF IInv, Transferring
<1>5. <<>> \in Seq(Bytes) /\ <<>> \in Seq(Octet) /\ Len(<<>>) = 0
  OBVIOUS
<1>6. ASSUME NEW s, s.received = <<>> PROVE Len(s.received) = 0 /\ Beginning(s)'
  BY <1>1, <1>2, <1>5, <1>6 DEF Beginning
<1>7. CASE addr = E2_IIC_ADDRESS
  <2> DEFINE s == S!Selected(E2, rw)
  <2>1. /\ s \in Eeproms /\ s.received = <<>> /\ (s.sending <=> rw = "read")
        /\ s.cells = E2.cells /\ s.pointer = E2.pointer
        /\ ~s.programming /\ ~E2.programming
    <3>1. E2 \in Eeproms /\ ~E2.programming
      BY <1>7 DEF IInv, DeviceTypes, S!Answers, E2
    <3>2. s = [E2 EXCEPT !.received = <<>>, !.sending = (rw = "read")]
      BY DEF S!Selected
    <3>3. (rw = "read") \in BOOLEAN
      OBVIOUS
    <3> QED BY <1>5, <3>1, <3>2, <3>3 DEF Eeproms
  <2>2. DeviceTypes' /\ E2' = s /\ Clock' = Clock
    <3>1. Becomes(s)
      BY <1>7 DEF E2
    <3> HIDE DEF s
    <3> QED BY <1>7, <2>1, <3>1, BecomesE2 DEF IInv
  <2> HIDE DEF s
  <2>3. S!Data(s) = <<>>
    BY <2>1, <1>5, DataIs
  <2>4. Sending'
    <3>1. (E2'.sending <=> rw = "read") /\ ~Clock'.sending
      BY <1>2, <2>1, <2>2
    <3> QED BY <1>1, <1>3, <1>7, <3>1, TwoDevices DEF Sending, Reading, GivenUp, E2, Clock
  <2>5. Beginning(E2)' /\ Beginning(Clock)'
    BY <1>2, <1>6, <2>1, <2>2 DEF Beginning
  <2>6. Prefix'
    BY <1>1, <1>2, <2>1, <2>2, <2>5 DEF Prefix
  <2>7. Buffered'
    <3>1. ~(Len(s.received) >= 2)
      BY <2>1, <1>5
    <3> QED BY <2>1, <2>2, <2>3, <3>1 DEF Buffered
  <2>8. PageRead'
    BY <1>1, <1>2, <2>1, <2>2 DEF IInv, PageRead
  <2>9. RegistersWritten' /\ RegistersRead'
    BY <1>1, <1>2, <2>2 DEF IInv, RegistersWritten, RegistersRead
  <2>10. DateStored'
    BY <1>1, <2>2, DateStays DEF IInv
  <2> QED BY <1>4, <2>2, <2>4, <2>6, <2>7, <2>8, <2>9, <2>10 DEF IInv
<1>8. CASE addr = RTC_IIC_ADDRESS
  <2> DEFINE s == S!Selected(Clock, rw)
  <2>1. /\ s \in Clocks /\ s.received = <<>> /\ (s.sending <=> rw = "read")
        /\ s.cells = Clock.cells /\ s.pointer = Clock.pointer
    <3>1. Clock \in Clocks
      BY DEF IInv, DeviceTypes
    <3>2. s = [Clock EXCEPT !.received = <<>>, !.sending = (rw = "read")]
      BY DEF S!Selected
    <3>3. (rw = "read") \in BOOLEAN
      OBVIOUS
    <3> QED BY <1>5, <3>1, <3>2, <3>3 DEF Clocks
  <2>2. DeviceTypes' /\ Clock' = s /\ E2' = E2
    <3>1. Becomes(s)
      BY <1>8 DEF Clock
    <3> HIDE DEF s
    <3> QED BY <1>8, <2>1, <3>1, BecomesClock DEF IInv
  <2> HIDE DEF s
  <2>4. Sending'
    <3>1. (Clock'.sending <=> rw = "read") /\ ~E2'.sending
      BY <1>2, <2>1, <2>2
    <3> QED BY <1>1, <1>3, <1>8, <3>1, TwoDevices DEF Sending, Reading, GivenUp, E2, Clock
  <2>5. Beginning(Clock)' /\ ~SentTo(E2_IIC_ADDRESS)'
    BY <1>1, <1>6, <1>8, <2>1, <2>2, TwoDevices DEF Beginning, SentTo
  <2>6. Prefix'
    BY <1>2, <2>1, <2>2, <2>5 DEF Prefix
  <2>7. Buffered'
    BY <2>2, <2>5 DEF IInv, Buffered, InPage
  <2>8. PageRead'
    BY <1>1, <1>2, <2>2 DEF IInv, PageRead
  <2>9. RegistersWritten' /\ RegistersRead'
    BY <1>1, <1>2, <2>1, <2>2 DEF IInv, RegistersWritten, RegistersRead
  <2>10. DateStored'
    BY <1>1, <2>1, <2>2, DateStays DEF IInv
  <2> QED BY <1>4, <2>2, <2>4, <2>6, <2>7, <2>8, <2>9, <2>10 DEF IInv
<1> QED BY <1>1, <1>7, <1>8, OneOfTwo DEF IInv

\* A byte is sent.
LEMMA SendingByte ==
  ASSUME IInv, phase = "byte", rw = "write"
  PROVE  /\ idx \in Nat /\ idx < n /\ rc = 0 /\ n = Len(bytes) /\ n \in Nat
         /\ bytes \in Seq(Octet) /\ bytes[idx + 1] \in Octet
         /\ ~E2.sending /\ ~Clock.sending
<1>1. idx \in Nat /\ idx < n /\ rc = 0 /\ n = Len(bytes) /\ n \in Nat /\ bytes \in Seq(Octet)
  BY DEF IInv, Transferring
<1>2. ~slave[E2_IIC_ADDRESS].sending /\ ~slave[RTC_IIC_ADDRESS].sending
  BY DEF IInv, Sending, Reading, GivenUp, Devices
<1>3. bytes[idx + 1] \in Octet
  BY <1>1
<1> QED BY <1>1, <1>2, <1>3 DEF E2, Clock

\* How the master goes on: with the next byte after one that was acknowledged, with
\* the stop condition after one that was not.
ByteDone == \/ idx' = idx + 1 /\ rc' = rc /\ phase' = (IF idx + 1 < n THEN "byte" ELSE "stop")
            \/ idx' = idx /\ rc' = -2 /\ phase' = "stop"

LEMMA ByteDoneTransfers ==
  ASSUME IInv, phase = "byte", rw = "write", ByteDone, UNCHANGED <<rw, addr, bytes, n>>, InDrivers
  PROVE  /\ Transferring' /\ Calling' /\ phase' \in {"byte", "stop"}
         /\ SentTo(addr) /\ SentTo(addr)'
         /\ rc' = 0 => idx' = idx + 1
         /\ UNCHANGED <<e2, rtc, rtc_result, clock_date>>
<1>1. UNCHANGED <<e2, rtc, rtc_result, clock_date>>
  BY DEF InDrivers, e2_driver, rtc_driver
<1>2. idx \in Nat /\ idx < n /\ rc = 0 /\ n = Len(bytes) /\ n \in Nat /\ bytes \in Seq(Octet)
  BY SendingByte
<1>3. phase' \in {"byte", "stop"} /\ (rc' = 0 => idx' = idx + 1)
  BY <1>2 DEF ByteDone
<1>4. Calling'
  BY <1>1, <1>3, CallingStays DEF IInv
<1>5. Transferring'
  BY <1>2, <1>3 DEF Transferring, ByteDone
<1> QED BY <1>1, <1>3, <1>4, <1>5 DEF SentTo

\* The slave has received one byte more of those that are sent to it.
LEMMA Longer ==
  ASSUME NEW T, NEW received \in Seq(T), NEW b \in T, NEW i \in Nat, Len(received) = i,
         b = bytes[i + 1], \A k \in 1..i : received[k] = bytes[k]
  PROVE  /\ Len(Append(received, b)) = i + 1
         /\ \A k \in 1..(i + 1) : Append(received, b)[k] = bytes[k]
<1>1. /\ Len(Append(received, b)) = i + 1
      /\ \A k \in 1..i : Append(received, b)[k] = received[k]
      /\ Append(received, b)[i + 1] = b
  BY AppendProperties
<1>2. ASSUME NEW k \in 1..(i + 1) PROVE Append(received, b)[k] = bytes[k]
  <2>1. CASE k = i + 1
    BY <1>1, <2>1
  <2>2. CASE k \in 1..i
    BY <1>1, <2>2
  <2> QED BY <2>1, <2>2
<1> QED BY <1>1, <1>2

LEMMA E2WriteStep ==
  ASSUME IInv, phase = "byte", rw = "write", addr = E2_IIC_ADDRESS,
         ByteDone, UNCHANGED <<rw, addr, bytes, n>>, InDrivers,
         Becomes(S!Received(E2, bytes[idx + 1]))
  PROVE  IInv'
<1> DEFINE b == bytes[idx + 1]
           s == S!Received(E2, b)
<1>1. /\ idx \in Nat /\ idx < n /\ rc = 0 /\ n = Len(bytes) /\ n \in Nat
      /\ ~E2.sending /\ ~Clock.sending
  BY SendingByte
<1>2. /\ Transferring' /\ Calling' /\ phase' \in {"byte", "stop"}
      /\ SentTo(E2_IIC_ADDRESS) /\ SentTo(E2_IIC_ADDRESS)'
      /\ rc' = 0 => idx' = idx + 1
      /\ UNCHANGED <<e2, rtc, rtc_result, clock_date>>
  BY ByteDoneTransfers
<1>3. /\ bytes \in Seq(Bytes) /\ e2.op \in {"write", "point"} /\ rtc = "none"
      /\ Len(bytes) = IF e2.op = "write" THEN 2 + e2.length ELSE 2
      /\ bytes[1] * ByteSize + bytes[2] = e2.page * E2_PAGE_SIZE
      /\ e2.page \in Pages /\ e2.length \in 1..E2_PAGE_SIZE
  BY WrittenToE2, ToE2 DEF IInv
<1>4. /\ ~E2.programming /\ Len(E2.received) = idx
      /\ \A k \in 1..idx : E2.received[k] = bytes[k]
      /\ E2.received \in Seq(Bytes) /\ E2 \in Eeproms
  <2>1. E2 \in Eeproms /\ E2.received \in Seq(Bytes)
    BY DEF IInv, DeviceTypes, Eeproms
  <2>2. ~E2.programming /\ Beginning(E2)
    BY <1>1, <1>2 DEF IInv, Prefix
  <2> QED BY <1>1, <2>1, <2>2 DEF Beginning
<1>5. b \in Bytes
  BY <1>1, <1>3
<1> HIDE DEF b
<1>6. /\ s \in Eeproms /\ s.received = Append(E2.received, b)
      /\ s.cells = E2.cells /\ s.programming = E2.programming /\ s.sending = E2.sending
      /\ s.pointer = IF idx = 1 THEN (E2.received[1] * ByteSize + b) % E2Cells ELSE E2.pointer
  BY <1>4, <1>5, EepromReceives
<1>7. DeviceTypes' /\ E2' = s /\ Clock' = Clock
  <2>1. Becomes(s)
    BY DEF b
  <2> HIDE DEF s
  <2> QED BY <1>6, <2>1, BecomesE2 DEF IInv
<1> HIDE DEF s
<1>8. Len(s.received) = idx + 1 /\ \A k \in 1..(idx + 1) : s.received[k] = bytes[k]
  BY <1>1, <1>4, <1>5, <1>6, Longer DEF b
<1>9. Sending'
  <2>1. ~E2'.sending /\ ~Clock'.sending
    BY <1>1, <1>6, <1>7
  <2> QED BY <1>2, <2>1, TwoDevices DEF Sending, Reading, GivenUp, E2, Clock
<1>10. Prefix'
  <2>1. Beginning(E2)'
    BY <1>1, <1>2, <1>7, <1>8 DEF Beginning
  <2>2. ~E2'.programming
    BY <1>4, <1>6, <1>7
  <2>3. ~SentTo(RTC_IIC_ADDRESS)' /\ ~SentTo(RTC_IIC_ADDRESS)
    BY TwoDevices DEF SentTo
  <2>4. Clock'.received = <<>>
    BY <1>7, <2>3 DEF IInv, Prefix
  <2> QED BY <1>2, <2>1, <2>2, <2>3, <2>4 DEF Prefix
<1>11. Len(s.received) >= 2 => s.pointer = e2.page * E2_PAGE_SIZE
  <2>1. CASE idx = 1
    <3>1. s.pointer = (bytes[1] * ByteSize + bytes[2]) % E2Cells
      BY <1>4, <1>6, <2>1 DEF b
    <3>2. (e2.page * E2_PAGE_SIZE) % E2Cells = e2.page * E2_PAGE_SIZE
      BY <1>3, Addressed
    <3> QED BY <1>3, <3>1, <3>2
  <2>2. CASE idx > 1
    <3>1. E2.pointer = e2.page * E2_PAGE_SIZE
      BY <1>1, <1>2, <1>4, <2>2 DEF IInv, Buffered, InPage
    <3> QED BY <1>6, <2>2, <3>1
  <2> QED BY <1>1, <1>8, <2>1, <2>2
<1>12. Buffered'
  <2>1. ASSUME S!Data(s) # <<>>
        PROVE  \E page \in Pages : s.pointer = page * E2_PAGE_SIZE /\ Len(S!Data(s)) <= E2_PAGE_SIZE
    <3>1. Len(s.received) > 2 /\ Len(S!Data(s)) = Len(s.received) - 2
      BY <1>1, <1>6, <1>8, <2>1, DataIs
    <3>2. Len(S!Data(s)) <= E2_PAGE_SIZE
      BY <1>1, <1>3, <1>8, <3>1, Sizes
    <3> QED BY <1>1, <1>3, <1>8, <1>11, <3>1, <3>2
  <2>2. ~s.programming
    BY <1>4, <1>6
  <2> QED BY <1>2, <1>7, <1>11, <2>1, <2>2 DEF Buffered, InPage
<1>13. PageRead'
  BY <1>2, <1>3 DEF PageRead
<1>14. RegistersWritten' /\ RegistersRead'
  BY <1>2, <1>3 DEF RegistersWritten, RegistersRead
<1>15. DateStored'
  BY <1>2, <1>7, DateStays DEF IInv
<1> QED BY <1>2, <1>7, <1>9, <1>10, <1>12, <1>13, <1>14, <1>15 DEF IInv

\* The byte was lost.
LEMMA LostStep ==
  ASSUME IInv, phase = "byte", rw = "write",
         rc' = -2, phase' = "stop", UNCHANGED <<rw, addr, bytes, n, idx, slave>>, InDrivers
  PROVE  IInv'
<1>1. /\ idx \in Nat /\ idx < n /\ rc = 0 /\ n = Len(bytes) /\ n \in Nat
      /\ ~E2.sending /\ ~Clock.sending
  BY SendingByte
<1>2. /\ Transferring' /\ Calling'
      /\ UNCHANGED <<e2, rtc, rtc_result, clock_date>>
  BY ByteDoneTransfers DEF ByteDone
<1>3. DeviceTypes' /\ E2' = E2 /\ Clock' = Clock
  BY SlavesStay DEF IInv
<1>4. Sending'
  BY <1>1, <1>3, TwoDevices DEF Sending, Reading, GivenUp, E2, Clock
<1>5. \A a : SentTo(a)' <=> SentTo(a)
  BY DEF SentTo
<1>6. (Beginning(E2) => Beginning(E2)') /\ (Beginning(Clock) => Beginning(Clock)')
  BY <1>1, <1>3 DEF Beginning
<1>7. Prefix'
  BY <1>1, <1>3, <1>5, <1>6 DEF IInv, Prefix
<1>8. Buffered'
  BY <1>2, <1>3, <1>5 DEF IInv, Buffered, InPage
<1>9. PageRead'
  BY <1>2, <1>3 DEF IInv, PageRead
<1>10. RegistersWritten' /\ RegistersRead'
  BY <1>2, <1>3 DEF IInv, RegistersWritten, RegistersRead, Flagged
<1>11. DateStored'
  BY <1>2, <1>3, DateStays DEF IInv
<1> QED BY <1>2, <1>3, <1>4, <1>7, <1>8, <1>9, <1>10, <1>11 DEF IInv

LEMMA ClockWriteStep ==
  ASSUME IInv, phase = "byte", rw = "write", addr = RTC_IIC_ADDRESS,
         ByteDone, UNCHANGED <<rw, addr, bytes, n>>, InDrivers,
         Becomes(S!Received(Clock, bytes[idx + 1]))
  PROVE  IInv'
<1> DEFINE b == bytes[idx + 1]
           s == S!Received(Clock, b)
<1>1. /\ idx \in Nat /\ idx < n /\ rc = 0 /\ n = Len(bytes) /\ n \in Nat
      /\ ~E2.sending /\ ~Clock.sending /\ b \in Octet
  BY SendingByte
<1>2. /\ Transferring' /\ Calling' /\ phase' \in {"byte", "stop"}
      /\ SentTo(RTC_IIC_ADDRESS) /\ SentTo(RTC_IIC_ADDRESS)'
      /\ rc' = 0 => idx' = idx + 1
      /\ UNCHANGED <<e2, rtc, rtc_result, clock_date>>
  BY ByteDoneTransfers
<1>3. /\ RTCTransfer /\ e2.op = "none" /\ rtc \in {"construct", "set", "point"}
  BY ToClock DEF IInv, RTCTransfer
<1>4. /\ Len(Clock.received) = idx
      /\ \A k \in 1..idx : Clock.received[k] = bytes[k]
      /\ Clock.received \in Seq(Octet) /\ Clock \in Clocks
      /\ Clock.cells \in [1..7 -> Octet] /\ Clock.pointer \in 0..6
  <2>1. Clock \in Clocks /\ Clock.received \in Seq(Octet)
        /\ Clock.cells \in [1..7 -> Octet] /\ Clock.pointer \in 0..6
    BY DEF IInv, DeviceTypes, Clocks
  <2>2. Beginning(Clock)
    BY <1>2 DEF IInv, Prefix
  <2> QED BY <1>1, <2>1, <2>2 DEF Beginning
<1> HIDE DEF b
<1>5. Clock.received = <<>> <=> idx = 0
  BY <1>4, EmptySeq
<1>6. /\ s \in Clocks /\ s.received = Append(Clock.received, b) /\ s.sending = Clock.sending
      /\ IF idx = 0
           THEN s.pointer = b % 7 /\ s.cells = Clock.cells
           ELSE /\ s.pointer = (Clock.pointer + 1) % 7
                /\ s.cells = [Clock.cells EXCEPT ![Clock.pointer + 1] = b]
  BY <1>1, <1>4, <1>5, ClockReceives
<1>7. DeviceTypes' /\ Clock' = s /\ E2' = E2
  <2>1. Becomes(s)
    BY DEF b
  <2> HIDE DEF s
  <2> QED BY <1>6, <2>1, BecomesClock DEF IInv
<1> HIDE DEF s
<1>8. Len(s.received) = idx + 1 /\ \A k \in 1..(idx + 1) : s.received[k] = bytes[k]
  BY <1>1, <1>4, <1>6, Longer DEF b
<1>9. Sending'
  <2>1. ~E2'.sending /\ ~Clock'.sending
    BY <1>1, <1>6, <1>7
  <2> QED BY <1>2, <2>1, TwoDevices DEF Sending, Reading, GivenUp, E2, Clock
<1>10. ~SentTo(E2_IIC_ADDRESS)' /\ ~SentTo(E2_IIC_ADDRESS)
  BY TwoDevices DEF SentTo
<1>11. Prefix'
  <2>1. Beginning(Clock)'
    BY <1>1, <1>2, <1>7, <1>8 DEF Beginning
  <2> QED BY <1>2, <1>7, <1>10, <2>1 DEF IInv, Prefix
<1>12. Buffered'
  BY <1>7, <1>10 DEF IInv, Buffered, InPage
<1>13. PageRead'
  BY <1>2, <1>3 DEF PageRead
<1>14. RegistersRead'
  BY <1>2, <1>3 DEF RegistersRead
<1>15. RegistersWritten'
  <2>1. ASSUME rtc = "set", rc' = 0
        PROVE  /\ s.pointer = ((idx + 1) - 1) % 7
               /\ \A k \in 1..idx : s.cells[k] = bytes[k + 1]
    <3>1. PICK weekday \in Weekdays : bytes = <<0>> \o Registers(rtc_result.date, weekday)
      BY <1>3, <2>1 DEF RTCTransfer
    <3>2. Len(bytes) = 8 /\ bytes[1] = 0
      BY <1>3, <2>1, <3>1, RegistersAre DEF RTCTransfer
    <3>3. CASE idx = 0
      BY <1>6, <3>2, <3>3 DEF b
    <3>4. CASE idx > 0
      <4>1. /\ Clock.pointer = (idx - 1) % 7 /\ idx \in 1..7
            /\ \A k \in 1..(idx - 1) : Clock.cells[k] = bytes[k + 1]
        BY <1>1, <1>2, <2>1, <3>2, <3>4 DEF IInv, RegistersWritten
      <4>2. Clock.pointer = idx - 1
        BY <4>1
      <4>3. s.pointer = idx % 7 /\ s.cells = [Clock.cells EXCEPT ![idx] = b]
        BY <1>6, <3>4, <4>1, <4>2
      <4>4. \A k \in 1..idx : s.cells[k] = IF k = idx THEN b ELSE Clock.cells[k]
        BY <1>4, <4>1, <4>3
      <4> QED BY <4>1, <4>3, <4>4 DEF b
    <3> QED BY <1>1, <3>3, <3>4
  <2>2. ASSUME rtc = "point", rc' = 0
        PROVE  s.pointer = 0
    <3>1. bytes = <<0>>
      BY <1>3, <2>2 DEF RTCTransfer
    <3>2. idx = 0 /\ b = 0
      BY <1>1, <3>1 DEF b
    <3> QED BY <1>6, <3>2
  <2> QED BY <1>1, <1>2, <1>7, <2>1, <2>2 DEF RegistersWritten
<1>16. DateStored'
  <2> SUFFICES ASSUME clock_date # NoDate PROVE DateStored'
    BY <1>2 DEF DateStored
  <2>1. rtc = "point"
    BY <1>3 DEF IInv, DateStored
  <2>2. bytes = <<0>>
    BY <1>3, <2>1 DEF RTCTransfer
  <2>3. idx = 0
    BY <1>1, <2>2
  <2>4. Clock'.cells = Clock.cells
    BY <1>6, <1>7, <2>3
  <2> QED BY <1>2, <2>4, DateStays DEF IInv
<1> QED BY <1>2, <1>7, <1>9, <1>11, <1>12, <1>13, <1>14, <1>15, <1>16 DEF IInv

LEMMA BusWriteStep == ASSUME IInv, BusWrite PROVE IInv'
<1>1. phase = "byte" /\ rw = "write" /\ InDrivers /\ UNCHANGED <<rw, addr, bytes, n>> /\ ByteDone
  BY DEF BusWrite, ByteAcked, ByteRefused, Abandon, Proceed, ByteDone
<1>2. \/ Becomes(S!Received(slave[addr], bytes[idx + 1]))
      \/ rc' = -2 /\ phase' = "stop" /\ UNCHANGED <<idx, slave>>
  BY DEF BusWrite, ByteRefused, Abandon
<1>3. addr = E2_IIC_ADDRESS \/ addr = RTC_IIC_ADDRESS
  BY <1>1, OneOfTwo DEF IInv
<1>4. CASE rc' = -2 /\ phase' = "stop" /\ UNCHANGED <<idx, slave>>
  BY <1>1, <1>4, LostStep
<1>5. CASE Becomes(S!Received(slave[addr], bytes[idx + 1]))
  BY <1>1, <1>3, <1>5, E2WriteStep, ClockWriteStep DEF E2, Clock
<1> QED BY <1>2, <1>4, <1>5

\* A byte is read.
LEMMA ReadingByte ==
  ASSUME IInv, phase = "byte", rw = "read"
  PROVE  /\ idx \in Nat /\ idx < n /\ rc = 0 /\ n \in Nat
         /\ bytes \in Seq(Nat) /\ Len(bytes) = idx
         /\ ~SentTo(E2_IIC_ADDRESS) /\ ~SentTo(RTC_IIC_ADDRESS)
         /\ addr \in Devices => slave[addr].sending
         /\ \A a \in Devices : a # addr => ~slave[a].sending
BY DEF IInv, Transferring, Sending, Reading, GivenUp, SentTo

LEMMA ByteLostStep ==
  ASSUME IInv, ByteLost, InDrivers,
         \/ Becomes(S!Silenced(slave[addr]))
         \/ Becomes(S!Sent(slave[addr], TRUE))
  PROVE  IInv'
<1>1. phase = "byte" /\ rw = "read" /\ Abandon
  BY DEF ByteLost
<1>2. ~SentTo(E2_IIC_ADDRESS) /\ ~SentTo(RTC_IIC_ADDRESS)
  BY <1>1 DEF SentTo
<1>3. PICK s : Becomes(s) /\ (s = S!Silenced(slave[addr]) \/ s = S!Sent(slave[addr], TRUE))
  OBVIOUS
<1>4. CASE addr = E2_IIC_ADDRESS
  <2>1. E2 \in Eeproms /\ ~E2.programming /\ E2.received = <<>>
    <3>1. e2.op = "read"
      BY <1>1, <1>4, ToE2 DEF IInv, E2Transfer
    <3> QED BY <1>2, <3>1 DEF IInv, DeviceTypes, PageRead, Prefix
  <2>2. PICK to \in 0..(E2Cells - 1) : to = (E2.pointer + 1) % S!Size(E2)
    <3>1. E2.cells \in [1..E2Cells -> Bytes] /\ E2.pointer + 1 \in Int
      BY <2>1 DEF Eeproms
    <3>2. Len(E2.cells) = E2Cells
      BY <3>1, Sizes
    <3> QED BY <3>1, <3>2, Sizes, Division DEF S!Size
  <2>3. /\ s = [E2 EXCEPT !.sending = FALSE]
        \/ s = [E2 EXCEPT !.pointer = IF E2.sending THEN to ELSE E2.pointer, !.sending = E2.sending /\ TRUE]
    BY <1>3, <1>4, <2>2 DEF S!Silenced, S!Sent, E2
  <2>4. s \in Eeproms /\ s.received = <<>> /\ s.cells = E2.cells /\ ~s.programming
    <3>1. (E2.sending /\ TRUE) \in BOOLEAN
      OBVIOUS
    <3> QED BY <2>1, <2>2, <2>3, <3>1 DEF Eeproms
  <2> QED BY <1>1, <1>3, <1>4, <2>4, GivenUpStep, TwoDevices
<1>5. CASE addr = RTC_IIC_ADDRESS
  <2>1. Clock \in Clocks /\ Clock.received = <<>>
    BY <1>2 DEF IInv, DeviceTypes, Prefix
  <2>2. PICK to \in 0..6 : to = (Clock.pointer + 1) % S!Size(Clock)
    <3>1. Clock.cells \in [1..7 -> Octet] /\ Clock.pointer \in 0..6
      BY <2>1 DEF Clocks
    <3>2. Len(Clock.cells) = 7
      BY <3>1
    <3> QED BY <3>1, <3>2 DEF S!Size
  <2>3. /\ s = [Clock EXCEPT !.sending = FALSE]
        \/ s = [Clock EXCEPT !.pointer = IF Clock.sending THEN to ELSE Clock.pointer,
                             !.sending = Clock.sending /\ TRUE]
    BY <1>3, <1>5, <2>2 DEF S!Silenced, S!Sent, Clock
  <2>4. s \in Clocks /\ s.received = <<>> /\ s.cells = Clock.cells
    <3>1. (Clock.sending /\ TRUE) \in BOOLEAN
      OBVIOUS
    <3> QED BY <2>1, <2>2, <2>3, <3>1 DEF Clocks
  <2> QED BY <1>1, <1>3, <1>5, <2>4, GivenUpStep, TwoDevices
<1> QED BY <1>1, <1>4, <1>5, OneOfTwo DEF IInv

\* The master after a byte was received.
LEMMA ReceivedTransfers ==
  ASSUME IInv, NEW b \in Nat, ByteReceived(b), InDrivers
  PROVE  /\ phase = "byte" /\ rw = "read" /\ idx' = idx + 1
         /\ phase' = IF idx + 1 < n THEN "byte" ELSE "stop"
         /\ UNCHANGED <<rw, addr, n, rc>>
         /\ UNCHANGED <<e2, rtc, rtc_result, clock_date>>
         /\ bytes'[idx + 1] = b /\ \A k \in 1..idx : bytes'[k] = bytes[k]
         /\ Transferring' /\ Calling'
<1>1. /\ phase = "byte" /\ rw = "read" /\ idx' = idx + 1 /\ bytes' = Append(bytes, b)
      /\ phase' = IF idx + 1 < n THEN "byte" ELSE "stop"
      /\ UNCHANGED <<rw, addr, n, rc>>
      /\ UNCHANGED <<e2, rtc, rtc_result, clock_date>>
  BY DEF ByteReceived, Proceed, InDrivers, e2_driver, rtc_driver
<1>2. idx \in Nat /\ idx < n /\ rc = 0 /\ n \in Nat /\ bytes \in Seq(Nat) /\ Len(bytes) = idx
  BY <1>1, ReadingByte
<1>3. /\ bytes' \in Seq(Nat) /\ Len(bytes') = idx + 1 /\ bytes'[idx + 1] = b
      /\ \A k \in 1..idx : bytes'[k] = bytes[k]
  BY <1>1, <1>2, AppendProperties
<1>4. Calling'
  BY <1>1, CallingStays DEF IInv
<1>5. Transferring'
  BY <1>1, <1>2, <1>3 DEF Transferring
<1> QED BY <1>1, <1>3, <1>4, <1>5

\* The acknowledgement, as a Boolean of its own.
LEMMA AcksIs ==
  ASSUME idx \in Nat, n \in Nat, idx < n
  PROVE  Acks \in BOOLEAN /\ (Acks <=> idx + 1 < n)
BY DEF Acks

LEMMA E2ReadStep ==
  ASSUME IInv, addr = E2_IIC_ADDRESS, InDrivers,
         ByteReceived(S!Byte(E2) + LeapFlag(E2)), Becomes(S!Sent(E2, Acks))
  PROVE  IInv'
<1> DEFINE b == S!Byte(E2) + LeapFlag(E2)
           s == S!Sent(E2, Acks)
           start == e2.page * E2_PAGE_SIZE
<1>1. phase = "byte" /\ rw = "read"
  BY DEF ByteReceived
<1>2. /\ idx \in Nat /\ idx < n /\ rc = 0 /\ n \in Nat
      /\ ~SentTo(E2_IIC_ADDRESS) /\ ~SentTo(RTC_IIC_ADDRESS)
      /\ E2.sending /\ ~Clock.sending
  BY <1>1, ReadingByte, TwoDevices DEF E2, Clock
<1>3. /\ e2.op = "read" /\ n = e2.length /\ rtc = "none" /\ e2.page \in Pages
      /\ e2.length \in 1..E2_PAGE_SIZE
  BY <1>1, ToE2 DEF IInv, E2Transfer
<1>4. /\ ~E2.programming /\ E2.pointer = start + idx
      /\ \A k \in 1..idx : bytes[k] = E2.cells[start + k]
  BY <1>1, <1>3 DEF IInv, PageRead
<1>5. start \in Nat /\ start + idx \in 0..(E2Cells - 1)
  BY <1>2, <1>3, PageFits, Sizes
<1> HIDE DEF start
<1>6. /\ E2 \in Eeproms /\ E2.cells \in [1..E2Cells -> Bytes] /\ S!Size(E2) = E2Cells
      /\ E2.received = <<>>
  <2>1. E2 \in Eeproms /\ E2.cells \in [1..E2Cells -> Bytes]
    BY DEF IInv, DeviceTypes, Eeproms
  <2>2. Len(E2.cells) = E2Cells
    BY <2>1, Sizes
  <2> QED BY <1>2, <1>4, <2>1, <2>2 DEF S!Size, IInv, Prefix
<1>7. b = E2.cells[start + (idx + 1)] /\ b \in Nat
  <2>1. LeapFlag(E2) = 0
    BY TwoDevices DEF LeapFlag
  <2>2. S!Byte(E2) = E2.cells[start + idx + 1]
    BY <1>2, <1>4 DEF S!Byte, S!Cell
  <2>3. start + idx + 1 \in 1..E2Cells /\ start + idx + 1 = start + (idx + 1)
    BY <1>2, <1>5, Sizes
  <2>4. E2.cells[start + idx + 1] \in Nat
    BY <1>6, <2>3, BytesAreOctets
  <2> QED BY <2>1, <2>2, <2>3, <2>4
<1>8. /\ idx' = idx + 1
      /\ phase' = IF idx + 1 < n THEN "byte" ELSE "stop"
      /\ UNCHANGED <<rw, addr, n, rc>>
      /\ UNCHANGED <<e2, rtc, rtc_result, clock_date>>
      /\ bytes'[idx + 1] = b /\ \A k \in 1..idx : bytes'[k] = bytes[k]
      /\ Transferring' /\ Calling'
  <2>1. ByteReceived(b)
    OBVIOUS
  <2> HIDE DEF b
  <2> QED BY <1>7, <2>1, ReceivedTransfers
<1> HIDE DEF b
<1>9. /\ s \in Eeproms /\ s.cells = E2.cells /\ s.received = <<>>
      /\ ~s.programming /\ s.pointer = (start + idx + 1) % E2Cells
      /\ s.sending <=> idx + 1 < n
  <2>1. Acks \in BOOLEAN /\ (Acks <=> idx + 1 < n)
    BY <1>2, AcksIs
  <2> DEFINE to == (start + idx + 1) % E2Cells
  <2>2. to \in 0..(E2Cells - 1)
    <3>1. start + idx + 1 \in Int
      BY <1>2, <1>5
    <3> QED BY <3>1, Sizes, Division
  <2>3. s = [E2 EXCEPT !.pointer = to, !.sending = E2.sending /\ Acks]
    BY <1>2, <1>4, <1>6 DEF S!Sent
  <2> HIDE DEF to
  <2>4. (E2.sending /\ Acks) \in BOOLEAN /\ (E2.sending /\ Acks <=> idx + 1 < n)
    BY <1>2, <2>1
  <2>5. s \in Eeproms
    BY <1>6, <2>2, <2>3, <2>4 DEF Eeproms
  <2>6. /\ s.cells = E2.cells /\ s.received = E2.received
        /\ s.programming = E2.programming /\ s.pointer = to
        /\ (s.sending <=> E2.sending /\ Acks)
    BY <1>6, <2>3 DEF Eeproms
  <2> QED BY <1>4, <1>6, <2>4, <2>5, <2>6 DEF to
<1>10. DeviceTypes' /\ E2' = s /\ Clock' = Clock
  <2>1. Becomes(s)
    OBVIOUS
  <2> HIDE DEF s
  <2> QED BY <1>9, <2>1, BecomesE2 DEF IInv
<1> HIDE DEF s
<1>11. Sending'
  <2>1. (E2'.sending <=> idx + 1 < n) /\ ~Clock'.sending
    BY <1>2, <1>9, <1>10
  <2> QED BY <1>1, <1>8, <2>1, TwoDevices DEF Sending, Reading, GivenUp, E2, Clock
<1>12. ~SentTo(E2_IIC_ADDRESS)' /\ ~SentTo(RTC_IIC_ADDRESS)'
  BY <1>1, <1>8 DEF SentTo
<1>13. Prefix'
  BY <1>2, <1>9, <1>10, <1>12 DEF IInv, Prefix
<1>14. Buffered'
  <2>1. S!Data(s) = <<>>
    <3>1. Len(s.received) = 0
      BY <1>9
    <3> QED BY <1>9, <3>1, DataIs
  <2> QED BY <1>9, <1>10, <1>12, <2>1 DEF Buffered
<1>15. PageRead'
  <2>1. phase' # "stop" => s.pointer = start + idx'
    <3>1. ASSUME idx + 1 < n PROVE s.pointer = start + (idx + 1)
      <4>1. start + idx + 1 \in 0..(E2Cells - 1)
        BY <1>2, <1>3, <3>1, PageFits, Sizes DEF start
      <4>2. ASSUME NEW m \in Nat \ {0}, NEW x \in 0..(m - 1) PROVE x % m = x
        BY <4>2
      <4>3. (start + idx + 1) % E2Cells = start + idx + 1
        <5> DEFINE x == start + idx + 1
        <5>1. x \in 0..(E2Cells - 1)
          BY <4>1
        <5> HIDE DEF x
        <5>2. x % E2Cells = x
          BY <4>2, <5>1, Sizes
        <5> QED BY <5>2 DEF x
      <4> QED BY <1>2, <1>5, <1>9, <4>3
    <3> QED BY <1>8, <3>1
  <2>2. \A k \in 1..idx' : bytes'[k] = s.cells[start + k]
    <3>1. ASSUME NEW k \in 1..(idx + 1) PROVE bytes'[k] = s.cells[start + k]
      <4>1. CASE k = idx + 1
        BY <1>7, <1>8, <1>9, <4>1
      <4>2. CASE k \in 1..idx
        BY <1>4, <1>8, <1>9, <4>2 DEF start
      <4> QED BY <1>2, <4>1, <4>2
    <3> QED BY <1>8, <3>1
  <2> QED BY <1>8, <1>9, <1>10, <2>1, <2>2 DEF PageRead, start
<1>16. RegistersWritten' /\ RegistersRead'
  BY <1>3, <1>8 DEF RegistersWritten, RegistersRead
<1>17. DateStored'
  BY <1>8, <1>10, DateStays DEF IInv
<1> QED BY <1>8, <1>10, <1>11, <1>13, <1>14, <1>15, <1>16, <1>17 DEF IInv

LEMMA ClockReadStep ==
  ASSUME IInv, addr = RTC_IIC_ADDRESS, InDrivers,
         ByteReceived(S!Byte(Clock) + LeapFlag(Clock)), Becomes(S!Sent(Clock, Acks))
  PROVE  IInv'
<1> DEFINE b == S!Byte(Clock) + LeapFlag(Clock)
           s == S!Sent(Clock, Acks)
<1>1. phase = "byte" /\ rw = "read"
  BY DEF ByteReceived
<1>2. /\ idx \in Nat /\ idx < n /\ rc = 0 /\ n \in Nat
      /\ ~SentTo(E2_IIC_ADDRESS) /\ ~SentTo(RTC_IIC_ADDRESS)
      /\ Clock.sending /\ ~E2.sending
  BY <1>1, ReadingByte, TwoDevices DEF E2, Clock
<1>3. rtc = "get" /\ n = 7 /\ e2.op = "none"
  BY <1>1, ToClock DEF IInv, RTCTransfer
<1>4. /\ Clock.pointer = idx
      /\ \A k \in 1..idx : bytes[k] = Flagged(k)
  BY <1>1, <1>3 DEF IInv, RegistersRead
<1>5. /\ Clock \in Clocks /\ Clock.cells \in [1..7 -> Octet] /\ S!Size(Clock) = 7
      /\ Clock.received = <<>>
  <2>1. Clock \in Clocks /\ Clock.cells \in [1..7 -> Octet]
    BY DEF IInv, DeviceTypes, Clocks
  <2>2. Len(Clock.cells) = 7
    BY <2>1
  <2> QED BY <1>2, <2>1, <2>2 DEF S!Size, IInv, Prefix
<1>6. b = Flagged(idx + 1) /\ b \in Nat
  <2>1. S!Byte(Clock) = Clock.cells[idx + 1]
    BY <1>2, <1>4 DEF S!Byte, S!Cell
  <2>2. LeapFlag(Clock) = IF idx + 1 = Month /\ Leap(FromBCDYear(Clock.cells[7])) THEN 32 ELSE 0
    BY <1>2, <1>4 DEF LeapFlag, Month
  <2>3. idx + 1 \in 1..7 /\ Clock.cells[idx + 1] \in Nat
    <3>1. idx + 1 \in 1..7
      BY <1>2, <1>3
    <3>2. Clock.cells[idx + 1] \in Octet
      BY <1>5, <3>1
    <3> QED BY <3>1, <3>2 DEF Octet
  <2> QED BY <2>1, <2>2, <2>3 DEF Flagged
<1>7. /\ idx' = idx + 1
      /\ phase' = IF idx + 1 < n THEN "byte" ELSE "stop"
      /\ UNCHANGED <<rw, addr, n, rc>>
      /\ UNCHANGED <<e2, rtc, rtc_result, clock_date>>
      /\ bytes'[idx + 1] = b /\ \A k \in 1..idx : bytes'[k] = bytes[k]
      /\ Transferring' /\ Calling'
  <2>1. ByteReceived(b)
    OBVIOUS
  <2> HIDE DEF b
  <2> QED BY <1>6, <2>1, ReceivedTransfers
<1> HIDE DEF b
<1>8. /\ s \in Clocks /\ s.cells = Clock.cells /\ s.received = <<>>
      /\ s.pointer = (idx + 1) % 7
      /\ s.sending <=> idx + 1 < n
  <2>1. Acks \in BOOLEAN /\ (Acks <=> idx + 1 < n)
    BY <1>2, AcksIs
  <2>2. (idx + 1) % 7 \in 0..6
    BY <1>2
  <2>3. s = [Clock EXCEPT !.pointer = (idx + 1) % 7, !.sending = Clock.sending /\ Acks]
    BY <1>2, <1>4, <1>5 DEF S!Sent
  <2>4. (Clock.sending /\ Acks) \in BOOLEAN /\ (Clock.sending /\ Acks <=> idx + 1 < n)
    BY <1>2, <2>1
  <2>5. s \in Clocks
    BY <1>5, <2>2, <2>3, <2>4 DEF Clocks
  <2>6. s.cells = Clock.cells /\ s.received = Clock.received /\ s.pointer = (idx + 1) % 7
        /\ (s.sending <=> Clock.sending /\ Acks)
    BY <1>5, <2>3 DEF Clocks
  <2> QED BY <1>5, <2>4, <2>5, <2>6
<1>9. DeviceTypes' /\ Clock' = s /\ E2' = E2
  <2>1. Becomes(s)
    OBVIOUS
  <2> HIDE DEF s
  <2> QED BY <1>8, <2>1, BecomesClock DEF IInv
<1> HIDE DEF s
<1>10. Sending'
  <2>1. (Clock'.sending <=> idx + 1 < n) /\ ~E2'.sending
    BY <1>2, <1>8, <1>9
  <2> QED BY <1>1, <1>7, <2>1, TwoDevices DEF Sending, Reading, GivenUp, E2, Clock
<1>11. ~SentTo(E2_IIC_ADDRESS)' /\ ~SentTo(RTC_IIC_ADDRESS)'
  BY <1>1, <1>7 DEF SentTo
<1>12. Prefix'
  BY <1>2, <1>8, <1>9, <1>11 DEF IInv, Prefix
<1>13. Buffered'
  BY <1>2, <1>9, <1>11 DEF IInv, Buffered, InPage
<1>14. PageRead' /\ RegistersWritten'
  BY <1>3, <1>7 DEF PageRead, RegistersWritten
<1>15. RegistersRead'
  <2>1. phase' # "stop" => s.pointer = idx'
    <3>1. idx + 1 < 7 => (idx + 1) % 7 = idx + 1
      BY <1>2
    <3> QED BY <1>3, <1>7, <1>8, <3>1
  <2>2. \A r : Flagged(r)' = Flagged(r)
    BY <1>8, <1>9 DEF Flagged
  <2>3. \A k \in 1..idx' : bytes'[k] = Flagged(k)'
    <3>1. ASSUME NEW k \in 1..(idx + 1) PROVE bytes'[k] = Flagged(k)
      <4>1. CASE k = idx + 1
        BY <1>6, <1>7, <4>1
      <4>2. CASE k \in 1..idx
        BY <1>4, <1>7, <4>2
      <4> QED BY <1>2, <4>1, <4>2
    <3> QED BY <1>7, <2>2, <3>1
  <2> QED BY <1>9, <2>1, <2>3 DEF RegistersRead
<1>16. DateStored'
  BY <1>7, <1>8, <1>9, DateStays DEF IInv
<1> QED BY <1>7, <1>9, <1>10, <1>12, <1>13, <1>14, <1>15, <1>16 DEF IInv

LEMMA BusReadStep == ASSUME IInv, BusRead PROVE IInv'
<1>1. phase = "byte" /\ InDrivers
  BY DEF BusRead, ByteReceived, ByteLost
<1>2. addr = E2_IIC_ADDRESS \/ addr = RTC_IIC_ADDRESS
  BY <1>1, OneOfTwo DEF IInv
<1>3. CASE ByteLost /\ (\/ Becomes(S!Silenced(slave[addr]))
                       \/ Becomes(S!Sent(slave[addr], TRUE)))
  BY <1>1, <1>3, ByteLostStep
<1>4. CASE /\ ByteReceived(S!Byte(slave[addr]) + LeapFlag(slave[addr]))
           /\ Becomes(S!Sent(slave[addr], Acks))
  BY <1>1, <1>2, <1>4, E2ReadStep, ClockReadStep DEF E2, Clock
<1> QED BY <1>3, <1>4 DEF BusRead

-----------------------------------------------------------------------------
(* The transfer ends.                                                      *)

LEMMA TransferEnds ==
  ASSUME IInv, phase # "idle", Ended, NEW r, Returned(r),
         DeviceTypes', ~E2'.sending, ~Clock'.sending,
         ~E2'.programming => E2'.received = <<>>, Clock'.received = <<>>,
         Buffered', Clock'.cells = Clock.cells,
         e2.op = "point" /\ r = 0 => ~E2'.programming /\ E2'.pointer = e2.page * E2_PAGE_SIZE,
         rtc = "point" /\ r = 0 => Clock'.pointer = 0,
         rtc = "set" /\ r = 0 =>
           \E weekday \in Weekdays : \A k \in 1..7 :
             Clock.cells[k] = Registers(rtc_result.date, weekday)[k]
  PROVE  IInv'
<1>1. /\ phase' = "idle" /\ rw' = "write" /\ addr' = 0 /\ bytes' = <<>>
      /\ n' = 0 /\ idx' = 0 /\ rc' = 0
  BY DEF Ended
<1>2. Transferring'
  <2>1. <<>> \in Seq(Octet) /\ Len(<<>>) = 0
    OBVIOUS
  <2> QED BY <1>1, <2>1 DEF Transferring
<1>3. Sending'
  BY <1>1, TwoDevices DEF Sending, Reading, GivenUp, E2, Clock
<1>4. ~SentTo(E2_IIC_ADDRESS)' /\ ~SentTo(RTC_IIC_ADDRESS)'
  BY <1>1 DEF SentTo
<1>5. Prefix' /\ RegistersWritten'
  BY <1>4 DEF Prefix, RegistersWritten
<1>6. CASE E2Returns(r, bytes) /\ UNCHANGED rtc_driver
  <2>1. UNCHANGED <<rtc, rtc_result, clock_date>> /\ e2.op \in {"write", "point", "read"}
    BY <1>6 DEF E2Returns, rtc_driver
  <2>2. /\ rtc = "none"
        /\ e2 \in [op : {"write", "point", "read"}, page : Pages, data : Seq(Bytes),
                   length : 1..E2_PAGE_SIZE]
    <3>1. e2.op # "none" /\ e2 # NoCall
      <4>1. NoCall.op = "none" /\ e2.op # "none"
        BY <2>1 DEF NoCall
      <4> QED BY <4>1
    <3>2. E2Transfer
      BY <3>1 DEF IInv, Calling, RTCTransfer
    <3> QED BY <3>1, <3>2 DEF IInv, Calling, E2Transfer
  <2>3. \/ e2' = NoCall
        \/ e2.op = "point" /\ r = 0 /\ e2' = [e2 EXCEPT !.op = "read"]
    BY <1>6 DEF E2Returns
  <2>4. Calling' /\ PageRead'
    <3>1. CASE e2' = NoCall
      <4>1. e2'.op # "read"
        BY <3>1 DEF NoCall
      <4> QED BY <1>1, <2>1, <2>2, <3>1, <4>1 DEF Calling, PageRead
    <3>2. CASE e2.op = "point" /\ r = 0 /\ e2' = [e2 EXCEPT !.op = "read"]
      <4>1. /\ e2' \in [op : {"write", "point", "read"}, page : Pages, data : Seq(Bytes),
                        length : 1..E2_PAGE_SIZE]
            /\ e2'.op = "read" /\ e2'.page = e2.page
        BY <2>2, <3>2
      <4>2. Calling'
        BY <1>1, <2>1, <2>2, <4>1 DEF Calling
      <4>3. e2.page * E2_PAGE_SIZE + 0 = e2.page * E2_PAGE_SIZE
        BY <2>2, PageFits
      <4>4. PageRead'
        BY <1>1, <3>2, <4>1, <4>3 DEF PageRead
      <4> QED BY <4>2, <4>4
    <3> QED BY <2>3, <3>1, <3>2
  <2>5. RegistersRead'
    BY <2>1, <2>2 DEF RegistersRead
  <2>6. DateStored'
    BY <2>1, DateStays DEF IInv
  <2> QED BY <1>2, <1>3, <1>5, <2>4, <2>5, <2>6 DEF IInv
<1>7. CASE RTCReturns(r, bytes) /\ UNCHANGED e2_driver
  <2>1. e2' = e2 /\ rtc \in {"point", "get", "set", "construct"}
    BY <1>7 DEF RTCReturns, e2_driver
  <2>2. RTCTransfer /\ e2 = NoCall /\ e2.op = "none"
    <3>1. RTCTransfer
      BY <2>1 DEF IInv, Calling, E2Transfer
    <3>2. e2 = NoCall
      BY <3>1 DEF RTCTransfer
    <3>3. NoCall.op = "none"
      BY DEF NoCall
    <3> QED BY <3>1, <3>2, <3>3
  <2>3. \/ rtc' = "none"
        \/ rtc = "point" /\ r = 0 /\ rtc' = "get"
    BY <1>7 DEF RTCReturns
  <2>4. Calling' /\ PageRead'
    BY <1>1, <2>1, <2>2, <2>3 DEF Calling, PageRead, NoCall
  <2>5. RegistersRead'
    BY <1>1, <2>3 DEF RegistersRead
  <2>6. DateStored'
    <3> SUFFICES ASSUME clock_date' # NoDate PROVE DateStored'
      BY DEF DateStored
    <3>1. CASE rtc = "set"
      <4>1. r = 0 /\ clock_date' = rtc_result.date /\ rtc' = "none"
        BY <1>7, <3>1 DEF RTCReturns
      <4>2. rtc_result.date \in Dates /\ Sensible(rtc_result.date)
        BY <2>2, <3>1 DEF RTCTransfer
      <4> QED BY <3>1, <4>1, <4>2 DEF DateStored
    <3>2. CASE rtc # "set"
      <4>1. clock_date' = clock_date
        BY <1>7, <3>2 DEF RTCReturns
      <4>2. /\ rtc' \in {"none", "point", "get"}
            /\ clock_date \in Dates /\ Sensible(clock_date)
            /\ \E weekday \in Weekdays : \A k \in 1..7 :
                 Clock.cells[k] = Registers(clock_date, weekday)[k]
        BY <2>3, <4>1 DEF IInv, DateStored
      <4> QED BY <4>1, <4>2 DEF DateStored
    <3> QED BY <3>1, <3>2
  <2> QED BY <1>2, <1>3, <1>5, <2>4, <2>5, <2>6 DEF IInv
<1> QED BY <1>6, <1>7 DEF Returned

LEMMA StartFailsStep ==
  ASSUME IInv, StartFails, Returned(-1), UNCHANGED slave
  PROVE  IInv'
<1>1. phase = "start" /\ Ended
  BY DEF StartFails
<1>2. DeviceTypes' /\ E2' = E2 /\ Clock' = Clock
  BY SlavesStay DEF IInv
<1>3. ~E2.sending /\ ~Clock.sending
  <2>1. ~slave[E2_IIC_ADDRESS].sending /\ ~slave[RTC_IIC_ADDRESS].sending
    BY <1>1 DEF IInv, Sending, Reading, GivenUp, Devices
  <2> QED BY <2>1 DEF E2, Clock
<1>4. ~SentTo(E2_IIC_ADDRESS) /\ ~SentTo(RTC_IIC_ADDRESS) /\ ~SentTo(E2_IIC_ADDRESS)'
  BY <1>1 DEF SentTo, Ended
<1>5. (~E2.programming => E2.received = <<>>) /\ Clock.received = <<>>
  BY <1>4 DEF IInv, Prefix
<1>6. Buffered'
  BY <1>2, <1>4 DEF IInv, Buffered, InPage
<1>7. -1 # 0
  OBVIOUS
<1> QED BY <1>1, <1>2, <1>3, <1>5, <1>6, <1>7, TransferEnds

LEMMA EepromStops ==
  ASSUME NEW s \in Eeproms, ~s.sending, s.programming => S!Data(s) # <<>>
  PROVE  LET t == S!AfterStop(s)
         IN  /\ t \in Eeproms /\ ~t.sending /\ t.cells = s.cells
             /\ IF S!Data(s) # <<>>
                  THEN t.programming /\ t.received = s.received /\ t.pointer = s.pointer
                  ELSE /\ ~t.programming /\ t.received = <<>>
                       /\ s.received # <<>> => t.pointer = s.pointer
<1> DEFINE t == S!AfterStop(s)
<1>1. s.block > 0 /\ S!Size(s) = E2Cells /\ <<>> \in Seq(Bytes)
  <2>1. s.cells \in [1..E2Cells -> Bytes] /\ s.block = DeviceBlock
    BY DEF Eeproms
  <2>2. Len(s.cells) = E2Cells
    BY <2>1, Sizes
  <2> QED BY <2>1, <2>2, DeviceAssumption DEF S!Size
<1>2. E2Cells - 1 \in 0..(E2Cells - 1)
  BY Sizes
<1>3. CASE S!Data(s) # <<>>
  <2>1. t = [s EXCEPT !.programming = TRUE]
    BY <1>1, <1>3 DEF S!AfterStop
  <2> QED BY <1>3, <2>1 DEF Eeproms
<1>4. CASE S!Data(s) = <<>> /\ s.received # <<>>
  <2>1. t = [s EXCEPT !.received = <<>>]
    BY <1>4 DEF S!AfterStop
  <2> QED BY <1>1, <1>4, <2>1 DEF Eeproms
<1>5. CASE S!Data(s) = <<>> /\ s.received = <<>>
  <2>1. t = [s EXCEPT !.received = <<>>, !.pointer = E2Cells - 1]
    BY <1>1, <1>5 DEF S!AfterStop, S!Adrift
  <2> QED BY <1>1, <1>2, <1>5, <2>1 DEF Eeproms
<1> QED BY <1>3, <1>4, <1>5

LEMMA ClockStops ==
  ASSUME NEW s \in Clocks, ~s.sending
  PROVE  LET t == S!AfterStop(s)
         IN  /\ t \in Clocks /\ ~t.sending /\ t.cells = s.cells /\ t.received = <<>>
             /\ Len(s.received) = 1 => t.pointer = s.pointer
<1> DEFINE t == S!AfterStop(s)
<1>1. /\ ~(s.block > 0) /\ s.addressing = 1 /\ S!Size(s) = 7 /\ <<>> \in Seq(Octet)
      /\ s.received \in Seq(Octet)
  <2>1. s.cells \in [1..7 -> Octet] /\ s.block = 0 /\ s.addressing = 1 /\ s.received \in Seq(Octet)
    BY DEF Clocks
  <2>2. Len(s.cells) = 7
    BY <2>1
  <2> QED BY <2>1, <2>2 DEF S!Size
<1>2. CASE s.received # <<>> /\ S!Data(s) = <<>>
  <2>1. t = [s EXCEPT !.received = <<>>]
    BY <1>1, <1>2 DEF S!AfterStop
  <2> QED BY <1>1, <2>1 DEF Clocks
<1>3. CASE ~(s.received # <<>> /\ S!Data(s) = <<>>)
  <2>1. t = [s EXCEPT !.received = <<>>, !.pointer = 6]
    BY <1>1, <1>3 DEF S!AfterStop, S!Adrift
  <2>2. Len(s.received) # 1
    <3>1. ASSUME Len(s.received) = 1 PROVE FALSE
      <4>1. S!Data(s) = <<>>
        BY <1>1, <3>1 DEF S!Data
      <4>2. s.received # <<>>
        BY <3>1
      <4> QED BY <1>3, <4>1, <4>2
    <3> QED BY <3>1
  <2>3. t \in Clocks /\ ~t.sending /\ t.cells = s.cells /\ t.received = <<>>
    <3>1. 6 \in 0..6
      OBVIOUS
    <3> QED BY <1>1, <2>1, <3>1 DEF Clocks
  <2> QED BY <2>2, <2>3
<1> QED BY <1>2, <1>3

LEMMA E2StopStep ==
  ASSUME IInv, phase = "stop", addr = E2_IIC_ADDRESS, Ended, ~slave[addr].sending,
         Becomes(S!AfterStop(E2)), Returned(rc)
  PROVE  IInv'
<1> DEFINE s == S!AfterStop(E2)
<1>1. ~E2.sending /\ ~Clock.sending
  <2>1. ~slave[E2_IIC_ADDRESS].sending /\ ~slave[RTC_IIC_ADDRESS].sending
    BY TwoDevices DEF IInv, Sending, Reading, GivenUp, Devices
  <2> QED BY <2>1 DEF E2, Clock
<1>2. E2 \in Eeproms /\ (E2.programming => S!Data(E2) # <<>>)
  BY DEF IInv, DeviceTypes, Buffered
<1>3. /\ s \in Eeproms /\ ~s.sending /\ s.cells = E2.cells
      /\ IF S!Data(E2) # <<>>
           THEN s.programming /\ s.received = E2.received /\ s.pointer = E2.pointer
           ELSE /\ ~s.programming /\ s.received = <<>>
                /\ E2.received # <<>> => s.pointer = E2.pointer
  BY <1>1, <1>2, EepromStops
<1>4. DeviceTypes' /\ E2' = s /\ Clock' = Clock
  <2>1. Becomes(s)
    OBVIOUS
  <2> HIDE DEF s
  <2> QED BY <1>3, <2>1, BecomesE2 DEF IInv
<1> HIDE DEF s
<1>5. Clock.received = <<>> /\ ~SentTo(E2_IIC_ADDRESS)'
  BY TwoDevices DEF IInv, Prefix, SentTo, Ended
<1>6. Buffered'
  <2>1. CASE S!Data(E2) # <<>>
    <3>1. S!Data(s) = S!Data(E2)
      <4>1. s.addressing = E2.addressing
        BY <1>2, <1>3 DEF Eeproms
      <4> QED BY <1>3, <2>1, <4>1 DEF S!Data
    <3>2. S!Data(s) # <<>> => \E page \in Pages :
             s.pointer = page * E2_PAGE_SIZE /\ Len(S!Data(s)) <= E2_PAGE_SIZE
      BY <1>3, <2>1, <3>1 DEF IInv, Buffered, InPage
    <3>3. Buffered'
      BY <1>4, <1>5, <2>1, <3>1, <3>2 DEF Buffered, InPage
    <3> QED BY <3>3
  <2>2. CASE S!Data(E2) = <<>>
    <3>1. S!Data(s) = <<>>
      <4>1. Len(s.received) = 0
        BY <1>3, <2>2
      <4> QED BY <1>3, <4>1, DataIs
    <3> QED BY <1>3, <1>4, <1>5, <2>2, <3>1 DEF Buffered
  <2> QED BY <2>1, <2>2
<1>7. ASSUME e2.op = "point", rc = 0
      PROVE  ~E2'.programming /\ E2'.pointer = e2.page * E2_PAGE_SIZE
  <2>1. rw = "write"
    BY <1>7, ToE2 DEF IInv, E2Transfer
  <2>2. SentTo(E2_IIC_ADDRESS) /\ ~E2.programming /\ Beginning(E2)
    BY <1>7, <2>1 DEF SentTo, IInv, Prefix
  <2>3. n = 2 /\ idx = n
    <3>1. Len(bytes) = 2
      BY <1>7, <2>1, WrittenToE2 DEF IInv
    <3> QED BY <1>7, <2>1, <3>1 DEF IInv, Transferring
  <2>4. Len(E2.received) = 2
    BY <1>7, <2>2, <2>3 DEF Beginning
  <2>5. S!Data(E2) = <<>> /\ E2.received # <<>>
    <3>1. E2.received # <<>>
      BY <2>4
    <3>2. S!Data(E2) = <<>>
      BY <1>2, <2>4, DataIs
    <3> QED BY <3>1, <3>2
  <2>6. E2.pointer = e2.page * E2_PAGE_SIZE
    BY <2>2, <2>4 DEF IInv, Buffered, InPage
  <2> QED BY <1>3, <1>4, <2>5, <2>6
<1>8. rtc # "point" /\ rtc # "set"
  BY ToE2 DEF IInv, E2Transfer
<1> QED BY <1>1, <1>3, <1>4, <1>5, <1>6, <1>7, <1>8, TransferEnds

LEMMA ClockStopStep ==
  ASSUME IInv, phase = "stop", addr = RTC_IIC_ADDRESS, Ended, ~slave[addr].sending,
         Becomes(S!AfterStop(Clock)), Returned(rc)
  PROVE  IInv'
<1> DEFINE s == S!AfterStop(Clock)
<1>1. ~E2.sending /\ ~Clock.sending
  <2>1. ~slave[E2_IIC_ADDRESS].sending /\ ~slave[RTC_IIC_ADDRESS].sending
    BY DEF IInv, Sending, Reading, GivenUp, Devices
  <2> QED BY <2>1 DEF E2, Clock
<1>2. Clock \in Clocks
  BY DEF IInv, DeviceTypes
<1>3. /\ s \in Clocks /\ ~s.sending /\ s.cells = Clock.cells /\ s.received = <<>>
      /\ Len(Clock.received) = 1 => s.pointer = Clock.pointer
  BY <1>1, <1>2, ClockStops
<1>4. DeviceTypes' /\ Clock' = s /\ E2' = E2
  <2>1. Becomes(s)
    OBVIOUS
  <2> HIDE DEF s
  <2> QED BY <1>3, <2>1, BecomesClock DEF IInv
<1> HIDE DEF s
<1>5. ~SentTo(E2_IIC_ADDRESS) /\ ~SentTo(E2_IIC_ADDRESS)'
  BY TwoDevices DEF SentTo, Ended
<1>6. ~E2.programming => E2.received = <<>>
  BY <1>5 DEF IInv, Prefix
<1>7. Buffered'
  BY <1>4, <1>5 DEF IInv, Buffered, InPage
<1>8. RTCTransfer /\ e2.op = "none"
  BY ToClock DEF IInv
<1>9. ASSUME rc = 0, rw = "write"
      PROVE  SentTo(RTC_IIC_ADDRESS) /\ idx = Len(bytes) /\ Len(Clock.received) = Len(bytes)
  <2>1. SentTo(RTC_IIC_ADDRESS) /\ idx = Len(bytes)
    BY <1>9 DEF SentTo, IInv, Transferring
  <2>2. Len(Clock.received) = idx
    BY <1>9, <2>1 DEF IInv, Prefix, Beginning
  <2> QED BY <2>1, <2>2
<1>10. ASSUME rtc = "point", rc = 0
       PROVE  Clock'.pointer = 0
  <2>1. rw = "write" /\ bytes = <<0>>
    BY <1>8, <1>10 DEF RTCTransfer
  <2>2. SentTo(RTC_IIC_ADDRESS) /\ idx = 1 /\ Len(Clock.received) = 1
    BY <1>9, <1>10, <2>1
  <2>3. Clock.pointer = 0
    BY <1>10, <2>2 DEF IInv, RegistersWritten
  <2> QED BY <1>3, <1>4, <2>2, <2>3
<1>11. ASSUME rtc = "set", rc = 0
       PROVE  \E weekday \in Weekdays : \A k \in 1..7 :
                Clock.cells[k] = Registers(rtc_result.date, weekday)[k]
  <2>1. /\ rw = "write" /\ rtc_result.date \in Dates /\ Sensible(rtc_result.date)
        /\ \E weekday \in Weekdays : bytes = <<0>> \o Registers(rtc_result.date, weekday)
    BY <1>8, <1>11 DEF RTCTransfer
  <2>2. PICK weekday \in Weekdays : bytes = <<0>> \o Registers(rtc_result.date, weekday)
    BY <2>1
  <2>3. Len(bytes) = 8 /\ \A k \in 1..7 : bytes[k + 1] = Registers(rtc_result.date, weekday)[k]
    BY <2>1, <2>2, RegistersAre
  <2>4. SentTo(RTC_IIC_ADDRESS) /\ idx = 8
    BY <1>9, <1>11, <2>1, <2>3
  <2>5. \A k \in 1..(8 - 1) : Clock.cells[k] = bytes[k + 1]
    BY <1>11, <2>4 DEF IInv, RegistersWritten
  <2> QED BY <2>3, <2>5
<1> QED BY <1>1, <1>3, <1>4, <1>6, <1>7, <1>8, <1>10, <1>11, TransferEnds

LEMMA BusStopStep == ASSUME IInv, BusStop PROVE IInv'
<1>1. /\ phase = "stop" /\ Ended /\ ~slave[addr].sending
      /\ Becomes(S!AfterStop(slave[addr])) /\ Returned(rc)
  BY DEF BusStop, Stopped, S!StopPossible
<1>2. addr = E2_IIC_ADDRESS \/ addr = RTC_IIC_ADDRESS
  BY <1>1, OneOfTwo DEF IInv
<1> QED BY <1>1, <1>2, E2StopStep, ClockStopStep DEF E2, Clock

-----------------------------------------------------------------------------
(* The EEPROM programs its buffer, and power is lost.                      *)

\* What is read of the EEPROM once it has programmed its buffer is made of bytes.
LEMMA OverlaidType ==
  ASSUME NEW s \in Eeproms,
         S!Data(s) # <<>> => \E page \in Pages :
           s.pointer = page * E2_PAGE_SIZE /\ Len(S!Data(s)) <= E2_PAGE_SIZE
  PROVE  S!Overlaid(s) \in [1..E2Cells -> Bytes]
<1>1. s.cells \in [1..E2Cells -> Bytes] /\ S!Data(s) \in Seq(Bytes)
  BY DataIs DEF Eeproms
<1>2. CASE S!Data(s) = <<>>
  BY <1>1, <1>2, OverlaidEmpty
<1>3. CASE S!Data(s) # <<>>
  <2>1. PICK page \in Pages : s.pointer = page * E2_PAGE_SIZE /\ Len(S!Data(s)) <= E2_PAGE_SIZE
    BY <1>3
  <2> DEFINE start == page * E2_PAGE_SIZE
             data == S!Data(s)
  <2>2. S!Overlaid(s) = [c \in 1..E2Cells |->
                           IF c - start \in 1..Len(data) THEN data[c - start] ELSE s.cells[c]]
    BY <2>1, OverlaidIs
  <2> HIDE DEF start, data
  <2>3. data \in Seq(Bytes)
    BY <1>1 DEF data
  <2>4. \A c \in 1..E2Cells :
          (IF c - start \in 1..Len(data) THEN data[c - start] ELSE s.cells[c]) \in Bytes
    <3> TAKE c \in 1..E2Cells
    <3>1. s.cells[c] \in Bytes
      BY <1>1
    <3>2. c - start \in 1..Len(data) => data[c - start] \in Bytes
      <4>1. \A i \in 1..Len(data) : data[i] \in Bytes
        BY <2>3
      <4> QED BY <4>1
    <3> QED BY <3>1, <3>2
  <2> QED BY <2>2, <2>4
<1> QED BY <1>2, <1>3

LEMMA ProgramEndsStep == ASSUME IInv, ProgramEnds PROVE IInv'
<1> DEFINE s == S!Programmed(E2)
<1>1. /\ E2.programming /\ slave' = [slave EXCEPT ![E2_IIC_ADDRESS] = s]
      /\ UNCHANGED <<phase, rw, addr, bytes, n, idx, rc>>
      /\ UNCHANGED <<e2, rtc, rtc_result, clock_date>>
  BY DEF ProgramEnds, E2, iic, e2_driver, rtc_driver
<1>2. E2 \in Eeproms /\ S!Size(E2) = E2Cells
  <2>1. E2 \in Eeproms /\ E2.cells \in [1..E2Cells -> Bytes]
    BY DEF IInv, DeviceTypes, Eeproms
  <2>2. Len(E2.cells) = E2Cells
    BY <2>1, Sizes
  <2> QED BY <2>1, <2>2 DEF S!Size
<1>3. S!Overlaid(E2) \in [1..E2Cells -> Bytes]
  BY <1>2, OverlaidType DEF IInv, Buffered, InPage
<1>4. /\ s \in Eeproms /\ s.received = <<>> /\ ~s.programming
      /\ s.sending = E2.sending
  <2>1. s = [E2 EXCEPT !.cells = S!Overlaid(E2), !.received = <<>>,
                       !.pointer = E2Cells - 1, !.programming = FALSE]
    BY <1>2 DEF S!Programmed, S!Adrift
  <2>2. E2Cells - 1 \in 0..(E2Cells - 1) /\ <<>> \in Seq(Bytes)
    BY Sizes
  <2> QED BY <1>2, <1>3, <2>1, <2>2 DEF Eeproms
<1>5. DeviceTypes' /\ E2' = s /\ Clock' = Clock
  <2> HIDE DEF s
  <2>1. E2' = s /\ Clock' = Clock /\ slave' = [a \in Devices |-> slave'[a]]
    BY <1>1, TwoDevices DEF IInv, DeviceTypes, E2, Clock
  <2> QED BY <1>4, <2>1 DEF IInv, DeviceTypes
<1> HIDE DEF s
<1>6. Transferring' /\ Calling'
  BY <1>1 DEF IInv, Transferring, Calling, E2Transfer, RTCTransfer
<1>7. Sending'
  <2>1. E2'.sending = E2.sending /\ Clock'.sending = Clock.sending
    BY <1>4, <1>5
  <2> QED BY <1>1, <2>1, TwoDevices DEF IInv, Sending, Reading, GivenUp, E2, Clock
<1>8. Prefix'
  <2>1. \A a : SentTo(a)' <=> SentTo(a)
    BY <1>1 DEF SentTo
  <2>2. Beginning(Clock) => Beginning(Clock)'
    BY <1>1, <1>5 DEF Beginning
  <2>3. SentTo(E2_IIC_ADDRESS) => Beginning(E2)'
    <3>1. ASSUME SentTo(E2_IIC_ADDRESS) PROVE Beginning(E2)'
      <4>1. rc # 0 /\ n \in Nat
        BY <1>1, <3>1 DEF IInv, Prefix, Transferring
      <4>2. Len(E2'.received) = 0
        BY <1>4, <1>5
      <4> QED BY <1>1, <4>1, <4>2 DEF Beginning
    <3> QED BY <3>1
  <2> QED BY <1>1, <1>4, <1>5, <2>1, <2>2, <2>3 DEF IInv, Prefix
<1>9. Buffered'
  <2>1. Len(s.received) = 0
    BY <1>4
  <2>2. S!Data(s) = <<>>
    BY <1>4, <2>1, DataIs
  <2> QED BY <1>4, <1>5, <2>1, <2>2 DEF Buffered
<1>10. PageRead'
  BY <1>1 DEF IInv, PageRead
<1>11. RegistersWritten' /\ RegistersRead'
  BY <1>1, <1>5 DEF IInv, RegistersWritten, RegistersRead, SentTo, Flagged
<1>12. DateStored'
  BY <1>1, <1>5, DateStays DEF IInv
<1> QED BY <1>5, <1>6, <1>7, <1>8, <1>9, <1>10, <1>11, <1>12 DEF IInv

\* Both devices after a power failure, whatever is damaged.
LEMMA PowerReturns ==
  ASSUME IInv, NEW damaged,
         slave' = [a \in DOMAIN slave |->
                     S!PoweredOff(slave[a], IF a = E2_IIC_ADDRESS THEN damaged ELSE {})]
  PROVE  /\ DeviceTypes'
         /\ E2' = S!PoweredOff(E2, damaged)
         /\ ~E2'.sending /\ ~E2'.programming /\ E2'.received = <<>>
         /\ ~Clock'.sending /\ Clock'.received = <<>>
         /\ E2'.cells = [c \in 1..E2Cells |->
              IF c \in damaged THEN Released
              ELSE IF E2.programming THEN S!Overlaid(E2)[c] ELSE E2.cells[c]]
<1>1. DOMAIN slave = Devices /\ E2 \in Eeproms /\ Clock \in Clocks
  BY DEF IInv, DeviceTypes
<1>2. /\ E2' = S!PoweredOff(E2, damaged) /\ Clock' = S!PoweredOff(Clock, {})
      /\ slave' = [a \in Devices |-> slave'[a]]
  BY <1>1, TwoDevices DEF E2, Clock
<1>3. /\ S!Size(E2) = E2Cells /\ S!Size(Clock) = 7
      /\ E2.cells \in [1..E2Cells -> Bytes] /\ Clock.cells \in [1..7 -> Octet]
      /\ E2.addressing = 2 /\ E2.block = DeviceBlock
      /\ Clock.addressing = 1 /\ Clock.block = 0 /\ ~Clock.programming
  <2>1. /\ E2.cells \in [1..E2Cells -> Bytes] /\ Clock.cells \in [1..7 -> Octet]
        /\ E2.addressing = 2 /\ E2.block = DeviceBlock
        /\ Clock.addressing = 1 /\ Clock.block = 0 /\ ~Clock.programming
    BY <1>1 DEF Eeproms, Clocks
  <2>2. Len(E2.cells) = E2Cells /\ Len(Clock.cells) = 7
    BY <2>1, Sizes
  <2> QED BY <2>1, <2>2 DEF S!Size
<1>4. Released \in Bytes /\ Released \in Octet /\ <<>> \in Seq(Bytes) /\ <<>> \in Seq(Octet)
  BY BytesAreOctets, DeviceAssumption DEF Bytes
<1>5. S!Overlaid(E2) \in [1..E2Cells -> Bytes]
  BY <1>1, OverlaidType DEF IInv, Buffered, InPage
<1> DEFINE kept == IF E2.programming THEN S!Overlaid(E2) ELSE E2.cells
           cells == [c \in 1..E2Cells |-> IF c \in damaged THEN Released ELSE kept[c]]
<1>6. kept \in [1..E2Cells -> Bytes]
  BY <1>3, <1>5
<1>7. S!PoweredOff(E2, damaged) = S!New(cells, 2, DeviceBlock)
  BY <1>3 DEF S!PoweredOff
<1>8. cells \in [1..E2Cells -> Bytes]
  <2> HIDE DEF kept
  <2> QED BY <1>4, <1>6
<1>9. cells = [c \in 1..E2Cells |->
                 IF c \in damaged THEN Released
                 ELSE IF E2.programming THEN S!Overlaid(E2)[c] ELSE E2.cells[c]]
  OBVIOUS
<1> HIDE DEF cells, kept
<1>10. S!New(cells, 2, DeviceBlock) \in Eeproms
  BY <1>4, <1>8, Sizes DEF S!New, Eeproms
<1>11. /\ ~E2'.sending /\ ~E2'.programming /\ E2'.received = <<>> /\ E2'.cells = cells
  BY <1>2, <1>7 DEF S!New
<1> DEFINE registers == [c \in 1..7 |-> IF c \in {} THEN Released ELSE Clock.cells[c]]
<1>12. S!PoweredOff(Clock, {}) = S!New(registers, 1, 0) /\ registers \in [1..7 -> Octet]
  BY <1>3, <1>4 DEF S!PoweredOff
<1> HIDE DEF registers
<1>13. S!New(registers, 1, 0) \in Clocks
  BY <1>4, <1>12 DEF S!New, Clocks
<1>14. ~Clock'.sending /\ Clock'.received = <<>>
  BY <1>2, <1>12 DEF S!New
<1>15. DeviceTypes'
  BY <1>2, <1>7, <1>10, <1>12, <1>13 DEF DeviceTypes
<1> QED BY <1>2, <1>9, <1>11, <1>14, <1>15

LEMMA PowerFailsStep == ASSUME IInv, PowerFails PROVE IInv'
<1>1. PICK damaged \in SUBSET S!Endangered(slave[E2_IIC_ADDRESS]) :
        slave' = [a \in DOMAIN slave |->
                    S!PoweredOff(slave[a], IF a = E2_IIC_ADDRESS THEN damaged ELSE {})]
  BY DEF PowerFails
<1>2. /\ phase' = "idle" /\ rw' = "write" /\ bytes' = <<>> /\ n' = 0 /\ idx' = 0 /\ rc' = 0
      /\ e2' = NoCall /\ rtc' = "construct" /\ clock_date' = NoDate
  BY DEF PowerFails, Ended
<1>3. /\ DeviceTypes' /\ ~E2'.sending /\ ~E2'.programming /\ E2'.received = <<>>
      /\ ~Clock'.sending /\ Clock'.received = <<>>
  BY <1>1, PowerReturns
<1>4. Transferring'
  <2>1. <<>> \in Seq(Octet) /\ Len(<<>>) = 0
    OBVIOUS
  <2> QED BY <1>2, <2>1 DEF Transferring
<1>5. Calling' /\ PageRead'
  BY <1>2 DEF Calling, PageRead, NoCall
<1>6. Sending'
  BY <1>2, <1>3, TwoDevices DEF Sending, Reading, GivenUp, E2, Clock
<1>7. ~SentTo(E2_IIC_ADDRESS)' /\ ~SentTo(RTC_IIC_ADDRESS)'
  BY <1>2 DEF SentTo
<1>8. Prefix'
  BY <1>3, <1>7 DEF Prefix
<1>9. Buffered'
  <2>1. S!Data(E2)' = <<>>
    <3>1. PICK s \in Eeproms : s = E2'
      BY <1>3 DEF DeviceTypes
    <3>2. Len(s.received) = 0
      BY <1>3, <3>1
    <3>3. S!Data(s) = <<>>
      BY <3>2, DataIs
    <3> QED BY <3>1, <3>3 DEF S!Data
  <2> QED BY <1>3, <1>7, <2>1 DEF Buffered
<1>10. RegistersWritten' /\ RegistersRead' /\ DateStored'
  BY <1>2 DEF RegistersWritten, RegistersRead, DateStored
<1> QED BY <1>3, <1>4, <1>5, <1>6, <1>8, <1>9, <1>10 DEF IInv

-----------------------------------------------------------------------------
(* Every step keeps the invariant.                                         *)

LEMMA InitIInv == ASSUME Init PROVE IInv
<1> DEFINE blank == [c \in 1..E2Cells |-> Released]
           cleared == [r \in 1..7 |-> 0]
<1>1. /\ phase = "idle" /\ rw = "write" /\ bytes = <<>> /\ n = 0 /\ idx = 0 /\ rc = 0
      /\ e2 = NoCall /\ rtc = "construct" /\ clock_date = NoDate
  BY DEF Init, IICInit, E2Init, RTCInit
<1>2. /\ slave = [a \in Devices |-> slave[a]]
      /\ E2 = S!New(blank, 2, DeviceBlock) /\ Clock = S!New(cleared, 1, 0)
  BY TwoDevices DEF Init, E2, Clock
<1>3. /\ Released \in Bytes /\ 0 \in Octet /\ <<>> \in Seq(Bytes) /\ <<>> \in Seq(Octet)
      /\ 0 \in 0..(E2Cells - 1) /\ 0 \in 0..6
  BY Sizes, DeviceAssumption DEF Bytes, Octet
<1>4. blank \in [1..E2Cells -> Bytes] /\ cleared \in [1..7 -> Octet]
  BY <1>3
<1> HIDE DEF blank, cleared
<1>5. S!New(blank, 2, DeviceBlock) \in Eeproms /\ S!New(cleared, 1, 0) \in Clocks
  BY <1>3, <1>4 DEF S!New, Eeproms, Clocks
<1>6. /\ ~E2.sending /\ ~E2.programming /\ E2.received = <<>>
      /\ ~Clock.sending /\ Clock.received = <<>>
  BY <1>2 DEF S!New
<1>7. DeviceTypes
  BY <1>2, <1>5 DEF DeviceTypes
<1>8. Transferring
  <2>1. <<>> \in Seq(Octet) /\ Len(<<>>) = 0
    OBVIOUS
  <2> QED BY <1>1, <2>1 DEF Transferring
<1>9. Calling /\ PageRead
  BY <1>1 DEF Calling, PageRead, NoCall
<1>10. Sending
  BY <1>1, <1>6, TwoDevices DEF Sending, Reading, GivenUp, E2, Clock
<1>11. ~SentTo(E2_IIC_ADDRESS) /\ ~SentTo(RTC_IIC_ADDRESS)
  BY <1>1 DEF SentTo
<1>12. Prefix
  BY <1>6, <1>11 DEF Prefix
<1>13. Buffered
  <2>1. Len(E2.received) = 0
    BY <1>6
  <2>2. S!Data(E2) = <<>>
    BY <1>7, <2>1, DataIs DEF DeviceTypes
  <2> QED BY <1>6, <1>11, <2>2 DEF Buffered
<1>14. RegistersWritten /\ RegistersRead /\ DateStored
  BY <1>1 DEF RegistersWritten, RegistersRead, DateStored
<1> QED BY <1>7, <1>8, <1>9, <1>10, <1>12, <1>13, <1>14 DEF IInv

LEMMA StutterStep == ASSUME IInv, UNCHANGED vars PROVE IInv'
<1>1. UNCHANGED <<phase, rw, addr, bytes, n, idx, rc, e2, rtc, rtc_result, clock_date, slave>>
  BY DEF vars, iic, e2_driver, rtc_driver
<1>2. DeviceTypes' /\ Sending'
  BY <1>1 DEF IInv, DeviceTypes, Sending, Reading, GivenUp, E2, Clock
<1>3. Transferring' /\ Calling'
  BY <1>1 DEF IInv, Transferring, Calling, E2Transfer, RTCTransfer
<1>4. Prefix' /\ Buffered'
  BY <1>1 DEF IInv, Prefix, Beginning, SentTo, Buffered, InPage, E2, Clock
<1>5. PageRead' /\ RegistersWritten' /\ RegistersRead'
  BY <1>1 DEF IInv, PageRead, RegistersWritten, RegistersRead, Flagged, SentTo, E2, Clock
<1>6. DateStored'
  BY <1>1 DEF IInv, DateStored, Clock
<1> QED BY <1>2, <1>3, <1>4, <1>5, <1>6 DEF IInv

LEMMA NextIInv == ASSUME IInv, [Next]_vars PROVE IInv'
<1>1. CASE Call
  BY <1>1, CallStep
<1>2. CASE GoOn
  BY <1>2, GoOnStep
<1>3. CASE BusStart
  BY <1>3, StartedStep, StartFailsStep DEF BusStart
<1>4. CASE BusAddress
  BY <1>4, AddressAckedStep, AddressRefusedStep, AddressLostStep DEF BusAddress
<1>5. CASE BusWrite
  BY <1>5, BusWriteStep
<1>6. CASE BusRead
  BY <1>6, BusReadStep
<1>7. CASE BusStop
  BY <1>7, BusStopStep
<1>8. CASE ProgramEnds
  BY <1>8, ProgramEndsStep
<1>9. CASE PowerFails
  BY <1>9, PowerFailsStep
<1>10. CASE UNCHANGED vars
  BY <1>10, StutterStep
<1> QED BY <1>1, <1>2, <1>3, <1>4, <1>5, <1>6, <1>7, <1>8, <1>9, <1>10 DEF Next, Driver

THEOREM Invariance == Spec => []IInv
<1>1. Init => IInv
  BY InitIInv
<1>2. IInv /\ [Next]_vars => IInv'
  BY NextIInv
<1> QED BY <1>1, <1>2, PTL DEF Spec

LEMMA TypesFollow == ASSUME IInv PROVE TypeOK
<1>1. DOMAIN slave = Devices /\ E2 \in Eeproms /\ Clock \in Clocks
  BY DEF IInv, DeviceTypes
<1>2. \A a \in DOMAIN slave : \A c \in 1..Len(slave[a].cells) : slave[a].cells[c] \in 0..255
  <2>1. /\ E2.cells \in [1..E2Cells -> Octet] /\ Clock.cells \in [1..7 -> Octet]
    BY <1>1, BytesAreOctets DEF Eeproms, Clocks
  <2>2. Len(E2.cells) = E2Cells /\ Len(Clock.cells) = 7
    BY <2>1, Sizes
  <2> QED BY <1>1, <2>1, <2>2 DEF E2, Clock, Devices, Octet
<1>3. phase = "idle" => \A a \in DOMAIN slave : ~slave[a].sending
  BY <1>1 DEF IInv, Sending, Reading, GivenUp
<1>4. /\ phase \in {"idle", "start", "address", "byte", "stop"}
      /\ rc \in {0, -1, -2}
      /\ idx \in 0..n
      /\ phase = "byte" => idx < n
      /\ rw = "write" => n = Len(bytes)
      /\ rw = "read" /\ phase # "idle" => Len(bytes) <= n
  BY DEF IInv, Transferring
<1> QED BY <1>2, <1>3, <1>4 DEF TypeOK

\* The cursors of the master and the slaves agree, and every cell holds a byte, whatever
\* calls are made, whichever bytes are refused or lost, and wherever power fails.
THEOREM TypeCorrect == Spec => []TypeOK
<1>1. IInv => TypeOK
  BY TypesFollow
<1> QED BY <1>1, Invariance, PTL

-----------------------------------------------------------------------------
(* The date that was set is the date that is read.                         *)

LEMMA TwoDigits ==
  ASSUME NEW x \in 0..99
  PROVE  /\ x < 80 => FromBCD(BCD(x)) = x /\ FromBCD(BCD(x) + 128) = x
         /\ FromBCDYear(BCD(x)) = x
<1> DEFINE tens == x \div 10
           ones == x % 10
<1>1. tens \in 0..9 /\ ones \in 0..9 /\ x = 10 * tens + ones /\ (x < 80 => tens < 8)
  OBVIOUS
<1>2. BCD(x) = ones + (16 * tens)
  BY <1>1 DEF BCD
<1> HIDE DEF tens, ones
<1>3. BCD(x) % 16 = ones /\ BCD(x) \div 16 = tens
  BY <1>1, <1>2
<1>4. (BCD(x) + 128) % 16 = ones /\ (BCD(x) + 128) \div 16 = tens + 8
  BY <1>1, <1>2
<1>5. tens < 8 => tens % 8 = tens /\ (tens + 8) % 8 = tens
  BY <1>1
<1> QED BY <1>1, <1>3, <1>4, <1>5 DEF FromBCD, FromBCDYear

\* The tens of an hour that set_date is called with fit the bits they are read from:
\* the driver does not check them.
HoursFit == \A d \in Dates : d.hour < 80

LEMMA DateDecoded ==
  ASSUME HoursFit, NEW d \in Dates, NEW weekday \in Weekdays, Sensible(d),
         NEW regs, \A r \in 1..7 : regs[r] = Registers(d, weekday)[r]
  PROVE  Decoded(regs) = d
<1>1. d \in [second : 0..255, minute : 0..255, hour : 0..255,
             date : 0..255, month : 0..255, year : 0..255]
  BY CallsAssumption
<1>2. d.second \in 0..59 /\ d.minute \in 0..59 /\ d.year \in 0..99 /\ d.month \in 1..12
  BY <1>1 DEF Sensible
<1>3. d.hour \in 0..79
  BY <1>1 DEF HoursFit
<1>4. d.date \in 0..31
  <2>1. max_month_days(d.year)[d.month] \in 28..31
    <3>1. (IF Leap(d.year) THEN 28 ELSE 29) \in 28..31
      OBVIOUS
    <3> QED BY <1>2, <3>1 DEF max_month_days
  <2> QED BY <1>1, <2>1 DEF Sensible
<1>5. /\ regs[1] = BCD(d.second) + 128 /\ regs[2] = BCD(d.minute) + 128
      /\ regs[3] = BCD(d.hour) /\ regs[5] = BCD(d.date)
      /\ regs[6] = BCD(d.month) /\ regs[7] = BCD(d.year)
  BY DEF Registers
<1>6. \A x \in 0..79 : FromBCD(BCD(x)) = x /\ FromBCD(BCD(x) + 128) = x
  BY TwoDigits
<1>7. \A x \in 0..99 : FromBCDYear(BCD(x)) = x
  BY TwoDigits
<1>8. /\ FromBCD(regs[1]) = d.second /\ FromBCD(regs[2]) = d.minute
      /\ FromBCD(regs[3]) = d.hour /\ FromBCD(regs[5]) = d.date
      /\ FromBCD(regs[6]) = d.month /\ FromBCDYear(regs[7]) = d.year
  BY <1>2, <1>3, <1>4, <1>5, <1>6, <1>7
<1> QED BY <1>1, <1>8 DEF Decoded

LEMMA GotDate ==
  ASSUME HoursFit, IInv, [Next]_vars, rtc = "get", rtc' = "none",
         rtc_result'.rc = 0, clock_date # NoDate, ~Leap(clock_date.year)
  PROVE  rtc_result'.date = clock_date
<1>1. BusStop
  <2>1. ~Call /\ ~GoOn
    BY DEF Call, Free, GoOn, E2ReadOn, Construct, RTCReadOn, rtc_driver
  <2>2. ~BusAddress /\ ~BusWrite /\ ~BusRead /\ ~ProgramEnds /\ ~PowerFails /\ ~UNCHANGED vars
    BY DEF BusAddress, BusWrite, BusRead, ProgramEnds, PowerFails, InDrivers, vars, rtc_driver
  <2>3. ~BusStart
    BY DEF BusStart, InDrivers, Returned, E2Returns, RTCReturns, DateResult, rtc_driver
  <2> QED BY <2>1, <2>2, <2>3 DEF Next, Driver
<1>2. phase = "stop" /\ rc = 0 /\ rtc_result' = DateResult(0, Decoded(bytes))
  BY <1>1 DEF BusStop, Stopped, Returned, E2Returns, RTCReturns, DateResult, rtc_driver
<1>3. RTCTransfer /\ rw = "read" /\ n = 7
  BY <1>2 DEF IInv, Calling, E2Transfer, RTCTransfer
<1>4. \A k \in 1..7 : bytes[k] = Flagged(k)
  BY <1>2, <1>3 DEF IInv, Transferring, RegistersRead
<1>5. PICK weekday \in Weekdays : \A r \in 1..7 :
        Clock.cells[r] = Registers(clock_date, weekday)[r]
  BY DEF IInv, DateStored
<1>6. clock_date \in Dates /\ Sensible(clock_date)
  BY DEF IInv, DateStored
<1>7. FromBCDYear(Clock.cells[7]) = clock_date.year
  <2>1. clock_date.year \in 0..99
    <3>1. clock_date.year \in 0..255
      BY <1>6, CallsAssumption
    <3>2. clock_date.year <= 99
      BY <1>6 DEF Sensible
    <3> QED BY <3>1, <3>2
  <2>2. Clock.cells[7] = BCD(clock_date.year)
    BY <1>5 DEF Registers
  <2> QED BY <2>1, <2>2, TwoDigits
<1>8. \A k \in 1..7 : Flagged(k) = Clock.cells[k]
  BY <1>7 DEF Flagged
<1>9. \A k \in 1..7 : bytes[k] = Registers(clock_date, weekday)[k]
  BY <1>4, <1>5, <1>8
<1>10. Decoded(bytes) = clock_date
  BY <1>6, <1>9, DateDecoded
<1> QED BY <1>2, <1>10 DEF DateResult

\* A date goes to the registers in two digits of four bits each and comes back, the flags
\* of the clock's registers masked, whatever transfers failed in between.  In a leap year
\* the month is read with the leap flag of its register, and is another one.
THEOREM DateKeptAlways == ASSUME HoursFit PROVE Spec => DateKept
<1>1. IInv /\ [Next]_vars =>
        [rtc = "get" /\ rtc' = "none" /\ rtc_result'.rc = 0 /\ clock_date # NoDate
           => Leap(clock_date.year) \/ rtc_result'.date = clock_date]_vars
  BY GotDate
<1> QED BY <1>1, Invariance, PTL DEF Spec, DateKept

-----------------------------------------------------------------------------
(* The pages of the store.                                                 *)

PagesOf(all) == [p \in Pages |-> [i \in 1..E2_PAGE_SIZE |-> all[p * E2_PAGE_SIZE + i]]]

LEMMA PageIs ==
  ASSUME NEW all \in [1..E2Cells -> Bytes], NEW p \in Pages
  PROVE  /\ SubSeq(all, p * E2_PAGE_SIZE + 1, (p + 1) * E2_PAGE_SIZE)
              = [i \in 1..E2_PAGE_SIZE |-> all[p * E2_PAGE_SIZE + i]]
         /\ \A i \in 1..E2_PAGE_SIZE : all[p * E2_PAGE_SIZE + i] \in Bytes
<1> DEFINE start == p * E2_PAGE_SIZE
           size == E2_PAGE_SIZE
           page == [i \in 1..size |-> all[start + i]]
           part == SubSeq(all, start + 1, start + size)
<1>1. /\ size \in Nat \ {0} /\ start \in Nat /\ start + size <= E2Cells
      /\ E2Cells \in Nat /\ (p + 1) * E2_PAGE_SIZE = start + size
  BY Sizes, PageFits DEF Pages
<1> HIDE DEF start, size
<1>2. \A i \in 1..size : all[start + i] \in Bytes
  BY <1>1
<1>3. page \in Seq(Bytes) /\ Len(page) = size
  BY <1>1, <1>2
<1>4. /\ part \in Seq(Bytes) /\ Len(part) = size
      /\ \A i \in 1..size : part[i] = all[start + i]
  <2>1. PICK m \in Int : m = start + 1
    BY <1>1
  <2>2. PICK l \in Int : l = start + size
    BY <1>1
  <2>3. m <= l /\ l - m + 1 = size /\ \A i \in 1..size : m + i - 1 = start + i
    BY <1>1, <2>1, <2>2
  <2>4. \A i \in m..l : all[i] \in Bytes
    BY <1>1, <2>1, <2>2
  <2>5. /\ SubSeq(all, m, l) \in Seq(Bytes)
        /\ Len(SubSeq(all, m, l)) = IF m <= l THEN l - m + 1 ELSE 0
        /\ \A i \in 1..(l - m + 1) : SubSeq(all, m, l)[i] = all[m + i - 1]
    BY <2>4, SubSeqProperties
  <2>6. part = SubSeq(all, m, l)
    BY <2>1, <2>2
  <2> HIDE DEF part
  <2> QED BY <2>3, <2>5, <2>6
<1>5. \A i \in 1..Len(part) : part[i] = page[i]
  BY <1>4
<1> HIDE DEF part
<1>6. part = page
  <2> HIDE DEF page
  <2> QED BY <1>3, <1>4, <1>5, SeqEqual
<1> QED BY <1>1, <1>2, <1>6 DEF part, page, start, size

LEMMA PagesAre ==
  ASSUME NEW all \in [1..E2Cells -> Bytes]
  PROVE  /\ [p \in 0..E2_LAST_ADDRESS |->
               SubSeq(all, p * E2_PAGE_SIZE + 1, (p + 1) * E2_PAGE_SIZE)] = PagesOf(all)
         /\ PagesOf(all) \in [Pages -> [1..E2_PAGE_SIZE -> Bytes]]
<1>1. \A p \in Pages :
        /\ SubSeq(all, p * E2_PAGE_SIZE + 1, (p + 1) * E2_PAGE_SIZE)
             = [i \in 1..E2_PAGE_SIZE |-> all[p * E2_PAGE_SIZE + i]]
        /\ \A i \in 1..E2_PAGE_SIZE : all[p * E2_PAGE_SIZE + i] \in Bytes
  BY PageIs
<1> QED BY <1>1 DEF PagesOf, Pages

LEMMA StorePages ==
  ASSUME IInv
  PROVE  /\ E2 \in Eeproms /\ S!Overlaid(E2) \in [1..E2Cells -> Bytes]
         /\ E2Pages = PagesOf(S!Overlaid(E2))
         /\ E2Pages \in [Pages -> [1..E2_PAGE_SIZE -> Bytes]]
<1>1. E2 \in Eeproms
  BY DEF IInv, DeviceTypes
<1>2. S!Overlaid(E2) \in [1..E2Cells -> Bytes]
  BY <1>1, OverlaidType DEF IInv, Buffered, InPage
<1>3. E2Pages = PagesOf(S!Overlaid(E2))
  BY <1>2, PagesAre DEF E2Pages
<1> QED BY <1>1, <1>2, <1>3, PagesAre

\* The names PageStore uses.
LEMMA StoreNames ==
  /\ Store!Pages = Pages /\ Store!Contents = [1..E2_PAGE_SIZE -> Bytes]
  /\ Store!NoPage = -1 /\ Store!NoCall = NoCall
BY Sizes DEF Store!Pages, Store!Contents, Store!NoPage, Store!NoCall, Pages, Bytes, NoCall

\* The call that the store sees.
LEMMA StoreCall ==
  ASSUME Calling
  PROVE  /\ e2 = NoCall => E2Call = NoCall
         /\ E2Call = NoCall => e2 = NoCall
         /\ e2 # NoCall =>
              /\ E2Call.op = IF e2.op = "write" THEN "write" ELSE "read"
              /\ E2Call.page = e2.page /\ E2Call.data = e2.data /\ E2Call.length = e2.length
<1>1. CASE e2 = NoCall
  BY <1>1 DEF E2Call, NoCall
<1>2. CASE e2 # NoCall
  <2>1. e2 \in [op : {"write", "point", "read"}, page : Pages, data : Seq(Bytes),
                length : 1..E2_PAGE_SIZE]
    BY <1>2 DEF Calling
  <2>2. /\ E2Call.op = IF e2.op = "write" THEN "write" ELSE "read"
        /\ E2Call.page = e2.page /\ E2Call.data = e2.data /\ E2Call.length = e2.length
    BY <2>1 DEF E2Call
  <2>3. E2Call # NoCall
    <3>1. E2Call.op # "none" /\ NoCall.op = "none"
      BY <2>2 DEF NoCall
    <3> QED BY <3>1
  <2> QED BY <1>2, <2>2, <2>3
<1> QED BY <1>1, <1>2

LEMMA StoreInit == ASSUME Init PROVE Store!Init
<1>1. IInv
  BY InitIInv
<1>2. E2Pages \in [Store!Pages -> Store!Contents]
  BY <1>1, StorePages, StoreNames
<1>3. phase = "idle" /\ e2 = NoCall /\ e2_result = NoResult /\ E2.received = <<>>
      /\ E2.programming = FALSE
  BY TwoDevices DEF Init, IICInit, E2Init, E2, S!New
<1>4. S!Data(E2) = <<>>
  <2>1. Len(E2.received) = 0
    BY <1>3
  <2> QED BY <1>1, <2>1, DataIs DEF IInv, DeviceTypes
<1>5. E2Call = Store!NoCall /\ E2Accepted = 0 /\ E2Unsettled = Store!NoPage
  <2>1. E2Call = NoCall
    BY <1>1, <1>3, StoreCall DEF IInv
  <2>2. E2Accepted = 0 /\ E2Unsettled = -1
    BY <1>3, <1>4 DEF E2Accepted, E2Unsettled, NoCall
  <2> QED BY <2>1, <2>2, StoreNames
<1>6. E2Outcome = Store!Done(<<>>)
  BY <1>3 DEF E2Outcome, NoResult, Store!Done
<1> QED BY <1>2, <1>5, <1>6 DEF Store!Init

-----------------------------------------------------------------------------
(* Steps that the store does not see, and calls that return.               *)

\* Nothing is accepted between calls.
LEMMA NothingAccepted ==
  /\ e2 = NoCall => E2Accepted = 0
  /\ E2.programming => E2Accepted = 0
  /\ S!Data(E2) = <<>> => E2Accepted = 0
<1>1. Len(<<>>) = 0
  OBVIOUS
<1> QED BY <1>1 DEF E2Accepted, NoCall

LEMMA NothingUnsettled == S!Data(E2) = <<>> => E2Unsettled = -1
BY DEF E2Unsettled

LEMMA DeviceSame ==
  ASSUME UNCHANGED E2
  PROVE  E2Pages' = E2Pages /\ E2Unsettled' = E2Unsettled
BY DEF E2Pages, E2Unsettled

LEMMA BufferEmpty ==
  ASSUME S!Data(E2) = <<>>, S!Data(E2)' = <<>>, E2'.cells = E2.cells
  PROVE  E2Pages' = E2Pages /\ E2Unsettled' = E2Unsettled /\ E2Accepted = 0 /\ E2Accepted' = 0
<1>1. S!Overlaid(E2) = E2.cells
  BY OverlaidEmpty
<1>2. S!Overlaid(E2)' = E2'.cells
  <2>1. PICK s : s = E2'
    OBVIOUS
  <2>2. S!Overlaid(s) = s.cells
    BY <2>1, OverlaidEmpty
  <2> QED BY <2>1, <2>2
<1>3. E2Pages' = E2Pages
  BY <1>1, <1>2 DEF E2Pages
<1>4. E2Unsettled = -1 /\ E2Unsettled' = -1
  BY DEF E2Unsettled
<1>5. E2Accepted = 0 /\ E2Accepted' = 0
  <2>1. Len(<<>>) = 0
    OBVIOUS
  <2> QED BY <2>1 DEF E2Accepted
<1> QED BY <1>3, <1>4, <1>5

LEMMA Unseen ==
  ASSUME UNCHANGED e2_driver, E2Pages' = E2Pages, E2Unsettled' = E2Unsettled,
         E2Accepted' = E2Accepted
  PROVE  UNCHANGED Store!vars
<1>1. E2Call' = E2Call /\ E2Outcome' = E2Outcome
  BY DEF e2_driver, E2Call, E2Outcome
<1> QED BY <1>1 DEF Store!vars

LEMMA UnseenByE2 ==
  ASSUME UNCHANGED <<e2_driver, E2>>
  PROVE  UNCHANGED Store!vars
<1>1. E2Accepted' = E2Accepted
  BY DEF E2Accepted, e2_driver
<1> QED BY <1>1, DeviceSame, Unseen

LEMMA NoLongerCalled ==
  ASSUME Calling, Calling', e2' = NoCall
  PROVE  E2Call' = Store!NoCall /\ E2Accepted' = 0
<1>1. E2Call' = NoCall
  BY DEF E2Call, NoCall
<1>2. E2Accepted' = 0
  BY DEF E2Accepted, NoCall
<1> QED BY <1>1, <1>2, StoreNames

LEMMA FailStep ==
  ASSUME IInv, IInv', e2 # NoCall, e2' = NoCall, NEW r, r # 0, e2_result' = Failure(r),
         E2Pages' = E2Pages, E2Unsettled' = E2Unsettled
  PROVE  Store!Fail
<1>1. E2Call # Store!NoCall
  BY StoreCall, StoreNames DEF IInv
<1>2. E2Call' = Store!NoCall /\ E2Accepted' = 0
  BY NoLongerCalled DEF IInv
<1>3. E2Outcome' = Store!Failed
  BY DEF E2Outcome, Failure, Store!Failed
<1> QED BY <1>1, <1>2, <1>3 DEF Store!Fail, Store!Returns

-----------------------------------------------------------------------------
(* Calls.                                                                  *)

LEMMA CallRefines == ASSUME IInv, IInv', Call PROVE Store!Next
<1>1. e2 = NoCall /\ UNCHANGED slave /\ phase = "idle"
  BY NothingCalled DEF Call, Free
<1>2. E2' = E2 /\ E2Pages' = E2Pages /\ E2Unsettled' = E2Unsettled
  BY <1>1, DeviceSame DEF E2
<1>3. E2Call = Store!NoCall /\ E2Accepted = 0
  BY <1>1, StoreCall, NothingAccepted, StoreNames DEF IInv
<1>4. E2Accepted' = 0
  <2>1. ~SentTo(E2_IIC_ADDRESS)
    BY <1>1 DEF SentTo
  <2>2. E2.programming \/ S!Data(E2) = <<>>
    <3>1. CASE ~E2.programming
      <4>1. Len(E2.received) = 0
        BY <2>1, <3>1 DEF IInv, Prefix
      <4> QED BY <4>1, DataIs DEF IInv, DeviceTypes
    <3> QED BY <3>1
  <2>3. Len(<<>>) = 0
    OBVIOUS
  <2> QED BY <1>2, <2>2, <2>3 DEF E2Accepted
<1>5. CASE \E c \in E2Calls : E2Refuse(c.page, c.length)
  <2>1. e2' = e2 /\ e2_result' = Failure(-1)
    BY <1>5 DEF E2Refuse
  <2>2. E2Outcome' = Store!Failed
    <3>1. PICK r : r = -1 /\ r # 0
      OBVIOUS
    <3>2. e2_result' = Failure(r)
      BY <2>1, <3>1
    <3> QED BY <3>1, <3>2 DEF E2Outcome, Failure, Store!Failed
  <2>3. E2Call' = E2Call
    BY <2>1 DEF E2Call
  <2> QED BY <1>2, <1>3, <1>4, <2>2, <2>3 DEF Store!Refuse, Store!Next
<1>6. CASE e2_result' = NoResult /\ e2' = e2
  <2>1. E2Outcome' = Store!Done(<<>>)
    BY <1>6 DEF E2Outcome, NoResult, Store!Done
  <2>2. E2Call' = E2Call
    BY <1>6 DEF E2Call
  <2> QED BY <1>2, <1>3, <1>4, <2>1, <2>2 DEF Store!Forget, Store!Next
<1>7. CASE \E c \in E2Calls : \/ c.op = "write" /\ memory_write(c.page, c.data)
                              \/ c.op = "read" /\ memory_read(c.page, c.length)
  <2>1. e2' # NoCall /\ e2_result' = NoResult
    BY <1>7 DEF memory_write, memory_read, NoCall
  <2>2. E2Outcome' = Store!Done(<<>>)
    BY <2>1 DEF E2Outcome, NoResult, Store!Done
  <2>3. /\ e2' \in [op : {"write", "point", "read"}, page : Pages, data : Seq(Bytes),
                    length : 1..E2_PAGE_SIZE]
        /\ e2'.op = "write" => e2'.length = Len(e2'.data)
    BY <2>1 DEF IInv, Calling
  <2>4. /\ E2Call'.op = IF e2'.op = "write" THEN "write" ELSE "read"
        /\ E2Call'.page = e2'.page /\ E2Call'.data = e2'.data /\ E2Call'.length = e2'.length
    BY <2>3 DEF E2Call
  <2>5. /\ E2Call'.op \in {"write", "read"}
        /\ Store!Fits(E2Call'.page, E2Call'.length)
        /\ E2Call'.op = "write" => E2Call'.length = Len(E2Call'.data)
    BY <2>3, <2>4, StoreNames DEF Store!Fits
  <2> QED BY <1>2, <1>3, <1>4, <2>2, <2>5 DEF Store!Begin, Store!Next
<1> QED BY <1>5, <1>6, <1>7 DEF Call

-----------------------------------------------------------------------------
(* Steps of the bus.                                                       *)

LEMMA GoOnRefines == ASSUME GoOn PROVE UNCHANGED Store!vars
BY UnseenByE2 DEF GoOn, E2ReadOn, E2

LEMMA StartRefines ==
  ASSUME IInv, IInv', BusStart
  PROVE  Store!Next \/ UNCHANGED Store!vars
<1>1. UNCHANGED E2
  BY DEF BusStart, E2
<1>2. CASE UNCHANGED e2_driver
  BY <1>1, <1>2, UnseenByE2
<1>3. CASE E2Returns(-1, bytes)
  <2>1. /\ e2' = NoCall /\ e2_result' = Failure(-1)
        /\ e2.op \in {"write", "point", "read"}
    BY <1>3 DEF E2Returns
  <2>2. e2 # NoCall
    <3>1. NoCall.op = "none"
      BY DEF NoCall
    <3> QED BY <2>1, <3>1
  <2>3. E2Pages' = E2Pages /\ E2Unsettled' = E2Unsettled
    BY <1>1, DeviceSame
  <2>4. -1 # 0
    OBVIOUS
  <2> QED BY <2>1, <2>2, <2>3, <2>4, FailStep DEF Store!Next
<1> QED BY <1>2, <1>3 DEF BusStart, InDrivers, Returned

\* The EEPROM's buffer is empty before and after the step.
LEMMA EmptyRefines ==
  ASSUME IInv, IInv', UNCHANGED e2_driver, Len(E2.received) <= 2, Len(E2'.received) <= 2,
         E2'.cells = E2.cells
  PROVE  UNCHANGED Store!vars
<1>1. S!Data(E2) = <<>>
  BY DataIs DEF IInv, DeviceTypes
<1>2. S!Data(E2)' = <<>>
  <2>1. PICK s \in Eeproms : s = E2'
    BY DEF IInv, DeviceTypes
  <2>2. S!Data(s) = <<>>
    BY <2>1, DataIs
  <2> QED BY <2>1, <2>2
<1> QED BY <1>1, <1>2, BufferEmpty, Unseen

\* A step that concerns the clock.
LEMMA ClockRefines ==
  ASSUME DeviceTypes, addr # E2_IIC_ADDRESS, NEW s, Becomes(s)
  PROVE  UNCHANGED E2
BY DEF DeviceTypes, Becomes, E2, Devices

LEMMA AddressRefines == ASSUME IInv, IInv', BusAddress PROVE UNCHANGED Store!vars
<1>1. UNCHANGED e2_driver /\ phase = "address"
  BY DEF BusAddress, InDrivers, AddressAcked, AddressRefused
<1>2. CASE UNCHANGED E2
  BY <1>1, <1>2, UnseenByE2
<1>3. CASE addr = E2_IIC_ADDRESS /\ Becomes(S!Selected(E2, rw)) /\ ~E2.programming
  <2>1. E2 \in Eeproms /\ E2' = S!Selected(E2, rw)
    BY <1>3 DEF IInv, DeviceTypes, Becomes, E2, Devices
  <2>2. E2'.received = <<>> /\ E2'.cells = E2.cells
    BY <2>1 DEF S!Selected, Eeproms
  <2>3. E2.received = <<>>
    BY <1>1, <1>3, NothingYet DEF IInv, Prefix
  <2>4. Len(E2.received) <= 2 /\ Len(E2'.received) <= 2
    BY <2>2, <2>3
  <2> QED BY <1>1, <2>2, <2>4, EmptyRefines
<1>4. CASE addr # E2_IIC_ADDRESS /\ \E s : Becomes(s)
  BY <1>2, <1>4, ClockRefines DEF IInv
<1> QED BY <1>2, <1>3, <1>4 DEF BusAddress, S!Answers, E2

LEMMA ReadRefines == ASSUME IInv, IInv', BusRead PROVE UNCHANGED Store!vars
<1>1. UNCHANGED e2_driver /\ phase = "byte" /\ rw = "read"
  BY DEF BusRead, InDrivers, ByteReceived, ByteLost
<1>2. CASE addr # E2_IIC_ADDRESS
  <2>1. \E s : Becomes(s)
    BY DEF BusRead
  <2> QED BY <1>1, <1>2, <2>1, ClockRefines, UnseenByE2 DEF IInv
<1>3. CASE addr = E2_IIC_ADDRESS
  <2>1. E2 \in Eeproms /\ (E2' = S!Sent(E2, Acks) \/ E2' = S!Silenced(E2)
                             \/ E2' = S!Sent(E2, TRUE))
    BY <1>3 DEF IInv, DeviceTypes, BusRead, Becomes, E2, Devices
  <2>2. E2'.received = E2.received /\ E2'.cells = E2.cells
    BY <2>1 DEF S!Sent, S!Silenced, Eeproms
  <2>3. ~E2.programming
    <3>1. e2.op = "read"
      BY <1>1, <1>3, ToE2 DEF IInv, E2Transfer
    <3> QED BY <3>1 DEF IInv, PageRead
  <2>4. E2.received = <<>>
    BY <1>1, <2>3 DEF IInv, Prefix, SentTo
  <2>5. Len(E2.received) <= 2 /\ Len(E2'.received) <= 2
    BY <2>2, <2>4
  <2> QED BY <1>1, <2>2, <2>5, EmptyRefines
<1> QED BY <1>2, <1>3

-----------------------------------------------------------------------------
(* A byte of a write is accepted.                                          *)

\* The pages with the first l bytes of data in one of them.
Shown(cells, page, l, data) ==
  [p \in Pages |-> [i \in 1..E2_PAGE_SIZE |->
     IF p = page /\ i <= l THEN data[i] ELSE cells[p * E2_PAGE_SIZE + i]]]

\* What is read of the EEPROM while a page is written: the bytes accepted so far, and
\* what the page held.
LEMMA OverlaidPages ==
  ASSUME NEW s \in Eeproms, NEW page \in Pages, s.pointer = page * E2_PAGE_SIZE,
         Len(S!Data(s)) <= E2_PAGE_SIZE
  PROVE  PagesOf(S!Overlaid(s)) = Shown(s.cells, page, Len(S!Data(s)), S!Data(s))
<1> DEFINE data == S!Data(s)
           size == E2_PAGE_SIZE
           start == page * size
<1>1. S!Overlaid(s) = [c \in 1..E2Cells |->
                         IF c - start \in 1..Len(data) THEN data[c - start] ELSE s.cells[c]]
  BY OverlaidIs
<1>2. size \in Nat \ {0} /\ Len(data) \in Nat
  BY Sizes, DataIs
<1>3. ASSUME NEW p \in Pages, NEW i \in 1..size
      PROVE  S!Overlaid(s)[p * size + i] =
               IF p = page /\ i <= Len(data) THEN data[i] ELSE s.cells[p * size + i]
  <2> DEFINE c == p * size + i
  <2>1. c \in 1..E2Cells /\ start \in Nat /\ p * size \in Nat
    BY <1>2, PageFits, Sizes
  <2>2. S!Overlaid(s)[c] = IF c - start \in 1..Len(data) THEN data[c - start] ELSE s.cells[c]
    BY <1>1, <2>1
  <2>3. CASE p = page
    <3>1. c - start = i
      BY <1>2, <2>1, <2>3
    <3> HIDE DEF c, start, data
    <3>2. c - start \in 1..Len(data) <=> i <= Len(data)
      BY <1>2, <3>1
    <3> QED BY <2>2, <2>3, <3>1, <3>2 DEF c
  <2>4. CASE p # page
    <3>1. c - start \notin 1..Len(data)
      <4>1. ASSUME c - start \in 1..Len(data) PROVE FALSE
        <5>1. PICK k \in 0..(size - 1) : c = start + k + 1
          <6> HIDE DEF c, start
          <6>1. c - start - 1 \in 0..(size - 1)
            BY <1>2, <2>1, <4>1
          <6> QED BY <2>1, <6>1
        <5>2. PICK j \in 0..(size - 1) : i = j + 1
          <6>1. i - 1 \in 0..(size - 1) /\ i = (i - 1) + 1
            BY <1>2
          <6> QED BY <6>1
        <5>3. p * size + j # page * size + k
          BY <2>4, OnePage
        <5> QED BY <2>1, <5>1, <5>2, <5>3
      <4> QED BY <4>1
    <3> QED BY <2>2, <2>4, <3>1
  <2> QED BY <2>3, <2>4
<1> HIDE DEF data, size
<1> QED BY <1>3 DEF PagesOf, Shown, data, size

\* A page with an empty buffer.
LEMMA CellPages ==
  ASSUME NEW s, S!Data(s) = <<>>
  PROVE  PagesOf(S!Overlaid(s)) =
           [p \in Pages |-> [i \in 1..E2_PAGE_SIZE |-> s.cells[p * E2_PAGE_SIZE + i]]]
BY OverlaidEmpty DEF PagesOf

\* One more byte in the buffer.
LEMMA OneMore ==
  ASSUME NEW page \in Pages, NEW k \in 0..(E2_PAGE_SIZE - 1),
         NEW s \in Eeproms, s.pointer = page * E2_PAGE_SIZE, Len(S!Data(s)) = k,
         NEW t \in Eeproms, t.pointer = page * E2_PAGE_SIZE, Len(S!Data(t)) = k + 1,
         t.cells = s.cells, \A i \in 1..k : S!Data(t)[i] = S!Data(s)[i]
  PROVE  PagesOf(S!Overlaid(t)) =
           [PagesOf(S!Overlaid(s)) EXCEPT ![page][k + 1] = S!Data(t)[k + 1]]
<1> DEFINE new == S!Data(t)
           old == S!Data(s)
           cells == s.cells
           Row(p, l, data) == [i \in 1..E2_PAGE_SIZE |->
             IF p = page /\ i <= l THEN data[i] ELSE cells[p * E2_PAGE_SIZE + i]]
           before == [p \in Pages |-> Row(p, k, old)]
           after == [p \in Pages |-> Row(p, k + 1, new)]
<1>1. /\ E2_PAGE_SIZE \in Nat \ {0} /\ k \in Nat /\ k + 1 \in 1..E2_PAGE_SIZE
      /\ k <= E2_PAGE_SIZE /\ k + 1 <= E2_PAGE_SIZE
  BY Sizes
<1>2. PagesOf(S!Overlaid(s)) = before
  <2>1. PagesOf(S!Overlaid(s)) = Shown(s.cells, page, k, S!Data(s))
    BY <1>1, OverlaidPages
  <2> QED BY <2>1 DEF Shown
<1>3. PagesOf(S!Overlaid(t)) = after
  <2>1. PagesOf(S!Overlaid(t)) = Shown(s.cells, page, k + 1, S!Data(t))
    BY <1>1, OverlaidPages
  <2> QED BY <2>1 DEF Shown
<1>4. \A i \in 1..k : new[i] = old[i]
  OBVIOUS
<1> HIDE DEF new, old, cells
<1>5. Row(page, k + 1, new) = [Row(page, k, old) EXCEPT ![k + 1] = new[k + 1]]
  <2>1. ASSUME NEW i \in 1..E2_PAGE_SIZE
        PROVE  Row(page, k + 1, new)[i] = IF i = k + 1 THEN new[k + 1] ELSE Row(page, k, old)[i]
    <3>1. CASE i = k + 1
      BY <1>1, <3>1
    <3>2. CASE i # k + 1
      <4>1. i <= k + 1 <=> i <= k
        BY <1>1, <3>2
      <4>2. i <= k => new[i] = old[i]
        BY <1>1, <1>4
      <4> QED BY <3>2, <4>1, <4>2
    <3> QED BY <3>1, <3>2
  <2>2. /\ Row(page, k + 1, new) = [i \in 1..E2_PAGE_SIZE |-> Row(page, k + 1, new)[i]]
        /\ Row(page, k, old) = [i \in 1..E2_PAGE_SIZE |-> Row(page, k, old)[i]]
    OBVIOUS
  <2> HIDE DEF Row
  <2> QED BY <1>1, <2>1, <2>2
<1>6. \A p \in Pages : p # page => Row(p, k + 1, new) = Row(p, k, old)
  OBVIOUS
<1>7. after = [before EXCEPT ![page][k + 1] = new[k + 1]]
  <2> HIDE DEF Row
  <2> QED BY <1>5, <1>6
<1> HIDE DEF before, after
<1> QED BY <1>2, <1>3, <1>7 DEF new

LEMMA PageOfPointer ==
  ASSUME NEW page \in Pages
  PROVE  (page * E2_PAGE_SIZE) \div E2_PAGE_SIZE = page
<1>1. /\ page \in Int /\ E2_PAGE_SIZE \in Nat \ {0} /\ 0 \in 0..(E2_PAGE_SIZE - 1)
      /\ page * E2_PAGE_SIZE + 0 = page * E2_PAGE_SIZE
  BY Sizes, PageFits DEF Pages
<1>2. (page * E2_PAGE_SIZE + 0) \div E2_PAGE_SIZE = page
  BY <1>1, Quotient
<1> QED BY <1>1, <1>2

LEMMA AcceptStep ==
  ASSUME IInv, IInv', e2' = e2, e2_result' = e2_result, e2.op = "write",
         ~E2.programming, ~E2'.programming, e2.page \in Pages,
         E2.pointer = e2.page * E2_PAGE_SIZE, E2'.pointer = E2.pointer,
         E2'.cells = E2.cells, e2.length \in 1..E2_PAGE_SIZE,
         NEW k \in Nat, k < e2.length,
         Len(S!Data(E2)) = k, Len(S!Data(E2)') = k + 1,
         \A i \in 1..k : S!Data(E2)[i] = e2.data[i],
         \A i \in 1..(k + 1) : S!Data(E2)'[i] = e2.data[i]
  PROVE  Store!Accept
<1>1. E2 \in Eeproms /\ E2Pages = PagesOf(S!Overlaid(E2))
  BY StorePages
<1>2. PICK t \in Eeproms : t = E2'
  BY DEF IInv, DeviceTypes
<1>3. E2Pages' = PagesOf(S!Overlaid(t))
  <2>1. S!Overlaid(t) \in [1..E2Cells -> Bytes]
    BY <1>2, OverlaidType DEF IInv, Buffered, InPage
  <2> QED BY <1>2, <2>1, PagesAre DEF E2Pages
<1>4. /\ t.pointer = e2.page * E2_PAGE_SIZE /\ t.cells = E2.cells
      /\ Len(S!Data(t)) = k + 1 /\ \A i \in 1..(k + 1) : S!Data(t)[i] = e2.data[i]
  BY <1>2
<1>5. \A i \in 1..k : S!Data(t)[i] = S!Data(E2)[i]
  <2>1. \A i \in 1..k : i \in 1..(k + 1)
    OBVIOUS
  <2> QED BY <1>4, <2>1
<1>6. k \in 0..(E2_PAGE_SIZE - 1)
  BY Sizes
<1>7. E2Pages' = [E2Pages EXCEPT ![e2.page][k + 1] = e2.data[k + 1]]
  <2>1. PagesOf(S!Overlaid(t)) =
          [PagesOf(S!Overlaid(E2)) EXCEPT ![e2.page][k + 1] = S!Data(t)[k + 1]]
    BY <1>1, <1>4, <1>5, <1>6, OneMore
  <2>2. S!Data(t)[k + 1] = e2.data[k + 1]
    BY <1>4
  <2> QED BY <1>1, <1>3, <2>1, <2>2
<1>8. E2Accepted = k /\ E2Accepted' = k + 1
  BY DEF E2Accepted
<1>9. E2Unsettled = -1 \/ E2Accepted > 0
  <2>1. CASE k = 0
    <3>1. S!Data(E2) \in Seq(Bytes)
      BY DataIs DEF IInv, DeviceTypes
    <3>2. S!Data(E2) = <<>>
      BY <2>1, <3>1, EmptySeq
    <3> QED BY <3>2, NothingUnsettled
  <2>2. CASE k # 0
    BY <1>8, <2>2
  <2> QED BY <2>1, <2>2
<1>10. E2Unsettled' = e2.page
  <2>1. S!Data(E2)' # <<>>
    <3>1. Len(<<>>) = 0 /\ k + 1 # 0
      OBVIOUS
    <3> QED BY <3>1
  <2>2. E2'.pointer \div E2_PAGE_SIZE = e2.page
    BY PageOfPointer
  <2> QED BY <2>1, <2>2 DEF E2Unsettled
<1>11. /\ E2Call.op = "write" /\ E2Call.page = e2.page /\ E2Call.data = e2.data
       /\ E2Call.length = e2.length
  <2>1. e2 # NoCall
    <3>1. NoCall.op = "none"
      BY DEF NoCall
    <3> QED BY <3>1
  <2> QED BY <2>1, StoreCall DEF IInv
<1>12. E2Call' = E2Call /\ E2Outcome' = E2Outcome
  BY DEF E2Call, E2Outcome
<1> QED BY <1>7, <1>8, <1>9, <1>10, <1>11, <1>12, StoreNames DEF Store!Accept

LEMMA E2WriteRefines ==
  ASSUME IInv, IInv', phase = "byte", rw = "write", addr = E2_IIC_ADDRESS,
         UNCHANGED e2_driver, Becomes(S!Received(E2, bytes[idx + 1]))
  PROVE  Store!Next \/ UNCHANGED Store!vars
<1> DEFINE b == bytes[idx + 1]
           t == S!Received(E2, b)
<1>1. idx \in Nat /\ idx < n /\ rc = 0 /\ n = Len(bytes) /\ n \in Nat
  BY SendingByte
<1>2. /\ bytes \in Seq(Bytes) /\ e2.op \in {"write", "point"}
      /\ Len(bytes) = IF e2.op = "write" THEN 2 + e2.length ELSE 2
      /\ e2.op = "write" => \A i \in 1..e2.length : bytes[i + 2] = e2.data[i]
  BY WrittenToE2 DEF IInv
<1>3. b \in Bytes
  BY <1>1, <1>2
<1>4. SentTo(E2_IIC_ADDRESS) /\ ~E2.programming
  BY <1>1 DEF SentTo, IInv, Prefix
<1>5. Len(E2.received) = idx /\ \A i \in 1..idx : E2.received[i] = bytes[i]
  BY <1>1, <1>4 DEF IInv, Prefix, Beginning
<1>6. E2 \in Eeproms /\ E2.received \in Seq(Bytes)
  BY DEF IInv, DeviceTypes, Eeproms
<1>7. /\ t \in Eeproms /\ t.received = Append(E2.received, b) /\ t.cells = E2.cells
      /\ t.programming = E2.programming
      /\ idx # 1 => t.pointer = E2.pointer
  BY <1>3, <1>5, <1>6, EepromReceives
<1>8. E2' = t
  <2> HIDE DEF t
  <2>1. Becomes(t)
    BY DEF t
  <2> QED BY <1>7, <2>1, BecomesE2 DEF IInv
<1> HIDE DEF t
<1>9. Len(t.received) = idx + 1 /\ \A i \in 1..(idx + 1) : t.received[i] = bytes[i]
  BY <1>1, <1>3, <1>5, <1>6, <1>7, Longer DEF b
<1>10. CASE idx < 2
  <2>1. Len(E2.received) <= 2 /\ Len(E2'.received) <= 2
    BY <1>1, <1>5, <1>8, <1>9, <1>10
  <2> QED BY <1>7, <1>8, <2>1, EmptyRefines
<1>11. CASE ~(idx < 2)
  <2>1. PICK k \in Nat : idx = k + 2
    <3>1. idx - 2 \in Nat /\ idx = (idx - 2) + 2
      BY <1>1, <1>11
    <3> QED BY <3>1
  <2>2. e2.op = "write" /\ e2.length \in 1..E2_PAGE_SIZE /\ e2.page \in Pages
    BY <1>1, <1>2, <1>11, ToE2 DEF IInv
  <2>3. k < e2.length
    BY <1>1, <1>2, <2>1, <2>2
  <2>4. E2.pointer = e2.page * E2_PAGE_SIZE
    BY <1>1, <1>4, <1>5, <1>11 DEF IInv, Buffered, InPage
  <2>5. \A i \in 1..(k + 1) : bytes[i + 2] = e2.data[i]
    <3>1. \A i \in 1..(k + 1) : i \in 1..e2.length
      BY <2>2, <2>3
    <3> QED BY <1>2, <2>2, <3>1
  <2>6. Len(S!Data(E2)) = k /\ \A i \in 1..k : S!Data(E2)[i] = e2.data[i]
    <3>1. /\ Len(S!Data(E2)) = IF Len(E2.received) >= 2 THEN Len(E2.received) - 2 ELSE 0
          /\ \A i \in 1..(Len(E2.received) - 2) : S!Data(E2)[i] = E2.received[i + 2]
      BY <1>6, DataIs
    <3>2. Len(E2.received) - 2 = k /\ Len(E2.received) >= 2
      BY <1>5, <2>1
    <3>3. \A i \in 1..k : i \in 1..(k + 1) /\ i + 2 \in 1..idx
      BY <2>1
    <3> QED BY <1>5, <2>5, <3>1, <3>2, <3>3
  <2>7. Len(S!Data(t)) = k + 1 /\ \A i \in 1..(k + 1) : S!Data(t)[i] = e2.data[i]
    <3>1. /\ Len(S!Data(t)) = IF Len(t.received) >= 2 THEN Len(t.received) - 2 ELSE 0
          /\ \A i \in 1..(Len(t.received) - 2) : S!Data(t)[i] = t.received[i + 2]
      BY <1>7, DataIs
    <3>2. Len(t.received) - 2 = k + 1 /\ Len(t.received) >= 2
      BY <1>9, <2>1
    <3>3. \A i \in 1..(k + 1) : i + 2 \in 1..(idx + 1)
      BY <2>1
    <3> QED BY <1>9, <2>5, <3>1, <3>2, <3>3
  <2>8. S!Data(E2)' = S!Data(t)
    BY <1>8
  <2>9. E2'.pointer = E2.pointer /\ E2'.cells = E2.cells /\ ~E2'.programming
    BY <1>4, <1>7, <1>8, <1>11
  <2>10. UNCHANGED <<e2, e2_result>>
    BY DEF e2_driver
  <2>11. Len(S!Data(E2)') = k + 1 /\ \A i \in 1..(k + 1) : S!Data(E2)'[i] = e2.data[i]
    BY <2>7, <2>8
  <2>12. Store!Accept
    BY <1>4, <2>2, <2>3, <2>4, <2>6, <2>9, <2>10, <2>11, AcceptStep
  <2> QED BY <2>12 DEF Store!Next
<1> QED BY <1>10, <1>11

LEMMA WriteRefines ==
  ASSUME IInv, IInv', BusWrite
  PROVE  Store!Next \/ UNCHANGED Store!vars
<1>1. phase = "byte" /\ rw = "write" /\ UNCHANGED e2_driver
  BY DEF BusWrite, ByteAcked, ByteRefused, InDrivers
<1>2. Becomes(S!Received(slave[addr], bytes[idx + 1])) \/ UNCHANGED slave
  BY DEF BusWrite
<1>3. CASE UNCHANGED slave
  BY <1>1, <1>3, UnseenByE2 DEF E2
<1>4. CASE addr # E2_IIC_ADDRESS /\ \E s : Becomes(s)
  BY <1>1, <1>4, ClockRefines, UnseenByE2 DEF IInv
<1>5. CASE addr = E2_IIC_ADDRESS /\ Becomes(S!Received(E2, bytes[idx + 1]))
  BY <1>1, <1>5, E2WriteRefines
<1> QED BY <1>2, <1>3, <1>4, <1>5 DEF E2

-----------------------------------------------------------------------------
(* The end of a transfer.                                                  *)

\* The stop condition starts the programming of what is in the buffer: the store does
\* not see it.
LEMMA StopKeepsPages ==
  ASSUME IInv, E2' = S!AfterStop(E2), ~E2.sending
  PROVE  E2Pages' = E2Pages /\ E2Unsettled' = E2Unsettled
<1>1. E2 \in Eeproms /\ (E2.programming => S!Data(E2) # <<>>)
  BY DEF IInv, DeviceTypes, Buffered
<1>2. CASE S!Data(E2) = <<>>
  <2>1. PICK t : t = S!AfterStop(E2)
    OBVIOUS
  <2>2. t \in Eeproms /\ t.cells = E2.cells /\ t.received = <<>>
    BY <1>1, <1>2, <2>1, EepromStops
  <2>3. Len(t.received) = 0
    BY <2>2
  <2>4. S!Data(t) = <<>>
    BY <2>2, <2>3, DataIs
  <2> QED BY <1>2, <2>1, <2>2, <2>4, BufferEmpty
<1>3. CASE S!Data(E2) # <<>>
  <2>1. E2.block > 0
    BY <1>1, DeviceAssumption DEF Eeproms
  <2>2. E2' = [E2 EXCEPT !.programming = TRUE]
    BY <1>3, <2>1 DEF S!AfterStop
  <2>3. /\ E2'.cells = E2.cells /\ E2'.received = E2.received /\ E2'.pointer = E2.pointer
        /\ E2'.addressing = E2.addressing /\ E2'.block = E2.block
    BY <1>1, <2>2 DEF Eeproms
  <2>4. S!Data(E2)' = S!Data(E2)
    BY <2>3 DEF S!Data
  <2>5. S!Overlaid(E2)' = S!Overlaid(E2)
    BY <2>3, <2>4 DEF S!Overlaid, S!InBlock, S!Size
  <2> QED BY <2>3, <2>4, <2>5 DEF E2Pages, E2Unsettled
<1> QED BY <1>2, <1>3

\* memory_read returns what the page holds.
LEMMA ReadStep ==
  ASSUME IInv, IInv', phase = "stop", addr = E2_IIC_ADDRESS, rc = 0, e2.op = "read",
         e2' = NoCall, e2_result' = [rc |-> 0, data |-> bytes],
         E2Pages' = E2Pages, E2Unsettled' = E2Unsettled
  PROVE  Store!Read
<1>1. /\ e2 # NoCall /\ e2.page \in Pages /\ e2.length \in 1..E2_PAGE_SIZE
      /\ rw = "read" /\ n = e2.length
  BY ToE2 DEF IInv, E2Transfer
<1>2. bytes \in Seq(Nat) /\ Len(bytes) = e2.length
  BY <1>1 DEF IInv, Transferring
<1>3. ~E2.programming /\ \A i \in 1..e2.length : bytes[i] = E2.cells[e2.page * E2_PAGE_SIZE + i]
  BY <1>1, <1>2 DEF IInv, PageRead, Transferring
<1>4. S!Data(E2) = <<>>
  <2>1. E2.received = <<>>
    BY <1>1, <1>3 DEF IInv, Prefix, SentTo
  <2>2. Len(E2.received) <= 2
    BY <2>1
  <2> QED BY <2>2, DataIs DEF IInv, DeviceTypes
<1>5. \A i \in 1..E2_PAGE_SIZE : E2Pages[e2.page][i] = E2.cells[e2.page * E2_PAGE_SIZE + i]
  <2>1. E2Pages = PagesOf(S!Overlaid(E2)) /\ S!Overlaid(E2) = E2.cells
    BY <1>4, StorePages, OverlaidEmpty
  <2> QED BY <1>1, <2>1 DEF PagesOf
<1>6. PICK page : page = E2Pages[e2.page]
  OBVIOUS
<1>7. PICK l \in Nat : l = e2.length /\ l <= E2_PAGE_SIZE
  BY <1>1, Sizes
<1>8. \A i \in 1..l : page[i] = bytes[i] /\ page[i] \in Nat
  <2>1. \A i \in 1..l : i \in 1..E2_PAGE_SIZE /\ i \in 1..Len(bytes)
    BY <1>2, <1>7, Sizes
  <2>2. \A i \in 1..l : page[i] = bytes[i]
    BY <1>3, <1>5, <1>6, <1>7, <2>1
  <2>3. \A i \in 1..l : bytes[i] \in Nat
    BY <1>2, <2>1
  <2> QED BY <2>2, <2>3
<1>9. SubSeq(page, 1, l) = bytes
  <2>1. /\ SubSeq(page, 1, l) \in Seq(Nat)
        /\ Len(SubSeq(page, 1, l)) = l
        /\ \A i \in 1..l : SubSeq(page, 1, l)[i] = page[i]
    BY <1>8
  <2>2. \A i \in 1..Len(SubSeq(page, 1, l)) : SubSeq(page, 1, l)[i] = bytes[i]
    BY <1>8, <2>1
  <2>3. Len(SubSeq(page, 1, l)) = Len(bytes)
    BY <1>2, <1>7, <2>1
  <2> QED BY <1>2, <2>1, <2>2, <2>3, SeqEqual
<1>10. E2Outcome' = Store!Done(bytes)
  BY DEF E2Outcome, Store!Done
<1>11. E2Call.op = "read" /\ E2Call.page = e2.page /\ E2Call.length = e2.length
  BY <1>1, StoreCall DEF IInv
<1>12. E2Call' = Store!NoCall /\ E2Accepted' = 0
  BY NoLongerCalled DEF IInv
<1>13. E2Outcome' = Store!Done(SubSeq(E2Pages[E2Call.page], 1, E2Call.length))
  BY <1>6, <1>7, <1>9, <1>10, <1>11
<1> QED BY <1>11, <1>12, <1>13 DEF Store!Read, Store!Returns

\* memory_write has written all that it was given.
LEMMA WrittenStep ==
  ASSUME IInv, IInv', phase = "stop", addr = E2_IIC_ADDRESS, rc = 0, e2.op = "write",
         e2' = NoCall, e2_result' = Failure(0),
         E2Pages' = E2Pages, E2Unsettled' = E2Unsettled
  PROVE  Store!Written
<1>1. e2 # NoCall /\ e2.length \in 1..E2_PAGE_SIZE /\ rw = "write" /\ e2.length \in Nat
  BY ToE2, Sizes DEF IInv, E2Transfer
<1>2. Len(bytes) = 2 + e2.length /\ n = Len(bytes) /\ idx = n
  BY <1>1, WrittenToE2 DEF IInv, Transferring
<1>3. SentTo(E2_IIC_ADDRESS)
  BY <1>1 DEF SentTo
<1>4. ~E2.programming
  BY <1>3 DEF IInv, Prefix
<1>5. Len(E2.received) = 2 + e2.length
  <2>1. Len(E2.received) = idx
    BY <1>3, <1>4 DEF IInv, Prefix, Beginning
  <2> QED BY <1>2, <2>1
<1>6. Len(S!Data(E2)) = e2.length
  <2>1. Len(S!Data(E2)) = IF Len(E2.received) >= 2 THEN Len(E2.received) - 2 ELSE 0
    BY DataIs DEF IInv, DeviceTypes
  <2> QED BY <1>1, <1>5, <2>1
<1>7. E2Accepted = e2.length
  BY <1>4, <1>6 DEF E2Accepted
<1>8. E2Call.op = "write" /\ E2Call.length = e2.length
  BY <1>1, StoreCall DEF IInv
<1>9. E2Call' = Store!NoCall /\ E2Accepted' = 0
  BY NoLongerCalled DEF IInv
<1>10. E2Outcome' = Store!Done(<<>>)
  BY DEF E2Outcome, Failure, Store!Done
<1> QED BY <1>7, <1>8, <1>9, <1>10 DEF Store!Written, Store!Returns

LEMMA E2StopRefines ==
  ASSUME IInv, IInv', phase = "stop", addr = E2_IIC_ADDRESS,
         E2Pages' = E2Pages, E2Unsettled' = E2Unsettled, E2Returns(rc, bytes)
  PROVE  Store!Next \/ UNCHANGED Store!vars
<1>1. e2 # NoCall
  BY ToE2 DEF IInv
<1>2. CASE e2.op = "point" /\ rc = 0
  <2>1. e2' = [e2 EXCEPT !.op = "read"] /\ e2_result' = e2_result
    BY <1>2 DEF E2Returns
  <2>2. e2 \in [op : {"write", "point", "read"}, page : Pages, data : Seq(Bytes),
                length : 1..E2_PAGE_SIZE]
    BY <1>1 DEF IInv, Calling
  <2>3. E2Call' = E2Call
    BY <1>2, <2>1, <2>2 DEF E2Call
  <2>4. e2.op # "write" /\ e2'.op # "write"
    BY <1>2, <2>1, <2>2
  <2>5. E2Accepted = 0 /\ E2Accepted' = 0
    BY <2>4 DEF E2Accepted
  <2>6. E2Outcome' = E2Outcome
    BY <2>1 DEF E2Outcome
  <2> QED BY <2>3, <2>5, <2>6 DEF Store!vars
<1>3. CASE e2.op \in {"point", "read"} /\ rc # 0
  <2>1. e2' = NoCall /\ e2_result' = Failure(-1)
    BY <1>3 DEF E2Returns
  <2>2. -1 # 0
    OBVIOUS
  <2> QED BY <1>1, <2>1, <2>2, FailStep DEF Store!Next
<1>4. CASE e2.op = "read" /\ rc = 0
  <2>1. e2' = NoCall /\ e2_result' = [rc |-> 0, data |-> bytes]
    BY <1>4 DEF E2Returns
  <2>2. Store!Read
    BY <1>4, <2>1, ReadStep
  <2> QED BY <2>2 DEF Store!Next
<1>5. CASE e2.op = "write" /\ rc # 0
  <2>1. e2' = NoCall /\ e2_result' = Failure(rc)
    BY <1>5 DEF E2Returns
  <2> QED BY <1>1, <1>5, <2>1, FailStep DEF Store!Next
<1>6. CASE e2.op = "write" /\ rc = 0
  <2>1. e2' = NoCall /\ e2_result' = Failure(0)
    BY <1>6 DEF E2Returns
  <2>2. Store!Written
    BY <1>6, <2>1, WrittenStep
  <2> QED BY <2>2 DEF Store!Next
<1> QED BY <1>2, <1>3, <1>4, <1>5, <1>6 DEF E2Returns

LEMMA StopRefines ==
  ASSUME IInv, IInv', BusStop
  PROVE  Store!Next \/ UNCHANGED Store!vars
<1>1. phase = "stop" /\ Becomes(S!AfterStop(slave[addr])) /\ Returned(rc)
  BY DEF BusStop, Stopped
<1>2. CASE addr # E2_IIC_ADDRESS
  <2>1. e2 = NoCall /\ e2.op = "none"
    BY <1>1, <1>2, OneOfTwo, ToClock DEF IInv
  <2>2. UNCHANGED e2_driver
    BY <1>1, <2>1 DEF Returned, E2Returns
  <2> QED BY <1>1, <1>2, <2>2, ClockRefines, UnseenByE2 DEF IInv
<1>3. CASE addr = E2_IIC_ADDRESS
  <2>1. E2' = S!AfterStop(E2)
    BY <1>1, <1>3 DEF IInv, DeviceTypes, Becomes, E2, Devices
  <2>2. ~E2.sending
    <3>1. ~slave[E2_IIC_ADDRESS].sending
      BY <1>3 DEF BusStop, S!StopPossible
    <3> QED BY <3>1 DEF E2
  <2>3. E2Returns(rc, bytes)
    <3>1. rtc = "none"
      BY <1>1, <1>3, ToE2 DEF IInv, E2Transfer
    <3> QED BY <1>1, <3>1 DEF Returned, RTCReturns
  <2> QED BY <1>1, <1>3, <2>1, <2>2, <2>3, StopKeepsPages, E2StopRefines
<1> QED BY <1>2, <1>3

-----------------------------------------------------------------------------
(* The EEPROM has programmed its buffer; power is lost.                    *)

LEMMA SettleStep == ASSUME IInv, IInv', ProgramEnds PROVE Store!Settle
<1>1. /\ E2.programming /\ slave' = [slave EXCEPT ![E2_IIC_ADDRESS] = S!Programmed(E2)]
      /\ e2' = e2 /\ e2_result' = e2_result
  BY DEF ProgramEnds, E2, e2_driver
<1>2. PICK t : t = S!Programmed(E2)
  OBVIOUS
<1>3. E2' = t
  BY <1>1, <1>2 DEF IInv, DeviceTypes, E2, Devices
<1>4. t \in Eeproms
  BY <1>3 DEF IInv, DeviceTypes
<1>5. t.cells = S!Overlaid(E2) /\ t.received = <<>>
  BY <1>2, StorePages DEF S!Programmed, Eeproms
<1>6. S!Data(t) = <<>>
  <2>1. Len(t.received) = 0
    BY <1>5
  <2> QED BY <1>4, <2>1, DataIs
<1>7. S!Overlaid(t) = S!Overlaid(E2)
  BY <1>5, <1>6, OverlaidEmpty
<1>8. E2Pages' = E2Pages
  BY <1>3, <1>7 DEF E2Pages
<1>9. E2Accepted = 0
  BY <1>1, NothingAccepted
<1>10. E2Unsettled' = -1 /\ E2Accepted' = 0
  <2>1. Len(<<>>) = 0
    OBVIOUS
  <2> QED BY <1>3, <1>6, <2>1 DEF E2Unsettled, E2Accepted
<1>11. E2Call' = E2Call /\ E2Outcome' = E2Outcome
  BY <1>1 DEF E2Call, E2Outcome
<1> QED BY <1>8, <1>9, <1>10, <1>11, StoreNames DEF Store!Settle

\* A page that is in another block than the one in the buffer keeps its contents.
LEMMA UndamagedPage ==
  ASSUME NEW s \in Eeproms, NEW page \in Pages, s.pointer = page * E2_PAGE_SIZE,
         Len(S!Data(s)) <= E2_PAGE_SIZE,
         NEW damaged \in SUBSET S!Endangered(s),
         NEW cells,
         \A c \in 1..E2Cells : c \notin damaged =>
           cells[c] = IF s.programming THEN S!Overlaid(s)[c] ELSE s.cells[c],
         NEW p \in Pages,
         p \div (DeviceBlock \div E2_PAGE_SIZE) # page \div (DeviceBlock \div E2_PAGE_SIZE)
  PROVE  PagesOf(cells)[p] = PagesOf(S!Overlaid(s))[p]
<1>1. E2_PAGE_SIZE \in Nat \ {0} /\ 0 \in 0..(E2_PAGE_SIZE - 1) /\ page # p
  BY Sizes
<1>2. ASSUME NEW i \in 1..E2_PAGE_SIZE
      PROVE  cells[p * E2_PAGE_SIZE + i] = S!Overlaid(s)[p * E2_PAGE_SIZE + i]
  <2>1. PICK j \in 0..(E2_PAGE_SIZE - 1) : i = j + 1
    <3>1. i - 1 \in 0..(E2_PAGE_SIZE - 1) /\ i = (i - 1) + 1
      BY <1>1
    <3> QED BY <3>1
  <2>2. PICK a : a = p * E2_PAGE_SIZE + j
    OBVIOUS
  <2>3. /\ a \in Nat /\ p * E2_PAGE_SIZE + i = a + 1 /\ a + 1 \in 1..E2Cells
        /\ a + 1 - 1 = a
    BY <1>1, <2>1, <2>2, PageFits, CellOfPage, Sizes
  <2>4. a \div DeviceBlock # s.pointer \div DeviceBlock
    <3>1. a \div DeviceBlock = p \div (DeviceBlock \div E2_PAGE_SIZE)
      BY <2>2, Blocks
    <3>2. (page * E2_PAGE_SIZE + 0) \div DeviceBlock = page \div (DeviceBlock \div E2_PAGE_SIZE)
      BY <1>1, Blocks
    <3>3. page * E2_PAGE_SIZE + 0 = page * E2_PAGE_SIZE
      BY PageFits
    <3> QED BY <3>1, <3>2, <3>3
  <2>5. a + 1 \notin damaged
    <3>1. s.block = DeviceBlock
      BY DEF Eeproms
    <3>2. PICK c : c = a + 1 /\ c - 1 = a
      BY <2>3
    <3>3. ~S!InBlock(s, c - 1)
      BY <2>4, <3>1, <3>2 DEF S!InBlock
    <3>4. \A d \in damaged : S!InBlock(s, d - 1)
      BY DEF S!Endangered
    <3> QED BY <3>2, <3>3, <3>4
  <2>6. S!Overlaid(s)[a + 1] = s.cells[a + 1]
    <3>1. PagesOf(S!Overlaid(s)) = Shown(s.cells, page, Len(S!Data(s)), S!Data(s))
      BY OverlaidPages
    <3>2. PagesOf(S!Overlaid(s))[p][i] = s.cells[p * E2_PAGE_SIZE + i]
      BY <1>1, <3>1 DEF Shown
    <3>3. PagesOf(S!Overlaid(s))[p][i] = S!Overlaid(s)[p * E2_PAGE_SIZE + i]
      BY DEF PagesOf
    <3> QED BY <2>3, <3>2, <3>3
  <2>7. cells[a + 1] = S!Overlaid(s)[a + 1]
    BY <2>3, <2>5, <2>6
  <2> QED BY <2>3, <2>7
<1> QED BY <1>2 DEF PagesOf

LEMMA PowerLossStep == ASSUME IInv, IInv', PowerFails PROVE Store!PowerLoss
<1>1. PICK damaged \in SUBSET S!Endangered(E2) :
        slave' = [a \in DOMAIN slave |->
                    S!PoweredOff(slave[a], IF a = E2_IIC_ADDRESS THEN damaged ELSE {})]
  BY DEF PowerFails, E2
<1>2. e2' = NoCall /\ e2_result' = NoResult
  BY DEF PowerFails
<1>3. PICK t : t = E2'
  OBVIOUS
<1>4. /\ t \in Eeproms /\ t.received = <<>>
      /\ t.cells = [c \in 1..E2Cells |->
           IF c \in damaged THEN Released
           ELSE IF E2.programming THEN S!Overlaid(E2)[c] ELSE E2.cells[c]]
  BY <1>1, <1>3, PowerReturns DEF IInv, DeviceTypes
<1>5. S!Data(t) = <<>>
  <2>1. Len(t.received) = 0
    BY <1>4
  <2> QED BY <1>4, <2>1, DataIs
<1>6. E2Pages' = PagesOf(t.cells)
  <2>1. t.cells \in [1..E2Cells -> Bytes]
    BY <1>4 DEF Eeproms
  <2>2. S!Overlaid(t) = t.cells
    BY <1>5, OverlaidEmpty
  <2> QED BY <1>3, <2>1, <2>2, PagesAre DEF E2Pages
<1>7. E2Unsettled' = Store!NoPage
  BY <1>3, <1>5, StoreNames DEF E2Unsettled
<1>8. E2Call' = Store!NoCall /\ E2Accepted' = 0
  BY <1>2, NoLongerCalled DEF IInv
<1>9. E2Outcome' = Store!Done(<<>>)
  BY <1>2 DEF E2Outcome, NoResult, Store!Done
<1>10. ASSUME NEW p \in Pages
       PROVE  \/ E2Pages'[p] = E2Pages[p]
              \/ Store!Near(p) /\ E2Pages'[p] \in Store!Contents
  <2>1. E2Pages = PagesOf(S!Overlaid(E2)) /\ E2 \in Eeproms
    BY StorePages
  <2>2. CASE S!Data(E2) = <<>>
    <3>1. ~E2.programming
      BY <2>2 DEF IInv, Buffered
    <3>2. damaged = {}
      BY <3>1 DEF S!Endangered
    <3>3. E2.cells = [c \in 1..E2Cells |-> E2.cells[c]]
      BY <2>1 DEF Eeproms
    <3>4. t.cells = E2.cells
      BY <1>4, <3>1, <3>2, <3>3
    <3> QED BY <1>6, <2>1, <2>2, <3>4, OverlaidEmpty
  <2>3. CASE S!Data(E2) # <<>>
    <3>1. PICK page \in Pages : /\ E2.pointer = page * E2_PAGE_SIZE
                                /\ Len(S!Data(E2)) <= E2_PAGE_SIZE
      BY <2>3 DEF IInv, Buffered, InPage
    <3>2. E2Unsettled = page /\ page # -1
      BY <2>3, <3>1, PageOfPointer, Sizes DEF E2Unsettled, Pages
    <3>3. CASE p \div (DeviceBlock \div E2_PAGE_SIZE) = page \div (DeviceBlock \div E2_PAGE_SIZE)
      <4>1. Store!Near(p)
        BY <3>2, <3>3, StoreNames DEF Store!Near
      <4>2. E2Pages' \in [Pages -> [1..E2_PAGE_SIZE -> Bytes]]
        <5>1. t.cells \in [1..E2Cells -> Bytes]
          BY <1>4 DEF Eeproms
        <5> QED BY <1>6, <5>1, PagesAre
      <4> QED BY <4>1, <4>2, StoreNames
    <3>4. CASE p \div (DeviceBlock \div E2_PAGE_SIZE) # page \div (DeviceBlock \div E2_PAGE_SIZE)
      <4>1. PagesOf(t.cells)[p] = PagesOf(S!Overlaid(E2))[p]
        <5>1. \A c \in 1..E2Cells : c \notin damaged =>
                t.cells[c] = IF E2.programming THEN S!Overlaid(E2)[c] ELSE E2.cells[c]
          BY <1>4
        <5> QED BY <2>1, <3>1, <3>4, <5>1, UndamagedPage
      <4> QED BY <1>6, <2>1, <4>1
    <3> QED BY <3>3, <3>4
  <2> QED BY <2>2, <2>3
<1> QED BY <1>7, <1>8, <1>9, <1>10, StoreNames DEF Store!PowerLoss

-----------------------------------------------------------------------------
(* The EEPROM driver implements the store.                                 *)

LEMMA StoreNext == ASSUME IInv, IInv', [Next]_vars PROVE [Store!Next]_Store!vars
<1>1. CASE Call
  BY <1>1, CallRefines
<1>2. CASE GoOn
  BY <1>2, GoOnRefines
<1>3. CASE BusStart
  BY <1>3, StartRefines
<1>4. CASE BusAddress
  BY <1>4, AddressRefines
<1>5. CASE BusWrite
  BY <1>5, WriteRefines
<1>6. CASE BusRead
  BY <1>6, ReadRefines
<1>7. CASE BusStop
  BY <1>7, StopRefines
<1>8. CASE ProgramEnds
  BY <1>8, SettleStep DEF Store!Next
<1>9. CASE PowerFails
  BY <1>9, PowerLossStep DEF Store!Next
<1>10. CASE UNCHANGED vars
  BY <1>10, UnseenByE2 DEF vars, E2
<1> QED BY <1>1, <1>2, <1>3, <1>4, <1>5, <1>6, <1>7, <1>8, <1>9, <1>10 DEF Next, Driver

\* Whatever goes wrong on the bus, and whenever power is lost: a page that memory_write
\* reports as written holds the data, one that failed a beginning of it, a page that
\* memory_read returns is what it holds, and a power failure damages nothing but the
\* page being written and what is programmed together with it.
THEOREM EepromImplementsPages == Spec => ImplementsPages
<1>1. Init => Store!Init
  BY StoreInit
<1>2. IInv /\ IInv' /\ [Next]_vars => [Store!Next]_Store!vars
  BY StoreNext
<1> QED BY <1>1, <1>2, Invariance, PTL DEF Spec, ImplementsPages, Store!Spec
=============================================================================
