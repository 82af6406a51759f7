--------------------------- MODULE LogTaskProofs ---------------------------
(***************************************************************************)
(* LogTask: the log on the EEPROM survives failed writes and power loss,   *)
(* proved for every ring size, queue size, failure limit and byte size.    *)
(*                                                                         *)
(* The argument.  InOrder(o, e, pg) says that in the pages pg those below  *)
(* the end e and, if the start o of the log is past it, those from the     *)
(* start on hold entries in order: a little more than the pages in the     *)
(* log, which is what makes it inductive.  Shape(o, e) says where a bound  *)
(* can be that a broken write left half stored: a bound changes its high   *)
(* byte only when it passes a multiple of ByteSize, and half stored it is  *)
(* a multiple of ByteSize itself.  Both hold of the control block on the   *)
(* EEPROM, of the one in RAM, and, while that is being written, of         *)
(* everything that the write can leave.  A dump, in turn, has printed the  *)
(* first pages of the log whenever it is in progress.                      *)
(***************************************************************************)
EXTENDS LogTask, SequenceTheorems, TLAPS

\* The last page whose number ends in a zero byte.
TopPage == ((LAST - 1) \div ByteSize) * ByteSize

\* The first page from which on the pages are in order if the log wraps around:
\* behind a bound that was stored half, one page more than the log has.
Low(o, e) == IF e + 1 < o /\ o % ByteSize = 1 THEN o - 1 ELSE o

\* Where the bounds can be: far behind its end the log starts only where a
\* broken write left it or the start was pushed to next, and before its end at a
\* multiple of ByteSize, or at page 1 after the end came round.
Shape(o, e) ==
  /\ e + 2 < o => o % ByteSize \in {0, 1}
  /\ o <= e => o % ByteSize = 0 \/ (o = 1 /\ e >= TopPage)

\* The pages in and a little beyond the log from o to e hold entries in order.
InOrder(o, e, pg) ==
  /\ o \in Pages /\ e \in Pages
  /\ \A p \in Pages : p < e => pg[p] # 0
  /\ \A p, q \in Pages : p < q /\ q < e => pg[p] < pg[q]
  /\ e < o =>
       /\ \A p \in Pages : Low(o, e) <= p => pg[p] # 0
       /\ \A p, q \in Pages : Low(o, e) <= p /\ p < q => pg[p] < pg[q]
       /\ \A p, q \in Pages : Low(o, e) <= p /\ q < e => pg[p] < pg[q]

Sound(b, pg) == /\ InOrder(b.oldest_entry, b.next_free_entry, pg)
                /\ Shape(b.oldest_entry, b.next_free_entry)

\* Page p is in the log from o to e.
Holds(o, e, p) == IF o <= e THEN o <= p /\ p < e ELSE o <= p \/ p < e

\* A write that moves the log's bounds to o2 and e2 and finds to and te may leave
\* uo and ue: it takes in no page that is in neither log and, if it stores no
\* bound half, drops none but the oldest.
Fits(to, te, uo, ue, o2, e2) ==
  /\ \A p \in Pages : Holds(uo, ue, p) => Holds(to, te, p) \/ Holds(o2, e2, p)
  /\ \/ uo \notin {to, o2} \/ ue \notin {te, e2}
     \/ \A p \in Pages : Holds(to, te, p) /\ p # to => Holds(uo, ue, p)

\* The bounds a write that moves o, e to o2, e2 may leave.
Stages(o, e, o2, e2) ==
  {<<o, e>>, <<Half(o, o2), e>>, <<o2, e>>, <<o2, Half(e, e2)>>, <<o2, e2>>}

FitsBlocks(t, u, c) ==
  Fits(t.oldest_entry, t.next_free_entry, u.oldest_entry, u.next_free_entry,
       c.oldest_entry, c.next_free_entry)

\* The page that an entry is being written to, which may already hold it.
Tried(p) == /\ log_system_state \in {"WRITE_LOG_MSG", "IIC_FAIL"}
            /\ p = control_block.next_free_entry

\* Entries that wait are newer than every entry on the EEPROM.
QueueNewer ==
  /\ \A i \in 1..Len(queue), p \in Pages :
       pages[p] < queue[i] \/ (Tried(p) /\ pages[p] <= queue[i])
  /\ \A i, j \in 1..Len(queue) : i < j => queue[i] < queue[j]

\* The control blocks in RAM and on the EEPROM, by the state of the task.
Settled == {"READY_RW", "WRITE_LOG_MSG", "READBACK_LOG"}

BlocksAgree ==
  /\ stored.magic => Sound(stored, pages)
  /\ MayTear => stored.magic
  /\ log_system_state \in Settled =>
       control_block = IF stored.magic THEN stored ELSE Empty
  /\ log_system_state = "WRITE_CTRL_BLOCK" =>
       /\ control_block.magic /\ Sound(control_block, pages)
       /\ stored.magic => \A t \in Torn(control_block, stored) : Sound(t, pages)
       /\ stored.magic /\ ~start_delete =>
            \A t \in {stored} \cup Torn(control_block, stored) :
              \A u \in Torn(control_block, t) : FitsBlocks(t, u, control_block)
  /\ log_system_state = "WRITE_LOG_MSG" => queue # <<>>
  /\ log_system_state = "READBACK_LOG" => next_to_read \in Pages

IInv == TypeOK /\ QueueNewer /\ BlocksAgree

\* The EEPROM was formatted before writes could tear: on a blank one a torn
\* first write leaves the magic and no valid fields.
Formatted == MayTear => \A b \in InitialBlocks : b.magic

-----------------------------------------------------------------------------
LEMMA UpToNext ==
  ASSUME NEW n \in Nat, NEW i \in 1..(n + 1)
  PROVE  i = n + 1 \/ i \in 1..n
  OBVIOUS

LEMMA BelowNext ==
  ASSUME NEW n \in Nat, NEW i \in 1..(n + 1), NEW j \in 1..(n + 1), i < j
  PROVE  i \in 1..n
  OBVIOUS

-----------------------------------------------------------------------------
(***************************************************************************)
(* Numbers of two bytes, of which a broken write stores one.               *)
(***************************************************************************)
LEMMA Division ==
  ASSUME NEW n \in Nat
  PROVE  /\ n \div ByteSize \in Nat /\ n % ByteSize \in 0..(ByteSize - 1)
         /\ n = (n \div ByteSize) * ByteSize + (n % ByteSize)
  BY ByteAssumption

\* A number is given by its two digits.
LEMMA Digits ==
  ASSUME NEW d \in Nat, NEW r \in 0..(ByteSize - 1)
  PROVE  LET n == d * ByteSize + r
         IN  n \in Nat /\ n \div ByteSize = d /\ n % ByteSize = r
<1> DEFINE n == d * ByteSize + r
<1>1. d * ByteSize \in Nat
  BY ByteAssumption
<1>2. n \in Nat
  BY <1>1, ByteAssumption
<1>3. n \div ByteSize = d
  BY ByteAssumption
<1>4. n % ByteSize = r
  BY ByteAssumption
<1> QED BY <1>2, <1>3, <1>4

LEMMA Multiples ==
  ASSUME NEW x \in Nat, NEW y \in Nat, x % ByteSize = 0, y % ByteSize = 0, x < y + ByteSize
  PROVE  x <= y
<1> DEFINE a == x \div ByteSize
           b == y \div ByteSize
<1>1. /\ a \in Nat /\ b \in Nat /\ x = a * ByteSize /\ y = b * ByteSize
  <2>1. a \in Nat /\ x = a * ByteSize + (x % ByteSize)
    BY Division
  <2>2. b \in Nat /\ y = b * ByteSize + (y % ByteSize)
    BY Division
  <2> HIDE DEF a, b
  <2> QED BY <2>1, <2>2, ByteAssumption
<1> HIDE DEF a, b
<1>2. a * ByteSize < (b + 1) * ByteSize
  BY <1>1, ByteAssumption
<1>3. a < b + 1
  BY <1>1, <1>2, ByteAssumption
<1> QED BY <1>1, <1>3, ByteAssumption

LEMMA Successor ==
  ASSUME NEW n \in Nat
  PROVE  \/ /\ (n + 1) \div ByteSize = n \div ByteSize
            /\ (n + 1) % ByteSize = (n % ByteSize) + 1
         \/ /\ (n + 1) % ByteSize = 0
            /\ n % ByteSize = ByteSize - 1
            /\ (n \div ByteSize) * ByteSize = n + 1 - ByteSize
<1> DEFINE d == n \div ByteSize
           r == n % ByteSize
<1>1. d \in Nat /\ r \in 0..(ByteSize - 1) /\ n = d * ByteSize + r
  BY Division
<1> HIDE DEF d, r
<1>2. CASE r + 1 < ByteSize
  <2>1. r + 1 \in 0..(ByteSize - 1) /\ n + 1 = d * ByteSize + (r + 1)
    BY <1>1, <1>2, ByteAssumption
  <2> QED BY <1>1, <2>1, Digits DEF d, r
<1>3. CASE r + 1 = ByteSize
  <2>1. 0 \in 0..(ByteSize - 1) /\ d + 1 \in Nat /\ n + 1 = (d + 1) * ByteSize + 0
    BY <1>1, <1>3, ByteAssumption
  <2>2. (n + 1) % ByteSize = 0
    BY <2>1, Digits
  <2>3. r = ByteSize - 1 /\ d * ByteSize = n + 1 - ByteSize
    BY <1>1, <1>3, ByteAssumption
  <2> QED BY <2>2, <2>3 DEF d, r
<1> QED BY <1>1, <1>2, <1>3, ByteAssumption

LEMMA HalfIs ==
  ASSUME NEW a \in Nat, NEW b \in Nat
  PROVE  /\ Half(a, b) \in Nat /\ Half(a, a) = a
         /\ Half(Half(a, b), b) = Half(a, b)
<1>1. /\ a \div ByteSize \in Nat /\ b % ByteSize \in 0..(ByteSize - 1)
      /\ a = (a \div ByteSize) * ByteSize + (a % ByteSize)
  BY Division
<1>2. Half(a, b) \in Nat /\ Half(a, b) \div ByteSize = a \div ByteSize
  BY <1>1, Digits DEF Half
<1> QED BY <1>1, <1>2 DEF Half

LEMMA HalfZero ==
  ASSUME NEW n \in Nat
  PROVE  /\ Half(n, 0) \in Nat /\ Half(n, 0) % ByteSize = 0
         /\ n = Half(n, 0) + (n % ByteSize)
<1>1. /\ n \div ByteSize \in Nat /\ n % ByteSize \in 0..(ByteSize - 1)
      /\ n = (n \div ByteSize) * ByteSize + (n % ByteSize)
  BY Division
<1>2. 0 \in 0..(ByteSize - 1) /\ 0 = 0 * ByteSize + 0
  BY ByteAssumption
<1>3. 0 % ByteSize = 0
  BY <1>2, Digits
<1>4. Half(n, 0) = (n \div ByteSize) * ByteSize + 0
  BY <1>3 DEF Half
<1>5. Half(n, 0) \in Nat /\ Half(n, 0) % ByteSize = 0
  BY <1>1, <1>2, <1>4, Digits
<1>6. (n \div ByteSize) * ByteSize \in Nat
  BY <1>1, ByteAssumption
<1> QED BY <1>1, <1>4, <1>5, <1>6

\* A number one up, of which only the low byte is stored: the new one, or, if
\* the high byte changes too, one that is ByteSize too small.
LEMMA HalfUp ==
  ASSUME NEW n \in Nat
  PROVE  \/ Half(n, n + 1) = n + 1
         \/ /\ (n + 1) % ByteSize = 0
            /\ Half(n, n + 1) = n + 1 - ByteSize
            /\ Half(n, n + 1) \in Nat
            /\ Half(n, n + 1) % ByteSize = 0
<1>1. /\ n \div ByteSize \in Nat
      /\ n + 1 = ((n + 1) \div ByteSize) * ByteSize + ((n + 1) % ByteSize)
  BY Division
<1>2. CASE (n + 1) \div ByteSize = n \div ByteSize
  BY <1>1, <1>2 DEF Half
<1>3. CASE /\ (n + 1) % ByteSize = 0
           /\ (n \div ByteSize) * ByteSize = n + 1 - ByteSize
  <2>1. Half(n, n + 1) = (n \div ByteSize) * ByteSize + 0 /\ 0 \in 0..(ByteSize - 1)
    BY <1>3, ByteAssumption DEF Half
  <2>2. Half(n, n + 1) \in Nat /\ Half(n, n + 1) % ByteSize = 0
    BY <1>1, <2>1, Digits
  <2>3. Half(n, n + 1) = n + 1 - ByteSize
    BY <1>3, <2>1, ByteAssumption
  <2> QED BY <1>3, <2>2, <2>3
<1> QED BY <1>2, <1>3, Successor

LEMMA TopMultiple ==
  /\ TopPage \in Pages /\ TopPage % ByteSize = 0
  /\ \A x \in Pages : x % ByteSize = 0 => x <= TopPage
<1> DEFINE d == (LAST - 1) \div ByteSize
           r == (LAST - 1) % ByteSize
<1>1. /\ d \in Nat /\ r \in 0..(ByteSize - 1)
      /\ LAST - 1 = d * ByteSize + r
  BY Division, LastAssumption
<1>2. TopPage = d * ByteSize + 0 /\ 0 \in 0..(ByteSize - 1)
  BY <1>1, ByteAssumption DEF TopPage
<1> HIDE DEF d, r
<1>3. TopPage \in Nat /\ TopPage % ByteSize = 0
  BY <1>1, <1>2, Digits
<1>4. TopPage \in Pages /\ LAST - 1 < TopPage + ByteSize
  BY <1>1, <1>2, <1>3, LastAssumption, ByteAssumption DEF Pages
<1>5. ASSUME NEW x \in Pages, x % ByteSize = 0 PROVE x <= TopPage
  <2>1. x \in Nat /\ x < TopPage + ByteSize
    BY <1>3, <1>4, LastAssumption, ByteAssumption DEF Pages
  <2> QED BY <1>3, <1>5, <2>1, Multiples
<1> QED BY <1>3, <1>4, <1>5

-----------------------------------------------------------------------------
(***************************************************************************)
(* The bounds of the log: how an entry moves them, and what a write of     *)
(* them leaves when it breaks off.                                         *)
(***************************************************************************)
\* How the bounds of the log move when an entry was written to its end.
Moved(o, e, o2, e2) ==
  \/ /\ e + 1 < LAST /\ e2 = e + 1
     /\ \/ o2 = o /\ o # e + 1
        \/ o = e + 1 /\ o + 1 < LAST /\ o2 = o + 1
        \/ o = e + 1 /\ o + 1 = LAST /\ o2 = 0
  \/ /\ e + 1 = LAST /\ e2 = 0
     /\ \/ o2 = o /\ o # 0
        \/ o = 0 /\ o2 = 1

\* The log from o2 to e2 is a part of the one from o to e.
Within(o, e, o2, e2) == e2 <= e /\ (e2 < o2 => e < o /\ Low(o, e) <= Low(o2, e2))

\* What a write of the moved bounds leaves of each when only its low byte was
\* stored: no more than a bound that is already there, or a multiple of ByteSize
\* below the end of the log.
LEMMA HalfMoved ==
  ASSUME NEW o \in Pages, NEW e \in Pages, NEW o2 \in Pages, NEW e2 \in Pages,
         Moved(o, e, o2, e2)
  PROVE  LET h == Half(o, o2)
             k == Half(e, e2)
         IN  /\ h \in Pages /\ k \in Pages
             /\ \/ h \in {o, o2}
                \/ h <= e /\ h % ByteSize = 0 /\ o = e + 1
             /\ \/ k = e2
                \/ k <= e /\ k % ByteSize = 0 /\ e2 = e + 1 /\ e2 % ByteSize = 0 /\ e2 <= k + ByteSize
                \/ k <= e /\ k = TopPage /\ e2 = 0 /\ e + 1 = LAST
<1> DEFINE h == Half(o, o2)
           k == Half(e, e2)
<1>0. o \in Nat /\ e \in Nat /\ o < LAST /\ e < LAST /\ LAST \in Nat /\ ByteSize \in Nat
  BY LastAssumption, ByteAssumption DEF Pages
<1>2. h \in Pages /\ (h \in {o, o2} \/ (h <= e /\ h % ByteSize = 0 /\ o = e + 1))
  <2>1. CASE o2 = o
    BY <1>0, <2>1, HalfIs
  <2>2. CASE o = e + 1 /\ o2 = o + 1
    <3>1. h = o2 \/ (h \in Nat /\ h = o2 - ByteSize /\ h % ByteSize = 0)
      BY <1>0, <2>2, HalfUp
    <3> HIDE DEF h
    <3> QED BY <1>0, <2>2, <3>1, ByteAssumption DEF Pages
  <2>3. CASE o = e + 1 /\ o2 = 0
    <3>1. h \in Nat /\ h % ByteSize = 0 /\ o = h + (o % ByteSize)
      BY <1>0, <2>3, HalfZero
    <3>2. o % ByteSize \in Nat
      BY <1>0, ByteAssumption
    <3> HIDE DEF h
    <3> QED BY <1>0, <2>3, <3>1, <3>2 DEF Pages
  <2>4. CASE o = 0 /\ o2 = 1
    <3>1. h = 1 \/ (h \in Nat /\ h = 1 - ByteSize)
      BY <1>0, <2>4, HalfUp
    <3> HIDE DEF h
    <3> QED BY <2>4, <3>1, ByteAssumption
  <2> QED BY <2>1, <2>2, <2>3, <2>4 DEF Moved
<1>3. k \in Pages /\ (\/ k = e2
                      \/ k <= e /\ k % ByteSize = 0 /\ e2 = e + 1 /\ e2 % ByteSize = 0 /\ e2 <= k + ByteSize
                      \/ k <= e /\ k = TopPage /\ e2 = 0 /\ e + 1 = LAST)
  <2>1. CASE e2 = e + 1
    <3>1. k = e2 \/ (k \in Nat /\ k = e2 - ByteSize /\ k % ByteSize = 0 /\ e2 % ByteSize = 0)
      BY <1>0, <2>1, HalfUp
    <3> HIDE DEF k
    <3> QED BY <1>0, <2>1, <3>1, ByteAssumption DEF Pages
  <2>2. CASE e2 = 0 /\ e + 1 = LAST
    <3>1. e = LAST - 1 /\ Half(e, 0) \in Nat /\ e = Half(e, 0) + (e % ByteSize) /\ Half(e, 0) % ByteSize = 0
      BY <1>0, <2>2, HalfZero
    <3>2. k = TopPage
      <4>1. e % ByteSize \in 0..(ByteSize - 1) /\ e = (e \div ByteSize) * ByteSize + (e % ByteSize)
        BY <1>0, Division
      <4>2. (e \div ByteSize) * ByteSize \in Nat
        <5>1. e \div ByteSize \in Nat
          BY <1>0, Division
        <5> QED BY <5>1, ByteAssumption
      <4> QED BY <2>2, <3>1, <4>1, <4>2 DEF TopPage
    <3>3. TopPage \in Pages /\ TopPage <= e
      BY <2>2, <1>0, TopMultiple DEF Pages
    <3> QED BY <2>2, <3>2, <3>3
  <2> QED BY <2>1, <2>2 DEF Moved
<1> QED BY <1>2, <1>3

LEMMA ShapeMoved ==
  ASSUME NEW o \in Pages, NEW e \in Pages, NEW o2 \in Pages, NEW e2 \in Pages,
         Moved(o, e, o2, e2), Shape(o, e)
  PROVE  /\ Shape(o2, e2)
         /\ Shape(o2, e) /\ Within(o, e, o2, e)
         /\ e2 < o2 /\ e2 = e + 1 => e < o /\ Low(o, e) <= Low(o2, e2) /\ e < Low(o2, e2)
<1>0. /\ o \in Nat /\ e \in Nat /\ o < LAST /\ e < LAST /\ LAST \in Nat /\ ByteSize \in Nat
      /\ o2 \in Nat /\ e2 \in Nat /\ o2 < LAST /\ e2 < LAST /\ ByteSize >= 2
  BY LastAssumption, ByteAssumption DEF Pages
<1>1. TopPage <= LAST - 1 /\ TopPage \in Nat
  BY TopMultiple, <1>0 DEF Pages
<1>2. 0 % ByteSize = 0 /\ 1 % ByteSize = 1
  <2>1. 0 \in 0..(ByteSize - 1) /\ 1 \in 0..(ByteSize - 1) /\ 0 = 0 * ByteSize + 0 /\ 1 = 0 * ByteSize + 1
    BY <1>0
  <2> QED BY <2>1, Digits
<1> HIDE DEF TopPage
<1>3. Shape(o2, e2)
  BY <1>0, <1>1, <1>2 DEF Moved, Shape
<1>4. Shape(o2, e)
  BY <1>0, <1>1, <1>2 DEF Moved, Shape
<1>5. Within(o, e, o2, e)
  BY <1>0, <1>1, <1>2 DEF Moved, Within, Low
<1>6. e2 < o2 /\ e2 = e + 1 => e < o /\ Low(o, e) <= Low(o2, e2) /\ e < Low(o2, e2)
  BY <1>0, <1>1, <1>2 DEF Moved, Low
<1> QED BY <1>3, <1>4, <1>5, <1>6

LEMMA ShapeHalf ==
  ASSUME NEW o \in Pages, NEW e \in Pages, NEW o2 \in Pages, NEW e2 \in Pages,
         Moved(o, e, o2, e2), Shape(o, e)
  PROVE  LET h == Half(o, o2)
             k == Half(e, e2)
         IN  /\ h \notin {o, o2} => h <= e /\ Shape(h, e) /\ Within(o, e, h, e)
             /\ k # e2 => k <= e /\ Shape(o2, k) /\ Within(o, e, o2, k)
<1> DEFINE h == Half(o, o2)
           k == Half(e, e2)
<1>0. /\ o \in Nat /\ e \in Nat /\ o < LAST /\ e < LAST /\ LAST \in Nat /\ ByteSize \in Nat
      /\ o2 \in Nat /\ e2 \in Nat /\ o2 < LAST /\ e2 < LAST /\ ByteSize >= 2
  BY LastAssumption, ByteAssumption DEF Pages
<1>1. /\ TopPage <= LAST - 1 /\ TopPage \in Nat /\ TopPage % ByteSize = 0
      /\ \A x \in Pages : x % ByteSize = 0 => x <= TopPage
  BY TopMultiple, <1>0 DEF Pages
<1>2. 0 % ByteSize = 0 /\ 1 % ByteSize = 1
  <2>1. 0 \in 0..(ByteSize - 1) /\ 1 \in 0..(ByteSize - 1) /\ 0 = 0 * ByteSize + 0 /\ 1 = 0 * ByteSize + 1
    BY <1>0
  <2> QED BY <2>1, Digits
<1>3. /\ h \in Pages /\ k \in Pages
      /\ \/ h \in {o, o2}
         \/ h <= e /\ h % ByteSize = 0 /\ o = e + 1
      /\ \/ k = e2
         \/ k <= e /\ k % ByteSize = 0 /\ e2 = e + 1 /\ e2 % ByteSize = 0 /\ e2 <= k + ByteSize
         \/ k <= e /\ k = TopPage /\ e2 = 0 /\ e + 1 = LAST
  BY HalfMoved
<1>4. h \in Nat /\ k \in Nat
  BY <1>0, <1>3 DEF Pages
<1> HIDE DEF TopPage, h, k
<1>5. h \notin {o, o2} => h <= e /\ Shape(h, e) /\ Within(o, e, h, e)
  BY <1>0, <1>3, <1>4 DEF Shape, Within
<1>6. ASSUME k <= e, k % ByteSize = 0, e2 = e + 1, e2 % ByteSize = 0, e2 <= k + ByteSize
      PROVE  Shape(o2, k) /\ Within(o, e, o2, k)
  <2>1. CASE o <= e /\ o2 = o
    <3>1. o % ByteSize = 0
      BY <1>0, <1>1, <1>6, <2>1 DEF Shape, Pages
    <3>2. o <= k
      <4>1. o < k + ByteSize
        BY <1>0, <1>4, <1>6, <2>1
      <4> QED BY <1>0, <1>4, <1>6, <3>1, <4>1, Multiples
    <3> QED BY <1>0, <1>4, <1>6, <2>1, <3>1, <3>2 DEF Shape, Within
  <2>2. CASE e + 1 < o /\ o2 = o
    <3>1. e + 2 = o => o % ByteSize = 1
      <4> SUFFICES ASSUME o = e2 + 1 PROVE o % ByteSize = 1
        BY <1>0, <1>6
      <4>1. e2 % ByteSize # ByteSize - 1
        BY <1>0, <1>6
      <4> QED BY <1>0, <1>6, <4>1, Successor
    <3> QED BY <1>0, <1>4, <1>6, <2>2, <3>1 DEF Shape, Within, Low
  <2>3. CASE o = e + 1 /\ o2 = o + 1
    <3>1. o2 % ByteSize = 1
      <4>1. e2 % ByteSize # ByteSize - 1 /\ o2 = e2 + 1
        BY <1>0, <1>6, <2>3
      <4> QED BY <1>0, <1>6, <4>1, Successor
    <3>2. k < e
      <4>1. e = k => e % ByteSize = 0 /\ (e + 1) % ByteSize = 0
        BY <1>0, <1>6
      <4>2. ~(e % ByteSize = 0 /\ (e + 1) % ByteSize = 0)
        BY <1>0, Successor
      <4> QED BY <1>0, <1>4, <1>6, <4>1, <4>2
    <3> QED BY <1>0, <1>4, <1>6, <2>3, <3>1, <3>2 DEF Shape, Within, Low
  <2>4. CASE o = e + 1 /\ o2 = 0
    BY <1>0, <1>2, <1>4, <1>6, <2>4 DEF Shape, Within
  <2> QED BY <1>0, <1>6, <2>1, <2>2, <2>3, <2>4 DEF Moved
<1>7. ASSUME k <= e, k = TopPage, e2 = 0, e + 1 = LAST, k # e2
      PROVE  Shape(o2, k) /\ Within(o, e, o2, k)
  <2>1. CASE o2 = o
    <3>1. o <= k
      BY <1>0, <1>1, <1>7, <2>1, <1>4 DEF Shape
    <3> QED BY <1>0, <1>1, <1>4, <1>7, <2>1, <3>1 DEF Shape, Within
  <2>2. CASE o = 0 /\ o2 = 1
    BY <1>0, <1>1, <1>4, <1>7, <2>2 DEF Shape, Within
  <2> QED BY <1>0, <1>7, <2>1, <2>2 DEF Moved
<1>8. k # e2 => k <= e /\ Shape(o2, k) /\ Within(o, e, o2, k)
  BY <1>3, <1>6, <1>7
<1> QED BY <1>5, <1>8 DEF h, k

\* A delete: both bounds go to page 0.
LEMMA ShapeDeleted ==
  ASSUME NEW o \in Pages, NEW e \in Pages, Shape(o, e)
  PROVE  /\ Half(o, 0) \in Pages /\ Half(e, 0) \in Pages
         /\ Shape(Half(o, 0), e) /\ Within(o, e, Half(o, 0), e)
         /\ Half(e, 0) <= e
         /\ \A f \in Pages : f <= e => Shape(0, f) /\ Within(o, e, 0, f)
<1> DEFINE h == Half(o, 0)
           k == Half(e, 0)
<1>0. /\ o \in Nat /\ e \in Nat /\ o < LAST /\ e < LAST /\ LAST \in Nat /\ ByteSize \in Nat
      /\ ByteSize >= 2
  BY LastAssumption, ByteAssumption DEF Pages
<1>1. h \in Nat /\ h % ByteSize = 0 /\ o = h + (o % ByteSize) /\ o % ByteSize \in Nat
  BY <1>0, HalfZero
<1>2. k \in Nat /\ e = k + (e % ByteSize) /\ e % ByteSize \in Nat
  BY <1>0, HalfZero
<1> HIDE DEF h, k
<1>3. h \in Pages /\ k \in Pages /\ k <= e
  BY <1>0, <1>1, <1>2 DEF Pages
<1>4. Shape(h, e)
  BY <1>0, <1>1 DEF Shape
<1>5. Within(o, e, h, e)
  BY <1>0, <1>1 DEF Shape, Within, Low
<1>6. ASSUME NEW f \in Pages, f <= e PROVE Shape(0, f) /\ Within(o, e, 0, f)
  <2>1. 0 % ByteSize = 0
    <3>1. 0 \in 0..(ByteSize - 1) /\ 0 = 0 * ByteSize + 0
      BY <1>0
    <3> QED BY <3>1, Digits
  <2>2. f \in Nat
    BY <1>0 DEF Pages
  <2> QED BY <1>6, <2>1, <2>2 DEF Shape, Within
<1> QED BY <1>3, <1>4, <1>5, <1>6 DEF h, k

LEMMA FitsMoved ==
  ASSUME NEW o \in Pages, NEW e \in Pages, NEW o2 \in Pages, NEW e2 \in Pages,
         Moved(o, e, o2, e2), Shape(o, e),
         NEW t \in Stages(o, e, o2, e2), NEW u \in Stages(t[1], t[2], o2, e2)
  PROVE  Fits(t[1], t[2], u[1], u[2], o2, e2)
<1> DEFINE h == Half(o, o2)
           k == Half(e, e2)
<1>0. /\ o \in Nat /\ e \in Nat /\ o < LAST /\ e < LAST /\ LAST \in Nat
      /\ o2 \in Nat /\ e2 \in Nat /\ o2 < LAST /\ e2 < LAST /\ Pages \subseteq Nat
      /\ \A p \in Pages : p < LAST
  BY LastAssumption DEF Pages
<1>1. /\ h \in {o, o2} \/ (h <= e /\ o = e + 1)
      /\ k = e2 \/ (k <= e /\ (k < o2 => e < o))
      /\ h \in Nat /\ k \in Nat
  BY <1>0, HalfMoved, ShapeHalf DEF Within, Pages
<1>2. /\ Half(h, o2) = h /\ Half(o2, o2) = o2 /\ Half(k, e2) = k /\ Half(e2, e2) = e2
  BY <1>0, HalfIs
<1>3. t \in {<<o, e>>, <<h, e>>, <<o2, e>>, <<o2, k>>, <<o2, e2>>}
  BY DEF Stages
<1>4. u \in {t, <<Half(t[1], o2), t[2]>>, <<o2, t[2]>>, <<o2, Half(t[2], e2)>>, <<o2, e2>>}
  BY <1>3 DEF Stages
<1>5. h = Half(o, o2) /\ k = Half(e, e2)
  OBVIOUS
<1> HIDE DEF h, k
<1>6. Fits(o, e, o, e, o2, e2) /\ Fits(o, e, h, e, o2, e2)
  BY <1>0, <1>1 DEF Fits, Holds, Moved
<1>7. Fits(o, e, o2, e, o2, e2)
  BY <1>0, <1>1 DEF Fits, Holds, Moved
<1>8. Fits(o, e, o2, k, o2, e2)
  BY <1>0, <1>1 DEF Fits, Holds, Moved
<1>9. Fits(o, e, o2, e2, o2, e2)
  BY <1>0, <1>1 DEF Fits, Holds, Moved
<1>10. Fits(h, e, h, e, o2, e2) /\ Fits(h, e, o2, e, o2, e2)
  BY <1>0, <1>1 DEF Fits, Holds, Moved
<1>11. Fits(h, e, o2, k, o2, e2)
  BY <1>0, <1>1 DEF Fits, Holds, Moved
<1>12. Fits(h, e, o2, e2, o2, e2)
  BY <1>0, <1>1 DEF Fits, Holds, Moved
<1>13. Fits(o2, e, o2, e, o2, e2) /\ Fits(o2, e, o2, k, o2, e2) /\ Fits(o2, e, o2, e2, o2, e2)
  BY <1>0, <1>1 DEF Fits, Holds, Moved
<1>14. Fits(o2, k, o2, k, o2, e2) /\ Fits(o2, k, o2, e2, o2, e2) /\ Fits(o2, e2, o2, e2, o2, e2)
  BY <1>0, <1>1 DEF Fits, Holds, Moved
<1>15. CASE t = <<o, e>>
  BY <1>4, <1>5, <1>6, <1>7, <1>8, <1>9, <1>15
<1>16. CASE t = <<h, e>>
  BY <1>2, <1>4, <1>5, <1>10, <1>11, <1>12, <1>16
<1>17. CASE t = <<o2, e>>
  BY <1>2, <1>4, <1>5, <1>13, <1>17
<1>18. CASE t = <<o2, k>>
  BY <1>2, <1>4, <1>14, <1>18
<1>19. CASE t = <<o2, e2>>
  BY <1>2, <1>4, <1>14, <1>19
<1> QED BY <1>3, <1>15, <1>16, <1>17, <1>18, <1>19

-----------------------------------------------------------------------------
(***************************************************************************)
(* The bounds and the pages they describe.                                 *)
(***************************************************************************)
LEMMA LowIs ==
  ASSUME NEW o \in Pages, NEW e \in Pages
  PROVE  Low(o, e) \in Int /\ (e < o => e < Low(o, e) /\ Low(o, e) <= o)
  BY LastAssumption DEF Low, Pages

LEMMA InOrderWithin ==
  ASSUME NEW pg \in [Pages -> Nat], NEW o, NEW e, InOrder(o, e, pg),
         NEW o2 \in Pages, NEW e2 \in Pages, Within(o, e, o2, e2)
  PROVE  InOrder(o2, e2, pg)
<1>1. o \in Pages /\ e \in Pages /\ Pages \subseteq Int
  BY DEF InOrder, Pages
<1>2. \A p \in Pages : p < e2 => p < e
  BY <1>1 DEF Within
<1>3. /\ \A p \in Pages : p < e2 => pg[p] # 0
      /\ \A p, q \in Pages : p < q /\ q < e2 => pg[p] < pg[q]
  BY <1>2 DEF InOrder
<1>4. ASSUME e2 < o2
      PROVE  /\ \A p \in Pages : Low(o2, e2) <= p => pg[p] # 0
             /\ \A p, q \in Pages : Low(o2, e2) <= p /\ p < q => pg[p] < pg[q]
             /\ \A p, q \in Pages : Low(o2, e2) <= p /\ q < e2 => pg[p] < pg[q]
  <2>1. e < o /\ \A p \in Pages : Low(o2, e2) <= p => Low(o, e) <= p
    BY <1>1, <1>4, LowIs DEF Within
  <2> QED BY <1>2, <2>1 DEF InOrder
<1> QED BY <1>3, <1>4 DEF InOrder

\* The free page is not in the log: what it holds does not matter.
LEMMA FreePage ==
  ASSUME NEW pg \in [Pages -> Nat], NEW x, NEW o, NEW e, InOrder(o, e, pg)
  PROVE  /\ InOrder(o, e, [pg EXCEPT ![e] = x])
         /\ ~Holds(o, e, e)
<1> DEFINE pg2 == [pg EXCEPT ![e] = x]
<1>1. \A p \in Pages : p # e => pg2[p] = pg[p]
  OBVIOUS
<1> HIDE DEF pg2
<1>2. o \in Pages /\ e \in Pages /\ Pages \subseteq Int
  BY DEF InOrder, Pages
<1>3. /\ \A p \in Pages : p < e => pg2[p] = pg[p]
      /\ \A p, q \in Pages : p < q /\ q < e => p < e
  BY <1>1, <1>2
<1>4. /\ \A p \in Pages : p < e => pg2[p] # 0
      /\ \A p, q \in Pages : p < q /\ q < e => pg2[p] < pg2[q]
  BY <1>3 DEF InOrder
<1>5. ASSUME e < o
      PROVE  /\ \A p \in Pages : Low(o, e) <= p => pg2[p] # 0
             /\ \A p, q \in Pages : Low(o, e) <= p /\ p < q => pg2[p] < pg2[q]
             /\ \A p, q \in Pages : Low(o, e) <= p /\ q < e => pg2[p] < pg2[q]
  <2>1. /\ \A p \in Pages : Low(o, e) <= p => pg2[p] = pg[p]
        /\ \A p, q \in Pages : Low(o, e) <= p /\ p < q => Low(o, e) <= q
    BY <1>1, <1>2, <1>5, LowIs
  <2> QED BY <1>3, <1>5, <2>1 DEF InOrder
<1>6. ~Holds(o, e, e)
  BY <1>2 DEF Holds
<1> QED BY <1>2, <1>4, <1>5, <1>6 DEF InOrder, pg2

\* An entry newer than all others is written to the free page and the bounds
\* move on.
LEMMA InOrderMoved ==
  ASSUME NEW pg \in [Pages -> Nat], NEW o, NEW e, InOrder(o, e, pg), Shape(o, e),
         NEW x \in Nat, x # 0, \A p \in Pages : p # e => pg[p] < x,
         NEW o2 \in Pages, NEW e2 \in Pages, Moved(o, e, o2, e2)
  PROVE  InOrder(o2, e2, [pg EXCEPT ![e] = x])
<1> DEFINE pg2 == [pg EXCEPT ![e] = x]
<1>1. /\ o \in Pages /\ e \in Pages /\ LAST \in Nat /\ Pages \subseteq Int
      /\ \A p \in Pages : 0 <= p /\ p < LAST
  BY LastAssumption DEF InOrder, Pages
<1>2. InOrder(o, e, pg2)
  BY FreePage
<1>3. /\ \A p \in Pages : p # e => pg2[p] < x
      /\ pg2[e] = x
      /\ \A p \in Pages : pg2[p] \in Nat
  BY <1>1
<1> HIDE DEF pg2
<1>4. ASSUME e2 = e + 1 PROVE InOrder(o2, e2, pg2)
  <2>1. \A p \in Pages : p < e2 => p < e \/ p = e
    BY <1>1, <1>4
  <2>2. \A p \in Pages : p < e2 => pg2[p] # 0
    BY <1>2, <1>3, <2>1 DEF InOrder
  <2>3. ASSUME NEW p \in Pages, NEW q \in Pages, p < q, q < e2 PROVE pg2[p] < pg2[q]
    <3>1. q < e \/ q = e
      BY <2>1, <2>3
    <3>2. CASE q < e
      BY <1>2, <2>3, <3>2 DEF InOrder
    <3>3. CASE q = e
      BY <1>1, <1>3, <2>3, <3>3
    <3> QED BY <3>1, <3>2, <3>3
  <2>4. ASSUME e2 < o2
        PROVE  /\ \A p \in Pages : Low(o2, e2) <= p => pg2[p] # 0
               /\ \A p, q \in Pages : Low(o2, e2) <= p /\ p < q => pg2[p] < pg2[q]
               /\ \A p, q \in Pages : Low(o2, e2) <= p /\ q < e2 => pg2[p] < pg2[q]
    <3>1. e < o /\ Low(o, e) <= Low(o2, e2) /\ e < Low(o2, e2)
      BY <1>1, <1>4, <2>4, ShapeMoved
    <3>2. \A p \in Pages : Low(o2, e2) <= p => Low(o, e) <= p /\ p # e
      BY <1>1, <3>1, LowIs
    <3>3. /\ \A p \in Pages : Low(o2, e2) <= p => pg2[p] # 0
          /\ \A p, q \in Pages : Low(o2, e2) <= p /\ p < q => pg2[p] < pg2[q]
          /\ \A p, q \in Pages : Low(o2, e2) <= p /\ q < e => pg2[p] < pg2[q]
      BY <1>2, <3>1, <3>2 DEF InOrder
    <3>4. \A p \in Pages : Low(o2, e2) <= p => pg2[p] < pg2[e]
      BY <1>3, <3>2
    <3> QED BY <2>1, <3>3, <3>4
  <2> QED BY <2>2, <2>3, <2>4 DEF InOrder
<1>5. ASSUME e2 = 0, e + 1 = LAST PROVE InOrder(o2, e2, pg2)
  <2>1. \A p \in Pages : ~(p < e2) /\ (p < e \/ p = e)
    BY <1>1, <1>5
  <2>2. \A p \in Pages : pg2[p] # 0
    BY <1>2, <1>3, <2>1 DEF InOrder
  <2>3. ASSUME NEW p \in Pages, NEW q \in Pages, p < q PROVE pg2[p] < pg2[q]
    <3>1. CASE q < e
      BY <1>2, <2>3, <3>1 DEF InOrder
    <3>2. CASE q = e
      BY <1>1, <1>3, <2>3, <3>2
    <3> QED BY <2>1, <3>1, <3>2
  <2> QED BY <2>1, <2>2, <2>3 DEF InOrder
<1> QED BY <1>4, <1>5 DEF Moved, pg2

LEMMA StagesSound ==
  ASSUME NEW pg \in [Pages -> Nat], NEW o, NEW e, InOrder(o, e, pg), Shape(o, e),
         NEW x \in Nat, x # 0, \A p \in Pages : p # e => pg[p] < x,
         NEW o2 \in Pages, NEW e2 \in Pages, Moved(o, e, o2, e2),
         NEW t \in Stages(o, e, o2, e2)
  PROVE  InOrder(t[1], t[2], [pg EXCEPT ![e] = x]) /\ Shape(t[1], t[2])
<1> DEFINE h == Half(o, o2)
           k == Half(e, e2)
           pg2 == [pg EXCEPT ![e] = x]
<1>1. o \in Pages /\ e \in Pages /\ pg2 \in [Pages -> Nat]
  BY DEF InOrder
<1>2. InOrder(o, e, pg2)
  BY FreePage
<1>3. InOrder(o2, e2, pg2)
  BY InOrderMoved
<1>4. /\ Shape(o2, e2) /\ Shape(o2, e) /\ Within(o, e, o2, e)
      /\ h \notin {o, o2} => Shape(h, e) /\ Within(o, e, h, e)
      /\ k # e2 => Shape(o2, k) /\ Within(o, e, o2, k)
      /\ h \in Pages /\ k \in Pages
  BY <1>1, ShapeMoved, ShapeHalf, HalfMoved
<1>5. t \in {<<o, e>>, <<h, e>>, <<o2, e>>, <<o2, k>>, <<o2, e2>>}
  BY DEF Stages
<1> HIDE DEF h, k, pg2
<1>6. InOrder(o2, e, pg2) /\ Shape(o2, e)
  BY <1>1, <1>2, <1>4, InOrderWithin
<1>7. InOrder(h, e, pg2) /\ Shape(h, e)
  <2>1. CASE h \in {o, o2}
    BY <1>2, <1>6, <2>1
  <2>2. CASE h \notin {o, o2}
    BY <1>1, <1>2, <1>4, <2>2, InOrderWithin
  <2> QED BY <2>1, <2>2
<1>8. InOrder(o2, k, pg2) /\ Shape(o2, k)
  <2>1. CASE k = e2
    BY <1>3, <1>4, <2>1
  <2>2. CASE k # e2
    BY <1>1, <1>2, <1>4, <2>2, InOrderWithin
  <2> QED BY <2>1, <2>2
<1>9. InOrder(t[1], t[2], pg2) /\ Shape(t[1], t[2])
  BY <1>2, <1>3, <1>4, <1>5, <1>6, <1>7, <1>8
<1> QED BY <1>9 DEF pg2

\* A delete of the log from o to e, whole or not.
LEMMA DeletedSound ==
  ASSUME NEW pg \in [Pages -> Nat], NEW o, NEW e, InOrder(o, e, pg), Shape(o, e),
         NEW t \in Stages(o, e, 0, 0)
  PROVE  InOrder(t[1], t[2], pg) /\ Shape(t[1], t[2])
<1> DEFINE h == Half(o, 0)
           k == Half(e, 0)
<1>1. o \in Pages /\ e \in Pages /\ 0 \in Pages /\ 0 <= e /\ e <= e
  BY LastAssumption DEF InOrder, Pages
<1>2. /\ h \in Pages /\ k \in Pages /\ Shape(h, e) /\ Within(o, e, h, e) /\ k <= e
      /\ \A f \in Pages : f <= e => Shape(0, f) /\ Within(o, e, 0, f)
  BY <1>1, ShapeDeleted
<1>3. t \in {<<o, e>>, <<h, e>>, <<0, e>>, <<0, k>>, <<0, 0>>}
  BY DEF Stages
<1> HIDE DEF h, k
<1>4. InOrder(h, e, pg)
  BY <1>1, <1>2, InOrderWithin
<1>5. \A f \in Pages : f <= e => InOrder(0, f, pg) /\ Shape(0, f)
  BY <1>1, <1>2, InOrderWithin
<1> QED BY <1>1, <1>2, <1>3, <1>4, <1>5

\* What order in the pages means for the log.
LEMMA SoundIntact ==
  ASSUME NEW pg \in [Pages -> Nat], NEW b, Sound(b, pg)
  PROVE  /\ b.oldest_entry \in Pages /\ b.next_free_entry \in Pages
         /\ \A p \in Pages : InLog(b, p) => pg[p] # 0
         /\ \A p, q \in Pages : InLog(b, p) /\ InLog(b, q) /\ Before(b, p, q) => pg[p] < pg[q]
<1> DEFINE o == b.oldest_entry
           e == b.next_free_entry
<1>1. InOrder(o, e, pg)
  BY DEF Sound
<1>2. o \in Pages /\ e \in Pages /\ Pages \subseteq Int
  BY <1>1 DEF InOrder, Pages
<1>4. \A p \in Pages : InLog(b, p) <=> Holds(o, e, p)
  BY DEF InLog, Holds
<1>8. \A p, q \in Pages : Before(b, p, q) <=> IF (p >= o) = (q >= o) THEN p < q ELSE p >= o
  BY DEF Before
<1> HIDE DEF o, e
<1>3. Low(o, e) \in Int /\ (e < o => \A p \in Pages : o <= p => Low(o, e) <= p)
  <2>1. o \in Int /\ Low(o, e) \in Int /\ (e < o => Low(o, e) <= o)
    BY <1>2, LowIs
  <2> QED BY <1>2, <2>1
<1>5. \A p \in Pages : Holds(o, e, p) => p < e \/ (e < o /\ Low(o, e) <= p)
  BY <1>2, <1>3 DEF Holds
<1>6. \A p \in Pages : InLog(b, p) => pg[p] # 0
  BY <1>1, <1>4, <1>5 DEF InOrder
<1>7. ASSUME NEW p \in Pages, NEW q \in Pages, InLog(b, p), InLog(b, q), Before(b, p, q)
      PROVE  pg[p] < pg[q]
  <2>1. \/ p < q /\ q < e
        \/ e < o /\ Low(o, e) <= p /\ p < q
        \/ e < o /\ Low(o, e) <= p /\ q < e
    BY <1>2, <1>3, <1>4, <1>7, <1>8 DEF Holds
  <2> QED BY <1>1, <2>1 DEF InOrder
<1> QED BY <1>2, <1>6, <1>7 DEF o, e

-----------------------------------------------------------------------------
(***************************************************************************)
(* Control blocks.                                                         *)
(***************************************************************************)
LEMMA BlockFields ==
  ASSUME NEW b \in Blocks
  PROVE  /\ b.oldest_entry \in Nat /\ b.next_free_entry \in Nat
         /\ b.number_of_entries \in Nat /\ b.magic \in BOOLEAN
  BY DEF Blocks

LEMMA EmptySound ==
  ASSUME NEW pg
  PROVE  Empty \in Blocks /\ Empty.magic /\ Sound(Empty, pg)
<1>1. Empty \in Blocks /\ Empty.magic /\ Empty.oldest_entry = 0 /\ Empty.next_free_entry = 0
  BY DEF Empty, Blocks
<1>2. 0 \in Pages /\ Pages \subseteq Nat
  BY LastAssumption DEF Pages
<1>3. InOrder(0, 0, pg)
  BY <1>2 DEF InOrder
<1>4. Shape(0, 0)
  BY HalfZero, HalfIs DEF Shape
<1> QED BY <1>1, <1>3, <1>4 DEF Sound

Block(m, n, o, e) == [magic |-> m, number_of_entries |-> n, oldest_entry |-> o, next_free_entry |-> e]

LEMMA TornIs ==
  ASSUME NEW c \in Blocks, NEW s \in Blocks
  PROVE  Torn(c, s) = LET m == c.magic
                          n == c.number_of_entries
                          o == c.oldest_entry
                          e == c.next_free_entry
                      IN {Block(m, s.number_of_entries, s.oldest_entry, s.next_free_entry),
                          Block(m, Half(s.number_of_entries, n), s.oldest_entry, s.next_free_entry),
                          Block(m, n, s.oldest_entry, s.next_free_entry),
                          Block(m, n, Half(s.oldest_entry, o), s.next_free_entry),
                          Block(m, n, o, s.next_free_entry),
                          Block(m, n, o, Half(s.next_free_entry, e)),
                          Block(m, n, o, e)}
<1> DEFINE m == c.magic
           n == c.number_of_entries
           o == c.oldest_entry
           e == c.next_free_entry
           marked == [s EXCEPT !.magic = m]
           counted == [marked EXCEPT !.number_of_entries = n]
           begun == [counted EXCEPT !.oldest_entry = o]
<1>1. marked = Block(m, s.number_of_entries, s.oldest_entry, s.next_free_entry)
  BY DEF Block, Blocks
<1>2. counted = Block(m, n, s.oldest_entry, s.next_free_entry)
  <2> HIDE DEF marked
  <2> QED BY <1>1 DEF Block
<1>3. begun = Block(m, n, o, s.next_free_entry)
  <2> HIDE DEF counted
  <2> QED BY <1>2 DEF Block
<1>4. c = Block(m, n, o, e)
  BY DEF Block, Blocks
<1>5. Torn(c, s) = {marked, [marked EXCEPT !.number_of_entries = Half(@, n)], counted,
                    [counted EXCEPT !.oldest_entry = Half(@, o)], begun,
                    [begun EXCEPT !.next_free_entry = Half(@, e)], c}
  BY DEF Torn
<1>6. \A a, b, d, x :
        /\ [Block(m, a, b, d) EXCEPT !.number_of_entries = Half(@, x)] = Block(m, Half(a, x), b, d)
        /\ [Block(m, a, b, d) EXCEPT !.oldest_entry = Half(@, x)] = Block(m, a, Half(b, x), d)
        /\ [Block(m, a, b, d) EXCEPT !.next_free_entry = Half(@, x)] = Block(m, a, b, Half(d, x))
  BY DEF Block
<1> HIDE DEF marked, counted, begun, m, n, o, e
<1>7. /\ [marked EXCEPT !.number_of_entries = Half(@, n)]
           = Block(m, Half(s.number_of_entries, n), s.oldest_entry, s.next_free_entry)
      /\ [counted EXCEPT !.oldest_entry = Half(@, o)] = Block(m, n, Half(s.oldest_entry, o), s.next_free_entry)
      /\ [begun EXCEPT !.next_free_entry = Half(@, e)] = Block(m, n, o, Half(s.next_free_entry, e))
  BY <1>1, <1>2, <1>3, <1>6
<1> QED BY <1>1, <1>2, <1>3, <1>4, <1>5, <1>7 DEF m, n, o, e

LEMMA TornFields ==
  ASSUME NEW c \in Blocks, NEW s \in Blocks, NEW t \in Torn(c, s)
  PROVE  /\ t \in Blocks /\ t.magic = c.magic
         /\ <<t.oldest_entry, t.next_free_entry>> \in
              Stages(s.oldest_entry, s.next_free_entry, c.oldest_entry, c.next_free_entry)
         /\ c \in Torn(c, s)
<1>1. /\ Half(s.number_of_entries, c.number_of_entries) \in Nat
      /\ Half(s.oldest_entry, c.oldest_entry) \in Nat
      /\ Half(s.next_free_entry, c.next_free_entry) \in Nat
  BY BlockFields, HalfIs
<1>2. \A m \in BOOLEAN, n, o, e \in Nat :
        /\ Block(m, n, o, e) \in Blocks /\ Block(m, n, o, e).magic = m
        /\ Block(m, n, o, e).oldest_entry = o /\ Block(m, n, o, e).next_free_entry = e
  BY DEF Block, Blocks
<1>3. c = Block(c.magic, c.number_of_entries, c.oldest_entry, c.next_free_entry)
  BY DEF Block, Blocks
<1> HIDE DEF Block
<1>4. c \in Torn(c, s)
  BY <1>3, TornIs
<1>5. \E n, o, e \in Nat :
        /\ t = Block(c.magic, n, o, e)
        /\ <<o, e>> \in Stages(s.oldest_entry, s.next_free_entry, c.oldest_entry, c.next_free_entry)
  BY <1>1, TornIs, BlockFields DEF Stages
<1>6. PICK n \in Nat, o \in Nat, e \in Nat :
        /\ t = Block(c.magic, n, o, e)
        /\ <<o, e>> \in Stages(s.oldest_entry, s.next_free_entry, c.oldest_entry, c.next_free_entry)
  BY <1>5
<1>7. t \in Blocks /\ t.magic = c.magic /\ t.oldest_entry = o /\ t.next_free_entry = e
  <2>1. c.magic \in BOOLEAN
    BY BlockFields
  <2> QED BY <1>6, <2>1 DEF Block, Blocks
<1> QED BY <1>4, <1>6, <1>7

\* A write that is tried again may leave only what one write may.
LEMMA TornClosed ==
  ASSUME NEW c \in Blocks, NEW s \in Blocks, NEW t \in Torn(c, s)
  PROVE  Torn(c, t) \subseteq Torn(c, s)
<1> DEFINE m == c.magic
           n == c.number_of_entries
           o == c.oldest_entry
           e == c.next_free_entry
           hn == Half(s.number_of_entries, n)
           ho == Half(s.oldest_entry, o)
           he == Half(s.next_free_entry, e)
<1>1. /\ hn \in Nat /\ Half(hn, n) = hn /\ Half(n, n) = n
      /\ ho \in Nat /\ Half(ho, o) = ho /\ Half(o, o) = o
      /\ he \in Nat /\ Half(he, e) = he /\ Half(e, e) = e
  BY BlockFields, HalfIs
<1>2. \A a, b, d : /\ Block(m, a, b, d).number_of_entries = a
                   /\ Block(m, a, b, d).oldest_entry = b
                   /\ Block(m, a, b, d).next_free_entry = d
  BY DEF Block
<1>3. Torn(c, s) = {Block(m, s.number_of_entries, s.oldest_entry, s.next_free_entry),
                    Block(m, hn, s.oldest_entry, s.next_free_entry),
                    Block(m, n, s.oldest_entry, s.next_free_entry),
                    Block(m, n, ho, s.next_free_entry),
                    Block(m, n, o, s.next_free_entry),
                    Block(m, n, o, he),
                    Block(m, n, o, e)}
  BY TornIs
<1>4. Torn(c, t) = {Block(m, t.number_of_entries, t.oldest_entry, t.next_free_entry),
                    Block(m, Half(t.number_of_entries, n), t.oldest_entry, t.next_free_entry),
                    Block(m, n, t.oldest_entry, t.next_free_entry),
                    Block(m, n, Half(t.oldest_entry, o), t.next_free_entry),
                    Block(m, n, o, t.next_free_entry),
                    Block(m, n, o, Half(t.next_free_entry, e)),
                    Block(m, n, o, e)}
  BY TornIs, TornFields
<1>5. hn = Half(s.number_of_entries, n) /\ ho = Half(s.oldest_entry, o) /\ he = Half(s.next_free_entry, e)
  OBVIOUS
<1> HIDE DEF m, n, o, e, hn, ho, he
<1>6. CASE t = Block(m, s.number_of_entries, s.oldest_entry, s.next_free_entry)
  BY <1>2, <1>3, <1>4, <1>5, <1>6
<1>7. CASE t = Block(m, hn, s.oldest_entry, s.next_free_entry)
  BY <1>1, <1>2, <1>3, <1>4, <1>5, <1>7
<1>8. CASE t = Block(m, n, s.oldest_entry, s.next_free_entry)
  BY <1>1, <1>2, <1>3, <1>4, <1>5, <1>8
<1>9. CASE t = Block(m, n, ho, s.next_free_entry)
  BY <1>1, <1>2, <1>3, <1>4, <1>5, <1>9
<1>10. CASE t = Block(m, n, o, s.next_free_entry)
  BY <1>1, <1>2, <1>3, <1>4, <1>5, <1>10
<1>11. CASE t = Block(m, n, o, he) \/ t = Block(m, n, o, e)
  BY <1>1, <1>2, <1>3, <1>4, <1>11
<1> QED BY <1>3, <1>6, <1>7, <1>8, <1>9, <1>10, <1>11

\* How the bounds move when an entry was written to the free page.
LEMMA AdvancedFields ==
  ASSUME NEW c \in Blocks, c.oldest_entry \in Pages, c.next_free_entry \in Pages
  PROVE  LET d == Advanced(c)
         IN  /\ d \in Blocks /\ d.magic = c.magic
             /\ d.oldest_entry \in Pages /\ d.next_free_entry \in Pages
             /\ Moved(c.oldest_entry, c.next_free_entry, d.oldest_entry, d.next_free_entry)
<1> DEFINE free == Wrapped(c.next_free_entry + 1)
           old == Wrapped(IF c.oldest_entry = free THEN c.oldest_entry + 1 ELSE c.oldest_entry)
           num == IF c.number_of_entries < LAST THEN c.number_of_entries + 1
                  ELSE c.number_of_entries
<1>1. Advanced(c) = [c EXCEPT !.number_of_entries = num, !.next_free_entry = free,
                              !.oldest_entry = old]
  <2>1. c.oldest_entry = free => old = Wrapped(c.oldest_entry + 1)
    OBVIOUS
  <2>2. c.oldest_entry # free => old = Wrapped(c.oldest_entry)
    OBVIOUS
  <2> QED  BY <2>1, <2>2, Zenon DEF Advanced
<1>2. free \in Pages /\ old \in Pages /\ num \in Nat
  BY LastAssumption, BlockFields DEF Wrapped, Pages
<1>3. Moved(c.oldest_entry, c.next_free_entry, old, free)
  BY LastAssumption DEF Wrapped, Pages, Moved
<1> HIDE DEF free, old, num
<1>4. old \in Nat /\ free \in Nat
  BY <1>2 DEF Pages
<1>5. LET d == [c EXCEPT !.number_of_entries = num, !.next_free_entry = free,
                         !.oldest_entry = old]
      IN  /\ d \in Blocks /\ d.magic = c.magic
          /\ d.oldest_entry = old /\ d.next_free_entry = free
  BY <1>2, <1>4 DEF Blocks
<1> QED  BY <1>1, <1>2, <1>3, <1>5

\* Writing an entry newer than all others to the free page and advancing: the
\* new block is sound, and so is all that writing it over the old one can leave.
LEMMA AdvancedSound ==
  ASSUME NEW pg \in [Pages -> Nat], NEW x \in Nat, x # 0,
         NEW c \in Blocks, Sound(c, pg), \A p \in Pages : p # c.next_free_entry => pg[p] < x
  PROVE  LET pg2 == [pg EXCEPT ![c.next_free_entry] = x]
             d   == Advanced(c)
         IN  Sound(c, pg2) /\ \A t \in Torn(d, c) : Sound(t, pg2)
<1> DEFINE pg2 == [pg EXCEPT ![c.next_free_entry] = x]
           d   == Advanced(c)
           o   == c.oldest_entry
           e   == c.next_free_entry
<1>1. InOrder(o, e, pg) /\ Shape(o, e) /\ o \in Pages /\ e \in Pages
  BY DEF Sound, InOrder
<1>2. Sound(c, pg2)
  BY <1>1, FreePage DEF Sound
<1>3. /\ d \in Blocks /\ d.oldest_entry \in Pages /\ d.next_free_entry \in Pages
      /\ Moved(o, e, d.oldest_entry, d.next_free_entry)
  BY <1>1, AdvancedFields
<1> HIDE DEF d
<1>4. ASSUME NEW t \in Torn(d, c) PROVE Sound(t, pg2)
  <2>1. <<t.oldest_entry, t.next_free_entry>> \in Stages(o, e, d.oldest_entry, d.next_free_entry)
    BY <1>3, TornFields
  <2>2. /\ InOrder(<<t.oldest_entry, t.next_free_entry>>[1],
                   <<t.oldest_entry, t.next_free_entry>>[2], pg2)
        /\ Shape(<<t.oldest_entry, t.next_free_entry>>[1],
                 <<t.oldest_entry, t.next_free_entry>>[2])
    BY <1>1, <1>3, <2>1, StagesSound
  <2> QED BY <2>2 DEF Sound
<1> QED BY <1>2, <1>4 DEF d, pg2

\* What a write of the new block over the old one does to the log at each try.
LEMMA AdvancedFits ==
  ASSUME NEW pg, NEW c \in Blocks, Sound(c, pg)
  PROVE  LET d == Advanced(c)
         IN  \A t \in {c} \cup Torn(d, c) : \A u \in Torn(d, t) : FitsBlocks(t, u, d)
<1> DEFINE d == Advanced(c)
           o == c.oldest_entry
           e == c.next_free_entry
<1>1. Shape(o, e) /\ o \in Pages /\ e \in Pages
  BY DEF Sound, InOrder
<1>2. /\ d \in Blocks /\ d.oldest_entry \in Pages /\ d.next_free_entry \in Pages
      /\ Moved(o, e, d.oldest_entry, d.next_free_entry)
  BY <1>1, AdvancedFields
<1> HIDE DEF d
<1> SUFFICES ASSUME NEW t \in {c} \cup Torn(d, c), NEW u \in Torn(d, t)
             PROVE  FitsBlocks(t, u, d)
  BY DEF d
<1> DEFINE bt == <<t.oldest_entry, t.next_free_entry>>
           bu == <<u.oldest_entry, u.next_free_entry>>
<1>3. t \in Blocks /\ bt \in Stages(o, e, d.oldest_entry, d.next_free_entry)
  BY <1>2, TornFields DEF Stages
<1>4. bu \in Stages(bt[1], bt[2], d.oldest_entry, d.next_free_entry)
  BY <1>2, <1>3, TornFields
<1>5. Fits(bt[1], bt[2], bu[1], bu[2], d.oldest_entry, d.next_free_entry)
  <2> HIDE DEF bt, bu
  <2> QED BY <1>1, <1>2, <1>3, <1>4, FitsMoved
<1> QED BY <1>5 DEF FitsBlocks

\* A delete, whole or not.
LEMMA EmptyTorn ==
  ASSUME NEW pg \in [Pages -> Nat], NEW s \in Blocks, Sound(s, pg), NEW t \in Torn(Empty, s)
  PROVE  Sound(t, pg)
<1>1. InOrder(s.oldest_entry, s.next_free_entry, pg) /\ Shape(s.oldest_entry, s.next_free_entry)
  BY DEF Sound
<1>2. Empty \in Blocks /\ Empty.oldest_entry = 0 /\ Empty.next_free_entry = 0
  BY DEF Empty, Blocks
<1>3. <<t.oldest_entry, t.next_free_entry>> \in Stages(s.oldest_entry, s.next_free_entry, 0, 0)
  BY <1>2, TornFields
<1>4. /\ InOrder(<<t.oldest_entry, t.next_free_entry>>[1],
                 <<t.oldest_entry, t.next_free_entry>>[2], pg)
      /\ Shape(<<t.oldest_entry, t.next_free_entry>>[1],
               <<t.oldest_entry, t.next_free_entry>>[2])
  BY <1>1, <1>3, DeletedSound
<1> QED BY <1>4 DEF Sound

-----------------------------------------------------------------------------
(***************************************************************************)
(* The invariant.                                                          *)
(***************************************************************************)
LEMMA InitInv == Formatted /\ Init => IInv
<1> SUFFICES ASSUME Formatted, Init PROVE IInv
  OBVIOUS
<1>1. stored \in Blocks /\ (stored.magic => stored = Empty) /\ (MayTear => stored.magic)
  BY InitialAssumption DEF Init, Formatted
<1>2. control_block \in Blocks
  BY DEF Init, Zeroed, Empty, Blocks
<1>3. queue \in Seq(1..created) /\ dumped \in Seq(Nat) /\ Len(queue) = 0
  BY EmptySeq DEF Init
<1>4. pages \in [Pages -> 0..created] /\ created \in Nat
  BY DEF Init
<1>5. TypeOK
  <2>1. /\ log_system_state \in States
        /\ start_readback \in BOOLEAN /\ start_delete \in BOOLEAN
    BY Zenon DEF Init, States
  <2>2. /\ message_queue_size = Len(queue) /\ message_queue_size <= MaxQueue
        /\ next_to_read \in 0..LAST /\ IIC_failures \in 0..(MaxFailures + 1)
    <3>1. message_queue_size = 0 /\ next_to_read = 0 /\ IIC_failures = 0
      BY DEF Init
    <3> QED  BY <1>3, <3>1, LimitsAssumption, LastAssumption
  <2> QED  BY <1>1, <1>2, <1>3, <1>4, <2>1, <2>2 DEF TypeOK
<1>6. QueueNewer
  BY <1>3 DEF QueueNewer
<1>7. BlocksAgree
  BY <1>1, EmptySound DEF Init, BlocksAgree, Settled
<1> QED  BY <1>5, <1>6, <1>7 DEF IInv

\* The block the task works with between two entries is sound.
LEMMA SettledSound ==
  ASSUME IInv, log_system_state \in Settled
  PROVE  Sound(control_block, pages) /\ control_block.magic
  BY EmptySound DEF IInv, BlocksAgree

LEMMA LogEventInv == IInv /\ LogEvent => IInv'
<1> SUFFICES ASSUME IInv, LogEvent PROVE IInv'
  OBVIOUS
<1> USE DEF IInv, LogEvent, requests, eeprom
<1>1. created' = created + 1 /\ created \in Nat
  BY DEF TypeOK
<1>2. queue \in Seq(1..created') /\ pages \in [Pages -> 0..created']
  <2>1. 1..created \subseteq 1..created' /\ 0..created \subseteq 0..created'
    BY <1>1
  <2>2. pages \in [Pages -> 0..created] /\ queue \in Seq(1..created)
    BY DEF TypeOK
  <2>3. queue \in Seq(1..created')
    BY <2>1, <2>2, SeqMonotonic
  <2> QED  BY <2>1, <2>2, <2>3
<1>3. CASE DropEntry
  BY <1>1, <1>2, <1>3 DEF DropEntry, TypeOK, QueueNewer, Tried, BlocksAgree, Settled
<1>4. CASE QueueEntry
  <2>1. /\ queue' = Append(queue, created') /\ message_queue_size' = message_queue_size + 1
        /\ message_queue_size < MaxQueue
    BY <1>1, <1>4 DEF QueueEntry
  <2>2. /\ queue' \in Seq(1..created') /\ Len(queue') = Len(queue) + 1
        /\ queue'[Len(queue) + 1] = created' /\ queue' # <<>>
        /\ \A i \in 1..Len(queue) : queue'[i] = queue[i]
    <3>1. queue \in Seq(1..created') /\ created' \in 1..created'
      BY <1>1, <1>2
    <3>2. Append(queue, created') # <<>>
      BY <3>1, AppendProperties
    <3> HIDE DEF IInv, LogEvent
    <3> QED BY <2>1, <3>1, <3>2, AppendProperties
  <2>3. Len(queue) \in Nat /\ \A i \in 1..Len(queue) : queue[i] \in 1..created
    BY DEF TypeOK
  <2>4. \A p \in Pages : pages[p] \in 0..created
    BY DEF TypeOK
  <2>5. TypeOK'
    BY <1>1, <1>2, <2>1, <2>2, <2>3, LimitsAssumption DEF TypeOK
  <2>6. \A i \in 1..Len(queue'), p \in Pages :
          pages'[p] < queue'[i] \/ (Tried(p)' /\ pages'[p] <= queue'[i])
    <3> SUFFICES ASSUME NEW i \in 1..(Len(queue) + 1), NEW p \in Pages
                 PROVE  pages[p] < queue'[i] \/ (Tried(p) /\ pages[p] <= queue'[i])
      BY <2>2 DEF Tried
    <3>1. CASE i = Len(queue) + 1
      BY <1>1, <2>2, <2>4, <3>1
    <3>2. CASE i \in 1..Len(queue)
      BY <2>2, <3>2 DEF QueueNewer
    <3> QED  BY <2>3, <3>1, <3>2, UpToNext
  <2>7. \A i, j \in 1..Len(queue') : i < j => queue'[i] < queue'[j]
    <3> SUFFICES ASSUME NEW i \in 1..(Len(queue) + 1), NEW j \in 1..(Len(queue) + 1), i < j
                 PROVE  queue'[i] < queue'[j]
      BY <2>2
    <3>1. i \in 1..Len(queue)
      BY <2>3, BelowNext
    <3>2. CASE j = Len(queue) + 1
      BY <1>1, <2>2, <2>3, <3>1, <3>2
    <3>3. CASE j \in 1..Len(queue)
      BY <2>2, <3>1, <3>3 DEF QueueNewer
    <3> QED  BY <2>3, <3>2, <3>3, UpToNext
  <2>8. BlocksAgree'
    BY <2>2 DEF BlocksAgree, Settled
  <2> QED  BY <2>5, <2>6, <2>7, <2>8 DEF QueueNewer
<1> QED  BY <1>3, <1>4

LEMMA DumpLogInv == IInv /\ DumpLog => IInv'
  BY DEF IInv, DumpLog, eeprom, TypeOK, QueueNewer, Tried, BlocksAgree, Settled

LEMMA DeleteLogInv == IInv /\ DeleteLog => IInv'
  BY DEF IInv, DeleteLog, eeprom, TypeOK, QueueNewer, Tried, BlocksAgree, Settled

LEMMA GiveUpInv == IInv /\ GiveUp => IInv'
  BY DEF IInv, GiveUp, eeprom, requests, TypeOK, QueueNewer, Tried, BlocksAgree, Settled, States

\* A failed transaction that touches nothing.
LEMMA FailureCounted ==
  ASSUME IInv, AccessFails, IIC_failures <= MaxFailures
  PROVE  IIC_failures' \in 0..(MaxFailures + 1)
  BY LimitsAssumption DEF AccessFails, IInv, TypeOK

LEMMA InitFailsInv == IInv /\ InitFails => IInv'
  BY FailureCounted DEF IInv, InitFails, InState, eeprom, requests, TypeOK, QueueNewer,
     Tried, BlocksAgree, Settled

LEMMA ReadbackFailsInv == IInv /\ ReadbackFails => IInv'
  BY FailureCounted DEF IInv, ReadbackFails, InState, eeprom, requests, TypeOK,
     QueueNewer, Tried, BlocksAgree, Settled

LEMMA ReadControlBlockInv == IInv /\ ReadControlBlock => IInv'
<1> SUFFICES ASSUME IInv, ReadControlBlock PROVE IInv'
  OBVIOUS
<1> USE DEF IInv, ReadControlBlock, InState, requests, eeprom
<1>1. control_block' \in Blocks /\ IIC_failures' \in 0..(MaxFailures + 1)
  <2>1. stored \in Blocks /\ Empty \in Blocks
    BY EmptySound DEF TypeOK
  <2>2. control_block' = stored \/ control_block' = Empty
    OBVIOUS
  <2>3. IIC_failures' = 0
    OBVIOUS
  <2>4. 0 \in 0..(MaxFailures + 1)
    BY LimitsAssumption
  <2> QED  BY <2>1, <2>2, <2>3, <2>4
<1>2. TypeOK'
  BY <1>1 DEF TypeOK, States
<1>3. QueueNewer'
  BY DEF QueueNewer, Tried
<1>4. BlocksAgree'
  BY DEF BlocksAgree, Settled
<1> QED  BY <1>2, <1>3, <1>4

LEMMA BeginDeleteInv == IInv /\ BeginDelete => IInv'
<1> SUFFICES ASSUME IInv, BeginDelete PROVE IInv'
  OBVIOUS
<1> USE DEF IInv, BeginDelete, InState, requests, eeprom
<1>1. control_block' = Empty /\ Empty \in Blocks /\ Empty.magic /\ Sound(Empty, pages)
  BY EmptySound
<1>2. stored.magic => \A t \in Torn(Empty, stored) : Sound(t, pages)
  <2>1. stored \in Blocks /\ pages \in [Pages -> Nat]
    BY DEF TypeOK
  <2> QED BY <2>1, EmptyTorn DEF BlocksAgree
<1>3. TypeOK'
  BY <1>1, EmptySeq DEF TypeOK, States
<1>4. QueueNewer'
  BY DEF QueueNewer, Tried
<1>5. BlocksAgree'
  BY <1>1, <1>2 DEF BlocksAgree, Settled
<1> QED  BY <1>3, <1>4, <1>5

LEMMA BeginReadbackInv == IInv /\ BeginReadback => IInv'
<1> SUFFICES ASSUME IInv, BeginReadback PROVE IInv'
  OBVIOUS
<1> USE DEF IInv, BeginReadback, InState, requests, eeprom
<1>1. next_to_read' \in Pages
  BY SettledSound DEF Sound, InOrder, Settled
<1>2. TypeOK'
  <2>1. next_to_read' \in 0..LAST
    BY <1>1, LastAssumption DEF Pages
  <2>2. dumped' \in Seq(Nat)
    BY EmptySeq
  <2> QED  BY <2>1, <2>2 DEF TypeOK, States
<1>3. QueueNewer'
  BY DEF QueueNewer, Tried
<1>4. BlocksAgree'
  BY <1>1 DEF BlocksAgree, Settled
<1> QED  BY <1>2, <1>3, <1>4

LEMMA BeginWriteInv == IInv /\ BeginWrite => IInv'
<1> SUFFICES ASSUME IInv, BeginWrite PROVE IInv'
  OBVIOUS
<1> USE DEF IInv, BeginWrite, InState, requests, eeprom
<1>1. TypeOK'
  BY EmptySeq DEF TypeOK, States
<1>2. QueueNewer'
  BY DEF QueueNewer, Tried
<1>3. BlocksAgree'
  BY DEF BlocksAgree, Settled
<1> QED  BY <1>1, <1>2, <1>3

LEMMA ReadbackLogInv == IInv /\ ReadbackLog => IInv'
<1> SUFFICES ASSUME IInv, ReadbackLog PROVE IInv'
  OBVIOUS
<1> USE DEF IInv, ReadbackLog, InState, requests, eeprom
<1>1. next_to_read \in Pages
  BY DEF BlocksAgree
<1>2. /\ next_to_read' \in 0..LAST /\ log_system_state' \in States
      /\ log_system_state' = "READBACK_LOG" => next_to_read' \in Pages
      /\ log_system_state' \in Settled
  BY <1>1, LastAssumption DEF Wrapped, Pages, States, Settled
<1>3. dumped' \in Seq(Nat)
  <2>1. pages[next_to_read] \in Nat /\ dumped \in Seq(Nat)
    BY <1>1 DEF TypeOK
  <2> QED  BY <2>1, AppendProperties
<1>4. TypeOK'
  BY <1>2, <1>3 DEF TypeOK
<1>5. QueueNewer'
  BY DEF QueueNewer, Tried
<1>6. BlocksAgree'
  BY <1>2 DEF BlocksAgree, Settled
<1> QED  BY <1>4, <1>5, <1>6

LEMMA WriteLogMsgInv == IInv /\ WriteLogMsg => IInv'
<1> SUFFICES ASSUME IInv, WriteLogMsg PROVE IInv'
  OBVIOUS
<1> USE DEF IInv, WriteLogMsg, InState, requests
<1> DEFINE c == control_block
           e == Head(queue)
<1>1. /\ queue \in Seq(1..created) /\ queue # <<>> /\ Len(queue) \in Nat /\ Len(queue) >= 1
      /\ e = queue[1] /\ e \in 1..created /\ created \in Nat
  BY EmptySeq DEF TypeOK, BlocksAgree
<1>2. /\ queue' \in Seq(1..created) /\ Len(queue') = Len(queue) - 1
      /\ \A i \in 1..Len(queue') : queue'[i] = queue[i + 1]
  BY <1>1, HeadTailProperties
<1>3. \A i \in 1..Len(queue') : i + 1 \in 1..Len(queue) /\ 1 < i + 1
  BY <1>1, <1>2
<1>4. c \in Blocks /\ Sound(c, pages) /\ c.magic /\ c.next_free_entry \in Pages
  BY SettledSound DEF Settled, TypeOK
<1>5. /\ pages \in [Pages -> Nat]
      /\ \A p \in Pages : p # c.next_free_entry => pages[p] < e
  BY <1>1 DEF TypeOK, QueueNewer, Tried
<1>6. Sound(c, pages') /\ \A t \in Torn(control_block', c) : Sound(t, pages')
  <2>1. e \in Nat /\ e # 0
    BY <1>1
  <2>2. pages' = [pages EXCEPT ![c.next_free_entry] = e] /\ control_block' = Advanced(c)
    OBVIOUS
  <2> HIDE DEF c, e, IInv, WriteLogMsg, InState, requests
  <2> QED  BY <1>4, <1>5, <2>1, <2>2, AdvancedSound
<1>7. \A t \in {c} \cup Torn(control_block', c) :
        \A u \in Torn(control_block', t) : FitsBlocks(t, u, control_block')
  BY <1>4, AdvancedFits
<1>8. control_block' \in Blocks /\ control_block'.magic
  BY <1>4, AdvancedFields DEF Sound, InOrder
<1>9. stored' = stored /\ (stored.magic => stored = c)
  BY DEF BlocksAgree, Settled
<1>10. BlocksAgree'
  <2>1. Sound(control_block', pages')
    <3>1. control_block' \in Torn(control_block', c)
      BY <1>4, <1>8, TornFields DEF Torn
    <3> QED BY <1>6, <3>1
  <2> QED BY <1>6, <1>7, <1>8, <1>9, <2>1 DEF BlocksAgree, Settled
<1>11. QueueNewer'
  <2>1. \A i \in 1..Len(queue'), p \in Pages :
          (p # c.next_free_entry => pages[p] < queue'[i]) /\ e < queue'[i]
    BY <1>1, <1>2, <1>3 DEF QueueNewer, Tried
  <2>2. \A p \in Pages : (p # c.next_free_entry /\ pages'[p] = pages[p]) \/ pages'[p] = e
    BY <1>5
  <2>3. \A i, j \in 1..Len(queue') : i < j => queue'[i] < queue'[j]
    BY <1>2, <1>3 DEF QueueNewer
  <2> QED  BY <2>1, <2>2, <2>3 DEF QueueNewer
<1>12. TypeOK'
  <2>1. pages' \in [Pages -> 0..created]
    BY <1>1 DEF TypeOK
  <2>2. message_queue_size' = Len(queue') /\ message_queue_size' <= MaxQueue
    BY <1>1, <1>2, LimitsAssumption DEF TypeOK
  <2> QED  BY <1>1, <1>2, <1>8, <2>1, <2>2, LimitsAssumption DEF TypeOK, States
<1> QED  BY <1>10, <1>11, <1>12

LEMMA WriteLogMsgFailsInv == IInv /\ WriteLogMsgFails => IInv'
<1> SUFFICES ASSUME IInv, WriteLogMsgFails PROVE IInv'
  OBVIOUS
<1> USE DEF IInv, WriteLogMsgFails, InState, requests
<1>1. IIC_failures' \in 0..(MaxFailures + 1)
  BY FailureCounted
<1> DEFINE e == Head(queue)
<1>0. /\ Len(queue) \in Nat /\ Len(queue) >= 1 /\ created \in Nat
      /\ e = queue[1] /\ e \in 1..created
      /\ \A i \in 1..Len(queue) : queue[i] \in 1..created /\ e <= queue[i]
  <2>1. queue \in Seq(1..created) /\ queue # <<>> /\ created \in Nat
    BY DEF TypeOK, BlocksAgree
  <2>2. Len(queue) \in Nat /\ Len(queue) >= 1 /\ e = queue[1]
    BY <2>1, EmptySeq
  <2>3. \A i \in 1..Len(queue) : queue[i] \in 1..created
    BY <2>1
  <2>4. 1 \in 1..Len(queue) /\ \A i \in 1..Len(queue) : i = 1 \/ 1 < i
    BY <2>2
  <2> QED BY <2>1, <2>2, <2>3, <2>4 DEF QueueNewer
<1>2. \/ pages' = pages
      \/ \E x \in {0, e} : pages' = [pages EXCEPT ![control_block.next_free_entry] = x]
  BY DEF TornPage
<1> HIDE DEF e
<1>3. pages \in [Pages -> Nat] /\ pages' \in [Pages -> 0..created] /\ created \in Nat
  BY <1>0, <1>2 DEF TypeOK
<1>4. stored' = stored /\ (stored.magic => stored = control_block)
  BY DEF BlocksAgree, Settled
<1>5. stored.magic => Sound(stored, pages')
  <2>1. ASSUME stored.magic, NEW x
        PROVE  Sound(stored, [pages EXCEPT ![stored.next_free_entry] = x])
    <3>1. Sound(stored, pages)
      BY <2>1 DEF BlocksAgree
    <3> QED  BY <1>3, <3>1, FreePage DEF Sound
  <2> QED  BY <1>2, <1>4, <2>1 DEF BlocksAgree
<1>6. TypeOK'
  BY <1>1, <1>3 DEF TypeOK
<1>7. QueueNewer'
  <2>1. \A p \in Pages : \/ pages'[p] = pages[p]
                         \/ Tried(p)' /\ pages'[p] \in {0, e}
    BY <1>2, <1>3 DEF Tried
  <2>2. \A i \in 1..Len(queue) : 0 <= queue[i] /\ e <= queue[i]
    BY <1>0
  <2>3. \A p : Tried(p)' = Tried(p)
    BY DEF Tried
  <2> QED  BY <2>1, <2>2, <2>3 DEF QueueNewer
<1>8. BlocksAgree'
  BY <1>5 DEF BlocksAgree, Settled
<1> QED  BY <1>6, <1>7, <1>8

LEMMA WriteCtrlBlockInv == IInv /\ WriteCtrlBlock => IInv'
<1> SUFFICES ASSUME IInv, WriteCtrlBlock PROVE IInv'
  OBVIOUS
<1> USE DEF IInv, WriteCtrlBlock, InState, requests
<1>1. TypeOK'
  BY LimitsAssumption DEF TypeOK, States
<1>2. QueueNewer'
  BY DEF QueueNewer, Tried
<1>3. BlocksAgree'
  BY DEF BlocksAgree, Settled
<1> QED  BY <1>1, <1>2, <1>3

LEMMA WriteCtrlBlockFailsInv == IInv /\ WriteCtrlBlockFails => IInv'
<1> SUFFICES ASSUME IInv, WriteCtrlBlockFails PROVE IInv'
  OBVIOUS
<1> USE DEF IInv, WriteCtrlBlockFails, InState, requests
<1> DEFINE c == control_block
<1>1. IIC_failures' \in 0..(MaxFailures + 1)
  BY FailureCounted
<1>2. c \in Blocks /\ c.magic /\ stored \in Blocks /\ Sound(c, pages)
  BY DEF TypeOK, BlocksAgree
<1>3. QueueNewer'
  BY DEF QueueNewer, Tried
<1>4. CASE stored' = stored
  <2>1. TypeOK'
    BY <1>1, <1>4 DEF TypeOK
  <2>2. BlocksAgree'
    BY <1>4 DEF BlocksAgree, Settled
  <2> QED  BY <1>3, <2>1, <2>2
<1>5. CASE MayTear /\ stored' \in Torn(c, stored)
  <2>1. stored.magic /\ \A t \in Torn(c, stored) : Sound(t, pages)
    BY <1>5 DEF BlocksAgree
  <2>2. stored' \in Blocks /\ stored'.magic
    BY <1>2, <1>5, TornFields
  <2>3. Torn(c, stored') \subseteq Torn(c, stored)
    BY <1>2, <1>5, TornClosed
  <2>4. TypeOK'
    BY <1>1, <2>2 DEF TypeOK
  <2>5. BlocksAgree'
    BY <1>2, <1>5, <2>1, <2>2, <2>3 DEF BlocksAgree, Settled
  <2> QED  BY <1>3, <2>4, <2>5
<1> QED  BY <1>4, <1>5 DEF TornBlock

LEMMA CrashInv == IInv /\ Crash => IInv'
<1> SUFFICES ASSUME IInv, Crash PROVE IInv'
  OBVIOUS
<1> USE DEF IInv, Crash, eeprom
<1>1. control_block' \in Blocks
  BY DEF Zeroed, Empty, Blocks
<1>2. queue' \in Seq(1..created) /\ Len(queue') = 0
  BY EmptySeq
<1>3. TypeOK'
  <2>1. /\ log_system_state' \in States
        /\ start_readback' \in BOOLEAN /\ start_delete' \in BOOLEAN
    BY Zenon DEF States
  <2>2. /\ message_queue_size' = Len(queue') /\ message_queue_size' <= MaxQueue
        /\ next_to_read' \in 0..LAST /\ IIC_failures' \in 0..(MaxFailures + 1)
    <3>1. message_queue_size' = 0 /\ next_to_read' = 0 /\ IIC_failures' = 0
      OBVIOUS
    <3> QED  BY <1>2, <3>1, LimitsAssumption, LastAssumption
  <2>3. /\ stored' \in Blocks /\ pages' \in [Pages -> 0..created'] /\ created' \in Nat
        /\ dumped' \in Seq(Nat) /\ created' = created
    BY EmptySeq DEF TypeOK
  <2> QED  BY <1>1, <1>2, <2>1, <2>2, <2>3 DEF TypeOK
<1>4. QueueNewer'
  BY <1>2 DEF QueueNewer
<1>5. BlocksAgree'
  BY DEF BlocksAgree, Settled
<1> QED  BY <1>3, <1>4, <1>5

LEMMA NextInv == IInv /\ [Next]_vars => IInv'
<1> SUFFICES ASSUME IInv, [Next]_vars PROVE IInv'
  OBVIOUS
<1>1. CASE TaskLoop
  BY <1>1, GiveUpInv, ReadControlBlockInv, InitFailsInv, BeginDeleteInv,
     BeginReadbackInv, BeginWriteInv, WriteLogMsgInv, WriteLogMsgFailsInv,
     WriteCtrlBlockInv, WriteCtrlBlockFailsInv, ReadbackLogInv, ReadbackFailsInv
  DEF TaskLoop
<1>2. CASE LogEvent \/ DumpLog \/ DeleteLog \/ Crash
  BY <1>2, LogEventInv, DumpLogInv, DeleteLogInv, CrashInv
<1>3. CASE UNCHANGED vars
  BY <1>3 DEF vars, ram, requests, eeprom, IInv, TypeOK, QueueNewer, Tried, BlocksAgree, Settled
<1> QED  BY <1>1, <1>2, <1>3 DEF Next

\* The inductive invariant holds in every state, from a formatted EEPROM.
THEOREM Invariance ==
  ASSUME Formatted
  PROVE  Spec => []IInv
  BY InitInv, NextInv, PTL DEF Spec

-----------------------------------------------------------------------------
\* The logger's variables keep their types: IIC_failures stops at its limit,
\* the queue is never longer than its limit, next_to_read stays in the EEPROM.
THEOREM TypeCorrect ==
  ASSUME Formatted
  PROVE  Spec => []TypeOK
<1>1. IInv => TypeOK
  BY DEF IInv
<1> QED  BY <1>1, Invariance, PTL

\* Whichever transactions fail, half way or not, and whenever power is lost,
\* the log on the EEPROM is in order and has no hole.
THEOREM LogAlwaysIntact ==
  ASSUME Formatted
  PROVE  Spec => []LogIntact
<1>1. IInv => LogIntact
  <2> SUFFICES ASSUME IInv, stored.magic PROVE LogIntact
    BY DEF LogIntact
  <2>1. Sound(stored, pages) /\ pages \in [Pages -> Nat]
    BY DEF IInv, BlocksAgree, TypeOK
  <2> QED  BY <2>1, SoundIntact DEF LogIntact
<1> QED  BY <1>1, Invariance, PTL

\* What a step may never do to the log on the EEPROM.
Undamaged ==
  stored.magic =>
    \A p \in Pages :
      /\ InLog(stored, p) => pages'[p] = pages[p]
      /\ ~start_delete =>
           /\ stored'.magic
           /\ InLog(stored', p) => InLog(stored, p) \/ InLog(control_block, p)
           /\ InLog(stored, p) /\ p # stored.oldest_entry /\ ~BoundHalfWritten
                => InLog(stored', p)

\* A step that leaves the control block on the EEPROM as it is.
LEMMA BlockKept ==
  ASSUME stored.magic, stored' = stored,
         \A p \in Pages : InLog(stored, p) => pages'[p] = pages[p]
  PROVE  Undamaged
  BY DEF Undamaged

LEMMA StepUndamaged == IInv /\ [Next]_vars => Undamaged
<1> SUFFICES ASSUME IInv, [Next]_vars, stored.magic PROVE Undamaged
  BY DEF Undamaged
<1>1. CASE WriteLogMsg \/ WriteLogMsgFails
  <2>1. stored' = stored /\ stored = control_block
    BY <1>1 DEF WriteLogMsg, WriteLogMsgFails, InState, IInv, BlocksAgree, Settled
  <2>2. ~InLog(stored, stored.next_free_entry)
    <3>1. Sound(stored, pages) /\ pages \in [Pages -> Nat]
      BY DEF IInv, BlocksAgree, TypeOK
    <3> QED  BY <3>1, FreePage DEF Sound, InLog, Holds
  <2>3. ASSUME NEW p \in Pages, InLog(stored, p) PROVE pages'[p] = pages[p]
    <3>1. p # control_block.next_free_entry
      BY <2>1, <2>2, <2>3
    <3> QED BY <1>1, <3>1 DEF WriteLogMsg, WriteLogMsgFails, TornPage, IInv, TypeOK
  <2> QED  BY <2>1, <2>3, BlockKept
<1>2. CASE (WriteCtrlBlock \/ WriteCtrlBlockFails) /\ stored' # stored
  <2>1. /\ pages' = pages /\ log_system_state = "WRITE_CTRL_BLOCK"
        /\ control_block \in Blocks /\ control_block.magic /\ stored \in Blocks
    BY <1>2 DEF WriteCtrlBlock, WriteCtrlBlockFails, InState, IInv, BlocksAgree, TypeOK
  <2>2. control_block \in Torn(control_block, stored)
    BY DEF Torn
  <2>3. stored' \in Torn(control_block, stored)
    BY <1>2, <2>2 DEF WriteCtrlBlock, WriteCtrlBlockFails, TornBlock
  <2>4. stored'.magic
    BY <2>1, <2>3, TornFields
  <2>5. ~start_delete => FitsBlocks(stored, stored', control_block)
    BY <2>1, <2>3 DEF IInv, BlocksAgree
  <2>6. ASSUME ~start_delete, NEW p \in Pages
        PROVE  /\ InLog(stored', p) => InLog(stored, p) \/ InLog(control_block, p)
               /\ InLog(stored, p) /\ p # stored.oldest_entry /\ ~BoundHalfWritten
                    => InLog(stored', p)
    BY <2>5, <2>6 DEF FitsBlocks, Fits, Holds, InLog, BoundHalfWritten
  <2> QED  BY <2>1, <2>4, <2>6 DEF Undamaged
<1>3. CASE (WriteCtrlBlock \/ WriteCtrlBlockFails) /\ stored' = stored
  BY <1>3, BlockKept DEF WriteCtrlBlock, WriteCtrlBlockFails
<1>4. CASE GiveUp \/ ReadControlBlock \/ InitFails \/ BeginDelete \/ BeginReadback
             \/ BeginWrite \/ ReadbackLog \/ ReadbackFails
  BY <1>4, BlockKept
     DEF GiveUp, ReadControlBlock, InitFails, BeginDelete, BeginReadback,
         BeginWrite, ReadbackLog, ReadbackFails, eeprom
<1>5. CASE LogEvent \/ DumpLog \/ DeleteLog \/ Crash \/ UNCHANGED vars
  BY <1>5, BlockKept DEF LogEvent, DumpLog, DeleteLog, Crash, vars, eeprom
<1> QED  BY <1>1, <1>2, <1>3, <1>4, <1>5 DEF Next, TaskLoop

\* No step overwrites a page that is in the log.  Without a delete, none takes in
\* a page from outside the old log and the new, and none drops more than the
\* oldest entry, unless its write broke off between the two bytes of a bound.
THEOREM LogUndamaged ==
  ASSUME Formatted
  PROVE  Spec => LogNeverDamaged
<1>1. IInv /\ [Next]_vars => [Undamaged]_vars
  BY StepUndamaged
<1> QED  BY <1>1, Invariance, PTL DEF Spec, LogNeverDamaged, Undamaged

-----------------------------------------------------------------------------
(***************************************************************************)
(* A dump prints the pages from the start of the log up to its end, in     *)
(* order; a log whose start is its end, unless that is page 0, goes once   *)
(* round the ring.                                                         *)
(***************************************************************************)

\* The page that comes k pages after the oldest entry.
Nth(k) == (control_block.oldest_entry + k) % LAST

\* What a dump that will end has printed: the first pages of the log, but not
\* all of them.
PrintedInOrder ==
  log_system_state = "READBACK_LOG" /\ control_block.next_free_entry # 0 =>
    /\ Len(dumped) < DumpLength
    /\ next_to_read = Nth(Len(dumped))
    /\ \A i \in 1..Len(dumped) : dumped[i] = pages[Nth(i - 1)]

\* The page k pages after o, and the pages from o up to f, without %.
Ahead(o, k) == IF o + k < LAST THEN o + k ELSE o + k - LAST
Gap(o, f) == IF o < f THEN f - o ELSE f + LAST - o

\* Once round the ring.
LEMMA Round ==
  ASSUME NEW x \in 0..(2 * LAST - 1)
  PROVE  x % LAST = IF x < LAST THEN x ELSE x - LAST
<1>1. CASE x \in 0..(LAST - 1)
  BY <1>1, LastAssumption
<1>2. CASE x \in LAST..(2 * LAST - 1)
  BY <1>2, LastAssumption
<1> QED BY <1>1, <1>2, LastAssumption

LEMMA LengthIs ==
  ASSUME control_block.oldest_entry \in Pages, control_block.next_free_entry \in Pages
  PROVE  DumpLength = Gap(control_block.oldest_entry, control_block.next_free_entry)
<1> DEFINE o == control_block.oldest_entry
           f == control_block.next_free_entry
           x == f + LAST - o
<1>1. x \in 0..(2 * LAST - 1) /\ (x < LAST <=> f < o) /\ x - LAST = f - o
  BY LastAssumption DEF Pages
<1>2. LogLength = x % LAST
  BY DEF LogLength
<1>3. LogLength = IF x < LAST THEN x ELSE x - LAST
  <2> HIDE DEF x
  <2> QED BY <1>1, <1>2, Round
<1> HIDE DEF x
<1>4. CASE o < f \/ o = f
  BY <1>1, <1>3, <1>4, LastAssumption DEF Gap, DumpLength, Pages, x
<1>5. CASE f < o
  BY <1>1, <1>3, <1>5, LastAssumption DEF Gap, DumpLength, Pages, x
<1>6. o \in Int /\ f \in Int
  BY DEF Pages
<1> HIDE DEF o, f
<1> QED BY <1>4, <1>5, <1>6

LEMMA NthIs ==
  ASSUME control_block.oldest_entry \in Pages, NEW k \in Pages
  PROVE  /\ Nth(k) \in Pages
         /\ Nth(k) = Ahead(control_block.oldest_entry, k)
<1>1. control_block.oldest_entry + k \in 0..(2 * LAST - 1)
  BY LastAssumption DEF Pages
<1> QED BY <1>1, Round, LastAssumption DEF Nth, Pages, Ahead

\* The page after the nth, and whether it is where the log ends.
LEMMA RingStep ==
  ASSUME NEW o \in Pages, NEW f \in Pages, f # 0, NEW n \in Nat, n < Gap(o, f)
  PROVE  /\ Gap(o, f) \in 1..LAST /\ n \in Pages /\ n < LAST /\ n + 1 <= Gap(o, f)
         /\ n + 1 = Gap(o, f) <=> Ahead(o, n) + 1 = f
         /\ n + 1 < Gap(o, f) =>
              /\ n + 1 \in Pages /\ n + 1 # Gap(o, f)
              /\ Wrapped(Ahead(o, n) + 1) = Ahead(o, n + 1)
<1>1. Gap(o, f) \in 1..LAST
  BY LastAssumption DEF Pages, Gap
<1>2. /\ n \in Pages /\ n < LAST /\ n + 1 <= Gap(o, f)
      /\ n + 1 < Gap(o, f) => n + 1 \in Pages /\ n + 1 # Gap(o, f)
  BY <1>1, LastAssumption DEF Pages
<1>3. n + 1 = Gap(o, f) <=> Ahead(o, n) + 1 = f
  BY LastAssumption DEF Pages, Gap, Ahead
<1>4. n + 1 < Gap(o, f) => Wrapped(Ahead(o, n) + 1) = Ahead(o, n + 1)
  BY LastAssumption DEF Pages, Wrapped, Gap, Ahead
<1> QED BY <1>1, <1>2, <1>3, <1>4

LEMMA DumpInit == Init => PrintedInOrder
  BY DEF Init, PrintedInOrder

\* The step of a dump: if the next page is the end of the log, the page read is
\* its last, and otherwise there is another one.
LEMMA OnePage ==
  ASSUME IInv, PrintedInOrder, ReadbackLog, control_block.next_free_entry # 0
  PROVE  LET n == Len(dumped)
         IN  /\ n \in Nat /\ n + 1 <= DumpLength
             /\ n + 1 = DumpLength <=> next_to_read + 1 = control_block.next_free_entry
             /\ dumped' \in Seq(Nat) /\ Len(dumped') = n + 1
             /\ \A i \in 1..(n + 1) : dumped'[i] = pages[Nth(i - 1)]
             /\ n + 1 < DumpLength => next_to_read' = Nth(n + 1)
             /\ DumpLength \in 1..LAST
<1> DEFINE o == control_block.oldest_entry
           f == control_block.next_free_entry
           n == Len(dumped)
<1>1. /\ o \in Pages /\ f \in Pages /\ f # 0 /\ next_to_read \in Pages
      /\ dumped \in Seq(Nat) /\ n \in Nat /\ pages \in [Pages -> Nat]
  BY SettledSound
     DEF ReadbackLog, InState, Settled, Sound, InOrder, IInv, TypeOK, BlocksAgree
<1>2. /\ n < DumpLength /\ next_to_read = Nth(n)
      /\ \A i \in 1..n : dumped[i] = pages[Nth(i - 1)]
  BY DEF PrintedInOrder, ReadbackLog, InState
<1>3. DumpLength = Gap(o, f)
  BY <1>1, LengthIs
<1> HIDE DEF n, o, f
<1>4. /\ DumpLength \in 1..LAST /\ n \in Pages /\ n < LAST /\ n + 1 <= DumpLength
      /\ n + 1 = DumpLength <=> Ahead(o, n) + 1 = f
  BY <1>1, <1>2, <1>3, RingStep
<1>5. next_to_read = Ahead(o, n)
  BY <1>1, <1>2, <1>4, NthIs DEF o
<1>6. n + 1 = DumpLength <=> next_to_read + 1 = f
  BY <1>4, <1>5
<1>7. ASSUME n + 1 < DumpLength PROVE next_to_read' = Nth(n + 1)
  <2>1. /\ n + 1 \in Pages /\ n + 1 # DumpLength
        /\ Wrapped(Ahead(o, n) + 1) = Ahead(o, n + 1)
    BY <1>1, <1>2, <1>3, <1>7, RingStep
  <2>2. next_to_read' = Wrapped(next_to_read + 1)
    BY <1>6, <2>1 DEF ReadbackLog, f
  <2> QED BY <1>1, <1>5, <2>1, <2>2, NthIs DEF o
<1>8. /\ dumped' = Append(dumped, pages[next_to_read]) /\ pages[next_to_read] \in Nat
  BY <1>1, <1>4 DEF ReadbackLog, n
<1>9. /\ dumped' \in Seq(Nat) /\ Len(dumped') = n + 1
      /\ \A i \in 1..n : dumped'[i] = dumped[i]
      /\ dumped'[n + 1] = pages[next_to_read]
  BY <1>1, <1>8, AppendProperties DEF n
<1>10. \A i \in 1..(n + 1) : dumped'[i] = pages[Nth(i - 1)]
  <2> SUFFICES ASSUME NEW i \in 1..(n + 1) PROVE dumped'[i] = pages[Nth(i - 1)]
    OBVIOUS
  <2>1. CASE i \in 1..n
    BY <1>2, <1>9, <2>1
  <2>2. CASE i = n + 1
    <3>1. i - 1 = n
      BY <1>1, <2>2
    <3> QED BY <1>2, <1>9, <2>2, <3>1
  <2> QED BY <1>1, <2>1, <2>2, UpToNext
<1> QED BY <1>1, <1>4, <1>6, <1>7, <1>9, <1>10 DEF n, f

LEMMA PrintedNext == ASSUME IInv, PrintedInOrder, [Next]_vars PROVE PrintedInOrder'
<1>1. CASE ReadbackLog
  <2> SUFFICES ASSUME log_system_state' = "READBACK_LOG", control_block'.next_free_entry # 0
               PROVE  PrintedInOrder'
    BY DEF PrintedInOrder
  <2>1. UNCHANGED <<control_block, pages>> /\ next_to_read + 1 # control_block.next_free_entry
    BY <1>1 DEF ReadbackLog, eeprom
  <2>2. /\ DumpLength' = DumpLength /\ \A k : Nth(k)' = Nth(k)
    BY <2>1 DEF DumpLength, LogLength, Nth
  <2> HIDE DEF DumpLength, Nth
  <2>3. /\ Len(dumped) \in Nat /\ DumpLength \in 1..LAST
        /\ Len(dumped) + 1 < DumpLength /\ Len(dumped') = Len(dumped) + 1
        /\ next_to_read' = Nth(Len(dumped) + 1)
        /\ \A i \in 1..(Len(dumped) + 1) : dumped'[i] = pages[Nth(i - 1)]
    <3>1. /\ Len(dumped) \in Nat /\ DumpLength \in 1..LAST
          /\ Len(dumped) + 1 <= DumpLength /\ Len(dumped) + 1 # DumpLength
      BY <1>1, <2>1, OnePage
    <3>2. Len(dumped) + 1 < DumpLength
      BY <3>1 DEF Pages
    <3> QED BY <1>1, <2>1, <3>1, <3>2, OnePage
  <2> QED BY <2>1, <2>2, <2>3 DEF PrintedInOrder
<1>2. CASE BeginReadback
  <2> DEFINE o == control_block.oldest_entry
             f == control_block.next_free_entry
  <2> SUFFICES ASSUME f # 0 PROVE PrintedInOrder'
    BY <1>2 DEF BeginReadback, PrintedInOrder
  <2>1. /\ o \in Pages /\ f \in Pages /\ next_to_read' = o /\ dumped' = <<>>
        /\ UNCHANGED <<control_block, pages>>
    BY <1>2, SettledSound DEF BeginReadback, InState, Settled, Sound, InOrder, eeprom
  <2>3. DumpLength > 0
    BY <2>1, LengthIs, LastAssumption DEF Pages, Gap
  <2>4. Nth(0) = o
    BY <2>1, NthIs, LastAssumption DEF Pages, Ahead
  <2>5. DumpLength' = DumpLength /\ Nth(0)' = Nth(0)
    BY <2>1 DEF DumpLength, LogLength, Nth
  <2>6. Len(dumped') = 0 /\ dumped' = <<>>
    BY <2>1
  <2> QED BY <2>1, <2>3, <2>4, <2>5, <2>6 DEF PrintedInOrder
<1>3. CASE ReadbackFails \/ LogEvent \/ DumpLog \/ DeleteLog \/ UNCHANGED vars
  <2>1. UNCHANGED <<log_system_state, control_block, dumped, next_to_read, pages>>
    BY <1>3 DEF ReadbackFails, LogEvent, DumpLog, DeleteLog, vars, ram, eeprom
  <2> QED BY <2>1 DEF PrintedInOrder, DumpLength, LogLength, Nth
<1>4. CASE \/ GiveUp \/ ReadControlBlock \/ InitFails \/ BeginDelete \/ BeginWrite \/ WriteLogMsg
           \/ WriteLogMsgFails \/ WriteCtrlBlock \/ WriteCtrlBlockFails \/ Crash
  <2>1. log_system_state' # "READBACK_LOG"
    BY <1>4
       DEF GiveUp, ReadControlBlock, InitFails, BeginDelete, BeginWrite, WriteLogMsg,
           WriteLogMsgFails, WriteCtrlBlock, WriteCtrlBlockFails, Crash, InState
  <2> QED BY <2>1 DEF PrintedInOrder
<1> QED BY <1>1, <1>2, <1>3, <1>4 DEF Next, TaskLoop

\* What the step that ends a dump has printed.
Dumped == InState("READBACK_LOG") /\ log_system_state' = "READY_RW" =>
            dumped' = [i \in 1..DumpLength |->
                         pages[(control_block.oldest_entry + i - 1) % LAST]]

LEMMA StepDumped == ASSUME IInv, PrintedInOrder, [Next]_vars PROVE Dumped
<1> SUFFICES ASSUME InState("READBACK_LOG"), log_system_state' = "READY_RW"
             PROVE  dumped' = [i \in 1..DumpLength |->
                                 pages[(control_block.oldest_entry + i - 1) % LAST]]
  BY DEF Dumped
<1>1. ReadbackLog
  BY DEF InState, Next, TaskLoop, GiveUp, ReadControlBlock, InitFails, BeginDelete,
         BeginReadback, BeginWrite, WriteLogMsg, WriteLogMsgFails, WriteCtrlBlock,
         WriteCtrlBlockFails, ReadbackFails, LogEvent, DumpLog, DeleteLog, Crash, vars, ram
<1>2. /\ control_block.oldest_entry \in Pages /\ control_block.next_free_entry \in Pages
      /\ next_to_read \in Pages
      /\ next_to_read + 1 = control_block.next_free_entry
  BY <1>1, SettledSound DEF ReadbackLog, InState, Settled, Sound, InOrder, IInv, BlocksAgree
<1>3. control_block.next_free_entry # 0
  BY <1>2 DEF Pages
<1>4. /\ dumped' \in Seq(Nat) /\ Len(dumped') = DumpLength
      /\ \A i \in 1..DumpLength : dumped'[i] = pages[Nth(i - 1)]
  BY <1>1, <1>2, <1>3, OnePage
<1>5. dumped' = [i \in 1..DumpLength |-> dumped'[i]]
  <2>1. dumped' \in [1..Len(dumped') -> Nat]
    BY <1>4, LenProperties
  <2> QED BY <1>4, <2>1
<1>6. \A i \in 1..DumpLength :
        Nth(i - 1) = (control_block.oldest_entry + i - 1) % LAST
  <2> SUFFICES ASSUME NEW i \in 1..DumpLength
               PROVE  Nth(i - 1) = (control_block.oldest_entry + i - 1) % LAST
    OBVIOUS
  <2>1. control_block.oldest_entry + (i - 1) = control_block.oldest_entry + i - 1
    BY <1>2 DEF Pages
  <2> QED BY <2>1 DEF Nth
<1> HIDE DEF DumpLength, Nth
<1> QED BY <1>4, <1>5, <1>6

\* A dump that ends has printed the log: all of it, oldest entry first, nothing
\* twice, whatever was logged while it ran.
THEOREM DumpsInOrder ==
  ASSUME Formatted
  PROVE  Spec => DumpInOrder
<1>1. IInv /\ PrintedInOrder /\ [Next]_vars => PrintedInOrder'
  BY PrintedNext
<1>2. Spec => []PrintedInOrder
  BY <1>1, DumpInit, Invariance, PTL DEF Spec
<1>3. IInv /\ PrintedInOrder /\ [Next]_vars => [Dumped]_vars
  BY StepDumped
<1> QED BY <1>2, <1>3, Invariance, PTL DEF Spec, DumpInOrder, Dumped
=============================================================================
