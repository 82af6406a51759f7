------------------------------ MODULE LogTask ------------------------------
(***************************************************************************)
(* The data logger (LogTask.cpp, LogTask.h) and the EEPROM it writes       *)
(* (E2Driver.cpp).  Log events wait in a short RAM queue; one call of      *)
(* TaskLoop moves one step: an entry is written to the page next_free_entry*)
(* of a ring of pages, then the control block that says where the log      *)
(* starts and ends is written to a page of its own.  Every EEPROM access   *)
(* may fail, a failed write may leave its target half written, and the     *)
(* device may lose power between any two steps.                            *)
(*                                                                         *)
(* An entry is a number: the how-manieth entry it is.  0 is a page that    *)
(* holds no complete entry.                                                *)
(***************************************************************************)
EXTENDS Integers, Sequences

CONSTANTS
  LAST,           \* E2_LAST_ADDRESS: the page of the control block; the ring
                  \* of log pages is 0..LAST-1
  ByteSize,       \* how many values a byte has: a number is stored in two bytes
  MaxQueue,       \* MAX_MESSAGE_QUEUE_SIZE
  MaxFailures,    \* the number of failures in a row TaskLoop tolerates
  Requests,       \* the messages that are sent: "log", "dump", "delete"
  MayFail,        \* whether I2C transactions may fail
  MayTear,        \* whether a failed write may leave its target half written
  MayCrash,       \* whether the device may lose power
  InitialBlocks,  \* what the control block's page may hold at first
  MaxEntries      \* bound: how many entries are created

ASSUME LastAssumption == LAST \in Nat /\ LAST >= 2
ASSUME ByteAssumption == ByteSize \in Nat /\ ByteSize >= 2
ASSUME LimitsAssumption == /\ MaxQueue \in Nat \ {0}
                           /\ MaxFailures \in Nat
                           /\ MaxEntries \in Nat
ASSUME FaultsAssumption == {MayFail, MayTear, MayCrash} \subseteq BOOLEAN

Pages == 0..(LAST - 1)

\* CONTROL_BLOCK; magic is whether the field holds CONTROL_BLOCK_MAGIC.
Blocks == [magic : BOOLEAN, number_of_entries : Nat,
           oldest_entry : Nat, next_free_entry : Nat]
Empty == [magic |-> TRUE, number_of_entries |-> 0,
          oldest_entry |-> 0, next_free_entry |-> 0]
Zeroed == [Empty EXCEPT !.magic = FALSE]

ASSUME InitialAssumption ==
  \A b \in InitialBlocks : b \in Blocks /\ (b.magic => b = Empty)

VARIABLES
  log_system_state,
  control_block,          \* the copy in RAM
  queue,                  \* the list pHead..pEnd of entries to be written
  message_queue_size,
  next_to_read,
  IIC_failures,
  start_readback, start_delete,
  pages,                  \* EEPROM: the entry in each page of the ring
  stored,                 \* EEPROM: the control block
  created,                \* auxiliary: how many entries were created
  dumped                  \* auxiliary: what the readback in progress, or the one
                          \* that just ended, printed (its first LAST entries)

requests == <<start_readback, start_delete>>
ram == <<log_system_state, control_block, queue, message_queue_size,
         next_to_read, IIC_failures, requests>>
eeprom == <<pages, stored>>
vars == <<ram, eeprom, created, dumped>>

\* Static storage is zeroed: start_readback and message_queue_size too,
\* which have no initialiser of their own.
Init == /\ log_system_state = "INIT"
        /\ control_block = Zeroed
        /\ queue = <<>> /\ message_queue_size = 0
        /\ next_to_read = 0 /\ IIC_failures = 0
        /\ start_readback = FALSE /\ start_delete = FALSE
        /\ pages = [p \in Pages |-> 0]
        /\ stored \in InitialBlocks
        /\ created = 0 /\ dumped = <<>>

-----------------------------------------------------------------------------
(* EventHandler                                                            *)

\* CreateLogEntry: the entry is dropped if the queue is full or the clock
\* cannot be read; otherwise it is printed and queued.
DropEntry == /\ message_queue_size >= MaxQueue \/ MayFail
             /\ UNCHANGED <<queue, message_queue_size>>

\* Mutant: the queue may grow one past its limit.
QueueOneMore == /\ message_queue_size <= MaxQueue
                /\ queue' = Append(queue, created + 1)
                /\ message_queue_size' = message_queue_size + 1

QueueEntry == /\ message_queue_size < MaxQueue
              /\ queue' = Append(queue, created + 1)
              /\ message_queue_size' = message_queue_size + 1

LogEvent == /\ "log" \in Requests
            /\ created < MaxEntries
            /\ created' = created + 1
            /\ DropEntry \/ QueueEntry
            /\ UNCHANGED <<log_system_state, control_block, next_to_read,
                           IIC_failures, requests, eeprom, dumped>>

DumpLog == /\ "dump" \in Requests
           /\ start_readback' = TRUE
           /\ UNCHANGED <<log_system_state, control_block, queue, message_queue_size,
                          next_to_read, IIC_failures, start_delete,
                          eeprom, created, dumped>>

DeleteLog == /\ "delete" \in Requests
             /\ start_delete' = TRUE
             /\ UNCHANGED <<log_system_state, control_block, queue, message_queue_size,
                            next_to_read, IIC_failures, start_readback,
                            eeprom, created, dumped>>

-----------------------------------------------------------------------------
(* E2Driver: a transaction that fails.  A write that fails part of the way *)
(* has stored the bytes sent before, which may be all of them: then only   *)
(* its last acknowledgement was lost.                                      *)

AccessFails == /\ MayFail
               /\ IIC_failures' = IIC_failures + 1

\* A page that a write of entry e has reached holds no complete entry, or e.
TornPage(p, e) == \/ UNCHANGED pages
                  \/ /\ MayTear /\ p \in Pages
                     /\ \E left \in {0, e} : pages' = [pages EXCEPT ![p] = left]

\* A number of which only the low byte, which is sent first, is new.
Half(old, new) == (old \div ByteSize) * ByteSize + (new % ByteSize)

\* What a write of block c over block s leaves when it breaks off: the fields
\* are sent in this order, and it may do so inside a field or behind the last.
Torn(c, s) ==
  LET marked == [s EXCEPT !.magic = c.magic]
      counted == [marked EXCEPT !.number_of_entries = c.number_of_entries]
      begun == [counted EXCEPT !.oldest_entry = c.oldest_entry]
  IN  {marked,
       [marked EXCEPT !.number_of_entries = Half(@, c.number_of_entries)], counted,
       [counted EXCEPT !.oldest_entry = Half(@, c.oldest_entry)], begun,
       [begun EXCEPT !.next_free_entry = Half(@, c.next_free_entry)],
       c}

TornBlock == \/ UNCHANGED stored
             \/ MayTear /\ stored' \in Torn(control_block, stored)

-----------------------------------------------------------------------------
(* TaskLoop                                                                *)

InState(s) == log_system_state = s /\ IIC_failures <= MaxFailures

\* More than MaxFailures failures in a row: the logger stops for good.
GiveUp == /\ IIC_failures > MaxFailures
          /\ log_system_state' = "IIC_FAIL"
          /\ UNCHANGED <<control_block, queue, message_queue_size, next_to_read,
                         IIC_failures, requests, eeprom, created, dumped>>

\* INIT: the control block is read, or started afresh if it is not one.
ReadControlBlock ==
  /\ InState("INIT")
  /\ control_block' = IF stored.magic THEN stored ELSE Empty
  /\ IIC_failures' = 0
  /\ log_system_state' = "READY_RW"
  /\ UNCHANGED <<queue, message_queue_size, next_to_read, requests,
                 eeprom, created, dumped>>

InitFails == /\ InState("INIT")
             /\ AccessFails
             /\ UNCHANGED <<log_system_state, control_block, queue, message_queue_size,
                            next_to_read, requests, eeprom, created, dumped>>

\* READY_RW: a delete comes before a readback, a readback before a write.
BeginDelete == /\ InState("READY_RW")
               /\ start_delete
               /\ control_block' = Empty
               /\ dumped' = <<>>
               /\ log_system_state' = "WRITE_CTRL_BLOCK"
               /\ UNCHANGED <<queue, message_queue_size, next_to_read, IIC_failures,
                              requests, eeprom, created>>

\* Mutant: a readback starts from the first page, not from the oldest entry.
BeginReadbackAtZero == /\ InState("READY_RW")
                       /\ ~start_delete /\ start_readback
                       /\ start_readback' = FALSE
                       /\ next_to_read' = 0
                       /\ dumped' = <<>>
                       /\ log_system_state' = "READBACK_LOG"
                       /\ UNCHANGED <<control_block, queue, message_queue_size,
                                      IIC_failures, start_delete, eeprom, created>>

BeginReadback == /\ InState("READY_RW")
                 /\ ~start_delete /\ start_readback
                 /\ start_readback' = FALSE
                 /\ next_to_read' = control_block.oldest_entry
                 /\ dumped' = <<>>
                 /\ log_system_state' = "READBACK_LOG"
                 /\ UNCHANGED <<control_block, queue, message_queue_size, IIC_failures,
                                start_delete, eeprom, created>>

BeginWrite == /\ InState("READY_RW")
              /\ ~start_delete /\ ~start_readback
              /\ queue # <<>> /\ message_queue_size > 0
              /\ dumped' = <<>>
              /\ log_system_state' = "WRITE_LOG_MSG"
              /\ UNCHANGED <<control_block, queue, message_queue_size, next_to_read,
                             IIC_failures, requests, eeprom, created>>

\* Mutant: the ring runs into the page of the control block.
WrappedLate(p) == IF p > LAST THEN 0 ELSE p

\* The control block after an entry was written to next_free_entry: the end
\* moves on, and pushes the start before it when it has come round.
Wrapped(p) == IF p >= LAST THEN 0 ELSE p

\* Mutant: the start of the log is not pushed.
AdvancedUnpushed(b) ==
  [b EXCEPT !.number_of_entries = IF @ < LAST THEN @ + 1 ELSE @,
            !.next_free_entry = Wrapped(@ + 1)]

Advanced(b) ==
  LET free == Wrapped(b.next_free_entry + 1)
  IN  [b EXCEPT
         !.number_of_entries = IF @ < LAST THEN @ + 1 ELSE @,
         !.next_free_entry = free,
         !.oldest_entry = Wrapped(IF @ = free THEN @ + 1 ELSE @)]

\* WRITE_LOG_MSG: the entry at the head of the queue goes to the free page, which
\* must be one of the ring (memory_write refuses what is past the EEPROM's end).
WriteLogMsg == /\ InState("WRITE_LOG_MSG")
               /\ control_block.next_free_entry \in Pages
               /\ pages' = [pages EXCEPT ![control_block.next_free_entry] = Head(queue)]
               /\ queue' = Tail(queue)
               /\ message_queue_size' = message_queue_size - 1
               /\ control_block' = Advanced(control_block)
               /\ IIC_failures' = 0
               /\ log_system_state' = "WRITE_CTRL_BLOCK"
               /\ UNCHANGED <<next_to_read, requests, stored, created, dumped>>

\* Mutant: an entry whose write failed is dropped, not tried again.
WriteLogMsgDrops == /\ InState("WRITE_LOG_MSG")
                    /\ AccessFails
                    /\ TornPage(control_block.next_free_entry, Head(queue))
                    /\ queue' = Tail(queue)
                    /\ message_queue_size' = message_queue_size - 1
                    /\ log_system_state' = "READY_RW"
                    /\ UNCHANGED <<control_block, next_to_read, requests,
                                   stored, created, dumped>>

WriteLogMsgFails == /\ InState("WRITE_LOG_MSG")
                    /\ AccessFails
                    /\ TornPage(control_block.next_free_entry, Head(queue))
                    /\ UNCHANGED <<log_system_state, control_block, queue,
                                   message_queue_size, next_to_read, requests,
                                   stored, created, dumped>>

\* WRITE_CTRL_BLOCK
WriteCtrlBlock == /\ InState("WRITE_CTRL_BLOCK")
                  /\ stored' = control_block
                  /\ IIC_failures' = 0
                  /\ log_system_state' = "READY_RW"
                  /\ UNCHANGED <<control_block, queue, message_queue_size, next_to_read,
                                 requests, pages, created, dumped>>

WriteCtrlBlockFails == /\ InState("WRITE_CTRL_BLOCK")
                       /\ AccessFails
                       /\ TornBlock
                       /\ UNCHANGED <<log_system_state, control_block, queue,
                                      message_queue_size, next_to_read, requests,
                                      pages, created, dumped>>

\* READBACK_LOG: one page is printed.  The end is looked for before the
\* cursor wraps around.
ReadbackLog ==
  /\ InState("READBACK_LOG")
  /\ dumped' = IF Len(dumped) < LAST THEN Append(dumped, pages[next_to_read]) ELSE dumped
  /\ IF next_to_read + 1 = control_block.next_free_entry
       THEN next_to_read' = next_to_read + 1 /\ log_system_state' = "READY_RW"
       ELSE next_to_read' = Wrapped(next_to_read + 1) /\ UNCHANGED log_system_state
  /\ UNCHANGED <<control_block, queue, message_queue_size, IIC_failures, requests,
                 eeprom, created>>

ReadbackFails == /\ InState("READBACK_LOG")
                 /\ AccessFails
                 /\ UNCHANGED <<log_system_state, control_block, queue, message_queue_size,
                                next_to_read, requests, eeprom, created, dumped>>

TaskLoop == \/ GiveUp
            \/ ReadControlBlock \/ InitFails
            \/ BeginDelete \/ BeginReadback \/ BeginWrite
            \/ WriteLogMsg \/ WriteLogMsgFails
            \/ WriteCtrlBlock \/ WriteCtrlBlockFails
            \/ ReadbackLog \/ ReadbackFails

-----------------------------------------------------------------------------
\* Power is lost and returns: what was in RAM is gone.
Crash == /\ MayCrash
         /\ log_system_state' = "INIT"
         /\ control_block' = Zeroed
         /\ queue' = <<>> /\ message_queue_size' = 0
         /\ next_to_read' = 0 /\ IIC_failures' = 0
         /\ start_readback' = FALSE /\ start_delete' = FALSE
         /\ dumped' = <<>>
         /\ UNCHANGED <<eeprom, created>>

Next == LogEvent \/ DumpLog \/ DeleteLog \/ TaskLoop \/ Crash

\* The superloop calls TaskLoop again and again.
Spec == Init /\ [][Next]_vars /\ WF_vars(TaskLoop)

-----------------------------------------------------------------------------
(* Properties.                                                             *)

States == {"INIT", "READY_RW", "WRITE_LOG_MSG", "WRITE_CTRL_BLOCK",
           "READBACK_LOG", "IIC_FAIL"}

\* Types; IIC_failures never runs away and the RAM queue never exceeds its
\* limit, nor does its separately kept length disagree with the list.
TypeOK == /\ log_system_state \in States
          /\ control_block \in Blocks /\ stored \in Blocks
          /\ queue \in Seq(1..created)
          /\ message_queue_size = Len(queue) /\ message_queue_size <= MaxQueue
          /\ next_to_read \in 0..LAST
          /\ IIC_failures \in 0..(MaxFailures + 1)
          /\ start_readback \in BOOLEAN /\ start_delete \in BOOLEAN
          /\ pages \in [Pages -> 0..created]
          /\ created \in Nat
          /\ dumped \in Seq(Nat)

\* The pages a control block says are in the log, and their order.
InLog(b, p) == IF b.oldest_entry <= b.next_free_entry
                 THEN b.oldest_entry <= p /\ p < b.next_free_entry
                 ELSE b.oldest_entry <= p \/ p < b.next_free_entry
Before(b, p, q) == IF (p >= b.oldest_entry) = (q >= b.oldest_entry)
                     THEN p < q
                     ELSE p >= b.oldest_entry

\* The log on the EEPROM, as the next boot would find it, is intact at every
\* moment, whichever writes failed half way and whenever power is lost: its
\* bounds are pages, each of its pages holds a complete entry, and the entries
\* are in the order they were created, none twice.
LogIntact ==
  stored.magic =>
    /\ stored.oldest_entry \in Pages /\ stored.next_free_entry \in Pages
    /\ \A p \in Pages : InLog(stored, p) => pages[p] # 0
    /\ \A p, q \in Pages :
         InLog(stored, p) /\ InLog(stored, q) /\ Before(stored, p, q) => pages[p] < pages[q]

\* A bound of the log on the EEPROM becomes neither the old one nor the new one.
BoundHalfWritten ==
  \E f \in {"oldest_entry", "next_free_entry"} : stored'[f] \notin {stored[f], control_block[f]}

\* No step touches a page that is in the log on the EEPROM.  Unless the log is
\* being deleted, no step takes a page into it that is not in the old log or the
\* new one, and none drops any but the oldest entry from it, with one exception:
\* a write that breaks off between the two bytes of a bound, where it passes a
\* multiple of ByteSize, may drop many.
LogNeverDamaged ==
  [][stored.magic =>
       \A p \in Pages :
         /\ InLog(stored, p) => pages'[p] = pages[p]
         /\ ~start_delete =>
              /\ stored'.magic
              /\ InLog(stored', p) => InLog(stored, p) \/ InLog(control_block, p)
              /\ InLog(stored, p) /\ p # stored.oldest_entry /\ ~BoundHalfWritten
                   => InLog(stored', p)]_vars

LogLength == (control_block.next_free_entry + LAST - control_block.oldest_entry) % LAST

\* How many pages a dump that ends has printed: a log whose start is its end,
\* unless both are page 0, is taken for a full one and goes once round the ring.
DumpLength == IF LogLength = 0 THEN LAST ELSE LogLength

\* A readback that ends has printed the log: all of it, oldest entry first,
\* nothing twice, whatever was logged while it ran.
DumpInOrder ==
  [][InState("READBACK_LOG") /\ log_system_state' = "READY_RW" =>
       dumped' = [i \in 1..DumpLength |->
                    pages[(control_block.oldest_entry + i - 1) % LAST]]]_vars

InQueue(e) == \E i \in 1..Len(queue) : queue[i] = e
InStore(e) == stored.magic /\ \E p \in Pages : InLog(stored, p) /\ pages[p] = e

\* What ends the logger's work for good, or the entries in RAM: it has given up,
\* a delete was asked for, a log that ends before page 0 is dumped, power was lost.
Stopped == log_system_state = "IIC_FAIL" \/ start_delete
DumpsForEver == log_system_state = "READBACK_LOG" /\ control_block.next_free_entry = 0
Rebooted == log_system_state = "INIT" /\ queue = <<>>

\* An entry that was queued ends in the log on the EEPROM, however many
\* transactions fail in between, unless the logger's work has ended or dumps are
\* asked for again and again.
QueuedIsStored ==
  []<>start_readback \/
  \A e \in 1..MaxEntries :
    InQueue(e) ~> InStore(e) \/ Stopped \/ DumpsForEver \/ Rebooted

\* README, section on data logging: when the demand is set to 0, the logged data is
\* sent to the serial port.  A readback of a log that is not empty comes to an end
\* (or the logger gives up).
ReadbackEnds == (log_system_state = "READBACK_LOG" /\ LogLength > 0) ~>
                (log_system_state # "READBACK_LOG")
=============================================================================
