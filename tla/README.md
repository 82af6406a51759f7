# TLA+ models of the ATMega firmware and kernel

This directory models the parts of the repository whose correctness depends on the order
in which things happen: the kernel's message queue, subscriptions, task ring and timers,
the I2C bus with the drivers of the EEPROM and the clock on it, the data logger that keeps
its log on the EEPROM, the measurement of the speed, the keypad, the display and the motor
control, and the firmware that they make up together. TLC checks the models on small
instances; TLAPS proves the safety properties and the refinements for every instance. All
source paths are below `src/`.

## The system

An AVR (16-bit `int`, one core) runs a superloop, `loop()` in
`kernel/kernel.cpp`: it dispatches at most two queued messages
(`MQClass::Loop(2)`) and then calls one task (`TaskRing::Loop()`), for ever. Tasks
and message handlers run to completion on this main thread; only interrupt
service routines preempt it.

| Component | State | Operations | Talks to |
|---|---|---|---|
| Message queue, `kernel/mq.cpp` | linked list of heap-allocated MESSAGEs, a handler list per id | `Post` (task or interrupt context), `Loop`, `Subscribe`, `Unsubscribe` | calls handlers; masks interrupts; allocates |
| Task ring, `kernel/taskring.cpp`, `Task.cpp` | list of TASKSTATEs, cursor | register, `Loop`, deregister (empty) | calls `TaskLoop` of each task |
| Interrupt mask, `kernel/interrupts.cpp` | the I flag | cli, sei | used by `Post` and `Loop` |
| Data logger, `LogTask.cpp` | state, RAM queue of at most 3 entries, control block in RAM and on the EEPROM, ring of 1023 pages | events LOGEVENT, DUMPLOG, DELETELOG; `TaskLoop` | RTC, EEPROM, serial port |
| I2C, `kernel/iic.cpp` | bus registers | polled write and read of some bytes | devices |
| EEPROM driver, `E2Driver.cpp` | none | page write, page read | I2C |
| Clock driver, `RTCDriver.cpp` | none | set and get the date | I2C |
| Control, `control.cpp`, `pwm.cpp` | demand, actual speed, tick counter, a static message buffer | quarter-second tick, NEW_RPS_ENTERED | RPS, PWM; posts NEW_ACTUAL_RPS, LOGEVENT, DUMPLOG |
| Keypad, `KeypadTask.cpp` | scan/debounce state, last key | `TaskLoop` | IIC; posts KEY_PRESSED, UPDATE_7SEG |
| Display, `display.cpp` | state machine of digit entry, one-slot key buffer | `TaskLoop`, three events | LCD; posts NEW_RPS_ENTERED |
| Seven-segment, `SevenSegEventHandler.cpp` | port pins | UPDATE_7SEG | posts once from its static constructor |
| Speed, `rps.cpp` | two 16-bit counters, the last state of the pin | two ISRs, `GetRPS` | read by Control |
| Timers, `kernel/ostimer.cpp` | start, timeout, freeze time | Set, Restart, isExpired, Freeze, Thaw | millis() |

What is hard here: ISRs that post while the main thread is inside the list; a task that
registers others while the ring is half way round; messages posted by the handlers of
messages; handlers that change the list they are called from; a count that two ISRs write
while it is read byte by byte; transfers that break off at any byte; EEPROM transactions
that fail, stop half way, or are cut off when power is lost, between the two writes that
make up one log entry; the wrap-around of the log ring; long sequences of legal requests
(dump, delete, log) that wedge the logger. `PROJECT.json` lists these hazards with the
source line where each one bites and the property that would catch it.

What makes each component correct:
- queue: no message lost, duplicated, reordered, leaked or used after delete,
  every handler sees it once, interrupts are masked exactly where needed;
- ring: every registration gets its turn, none is overtaken;
- logger: the log the next boot finds is complete and in order, a dump prints
  it, what was queued is stored;
- subscriptions: nobody is called twice for a message or passed over;
- timers: expired exactly when the time has passed, across the wrap of `millis()`;
- speed: each rising edge is counted once, and what is read is what was counted;
- bus and drivers: a page or a date that was written with success is read back,
  a failed write does no more than a beginning of it, and every call returns;
- keypad: one message per key press, and it does come; display: the speed entered is
  the one on the screen; control: it follows the demand on the screen;
- all together: the queue does not grow from one round to the next, and a
  message's payload is still valid when it is dispatched.

## Modules

| Module | Models | Checked by |
|---|---|---|
| `MessageFifo` | what the queue promises | refined by `MessageQueue` |
| `MessageQueue` | `MQClass::Post`, `MQClass::Loop` | `MCMessageQueue` |
| `MessageQueueProofs` | theorems about it | |
| `LogTask` | `LogTask` with an EEPROM as `PageStore` promises it | `MCLogTask` |
| `LogTaskProofs` | theorems about it | |
| `TaskRing` | `TaskRing::RegisterTaskHandler`, `Loop` | `MCTaskRing` |
| `Subscriptions` | `Subscribe`, `Unsubscribe`, `UnsubscribeAllIDs`, the walk of `Loop` | itself |
| `SubscriptionsProofs` | theorems about it | |
| `OSTimer` | `kernel/ostimer.cpp` | itself |
| `KernelProofs` | theorems about `TaskRing` and `OSTimer` | |
| `RPS` | `rps.cpp`: both ISRs and `GetRPS` | itself |
| `IIC` | `IICWrite`, `IICRead` | used by the next two |
| `E2Driver` | `E2Driver.cpp` | `Peripherals` |
| `RTCDriver` | `RTCDriver.cpp` | `Peripherals` |
| `Slave` | the devices on the bus, as the drivers use them | `Peripherals` |
| `PageStore` | what the EEPROM driver promises | refined by `Peripherals` |
| `Peripherals` | the bus: both drivers, the master, the EEPROM and the clock | `MCPeripherals` |
| `PeripheralsProofs` | theorems about it | |
| `Messages` | `msgids.h`, the messages the application posts | used by the next four |
| `Keypad` | `KeypadTask::TaskLoop` | `KeypadContacts` (an operator, contacts that bounce) |
| `InputProofs` | theorems about `RPS` and `KeypadContacts` | |
| `Display` | `Display::TaskLoop`, `EventHandler` | `DisplayEntry` (an operator who enters speeds) |
| `DigitEntry` | what the display promises | refined by `DisplayEntry` |
| `DisplayEntryProofs` | theorems about `DisplayEntry` | |
| `Control`, `SevenSeg` | `control.cpp` with `PWM::SetPWM`; the seven-segment handler | `Firmware` |
| `Firmware` | `loop()`, `UserInit()`: the composition of the last four | `MCFirmware` |
| `FirmwareProofs` | theorems about it | |

`OSTimer` and `RPS` name their behaviours `TimerSpec` and `RPSSpec`, and their parts
likewise, so that a module of proofs can extend them beside another one.

A definition whose comment begins with "Mutant" is not part of a model. It is a
plausible slip in the code (a dropped guard, a missing reset, a swapped start)
that, put in the place of the definition after it, must make one property fail;
`PROJECT.json` says which.

### MessageQueue

The main thread's `Post` and `Loop` take one step per assignment to shared
memory (`pc` says which is next), because an ISR may run between any two of them
when interrupts are enabled (`ie`). An ISR's own `Post` is one step: nothing
preempts it. `first`, `last` and `next` are the pointers of the code, `live` is
the set of allocated MESSAGEs and `heap` that of the contexts the queue has to
free; `chain`, the messages in the order they were posted, is auxiliary and no
guard reads it. `msg`, `budget` and `cur` are the locals of `Loop`: the message,
what is left of `MaxMessages`, how far the handler list was walked. Details the
properties depend on are kept: the assignments of `first = last = new` happen
from right to left, an empty queue uses up a turn of `Loop`, `Post` enables
interrupts whatever they were before, a refused id and an exhausted heap still
pass through `sei()`. Before the start-up code's `sei()` static constructors may
already post.

Left out: handler lists that change (a constant here), and ids below
`MSG_ID_NOMESSAGE`, which `Post` would take for an index; no caller passes one.
A context that is handed over is a fresh one, as ownership requires.

### LogTask

One action per branch of `TaskLoop`, success and failure apart, and one per
event. An entry is the number of its creation. A page holds an entry or 0, which
is a page never written or half written. `pages` and `stored` are the EEPROM and
survive `Crash`; everything else is RAM. A failing write may leave a page half
written or whole (`TornPage`), or a control block of which any number of the bytes is
new, all of them included (`TornBlock`). A number has two bytes of `ByteSize` values, the
low one first, so that a bound may be `Half` stored. `dumped` records what a readback
prints, up to one round of the ring.

A bound that is half stored matters when it passes a multiple of 256. From 255 to 256 it
is 0 in between: if the write of the control block breaks off there, the EEPROM names a log
that is far shorter, or empty. `LogNeverDamaged` excepts this step (`BoundHalfWritten`),
since nothing in the code prevents it: hundreds of entries are out of the log until
the retry succeeds, and for good if power is lost or the logger gives up before that. What
the properties do say is that the log on the EEPROM still is a stretch of complete entries in
order (`LogIntact`), that no page is overwritten, and that any other break drops the oldest
entry at most. The repository's README promises a wrap-around "without corrupting
the storage". After such a break the bounds may be equal and not 0; a dump takes that for a
full ring and prints every page once (`DumpLength`).

What may become of the EEPROM is what `PageStore` allows: a write that fails leaves a
beginning of its data in its page. A write that succeeds and is then cut off by a
loss of power leaves the same states, as far as they are a beginning, as one that
fails and is followed by `Crash`. Two things `PageStore` allows are not in `LogTask`,
since the code has no means against them: a cell that was being programmed when power
was lost may hold anything, so that a control block with a valid magic and wild bounds
would be believed; and the device programs two pages together, of which the one that is
not written (log page 1022 beside the control block) may suffer too.

`QueuedIsStored` names what keeps an entry from being stored: the logger has given up
after too many failures, a delete was asked for (`start_delete` is never cleared), a
log whose end stands before page 0 is dumped, power is lost, or dumps are asked for
without end, which go before the queue. A dump prints what is on the EEPROM; what is
still queued when it begins is stored after it.

Left out: the bytes and the printed form of an entry, and an EEPROM with a valid magic
and an arbitrary log (the initial one is blank or holds an empty log).

### TaskRing

Registration prepends and nothing is removed, so a TASKSTATE is the number of
its registration and `pNext` is the number below. A handler is called
(`LoopCall`) and returns (`LoopReturn`) in two steps, between which it may
register tasks. `seen` is auxiliary: who was called since a registration's last
turn.

### Subscriptions

`QueueBlock[i]` is the handler list of an id as a sequence of MESSAGEHANDLERs; no
ISR touches the lists, so that an operation is one step. `pc` says whether `Loop`
stands between two handlers or in one; a handler, like a task, may subscribe and
unsubscribe, also for the id that is being dispatched, also itself. `Loop` then reads
`pNextHandler` from an entry that is deleted (`kernel/mq.cpp:378`). avr-libc's `free`
overwrites the first two bytes, where the virtual table pointer is, so that the link behind
it stays (`LinkLeft`) until the memory is allocated again: by a subscription, or by
anything else the handler allocates, a message for one (`Reuse`). When that has happened, or
the handler has deleted the next entry too, the link is dead (`stray`): the walk goes on
anywhere or calls through what is no handler (`ReturnAstray`, `Lost`), and nothing is
promised of that message. `EachCalledOnce` and `WalkEnds` except it; the lists stay
sound in `ListsSound` as long as the program is followed, which it is not from `Lost` on.
No handler of this program unsubscribes. Functions and receivers are alike; a NULL
handler and an id out of range are refused with no effect and are left out.
`UnsubscribeAllIDs` lacks its return statement; nobody uses the value.

### OSTimer

The clock `now` counts modulo `Modulus` (2^32 in the code); `ran` is what a clock
without wrap would say, kept below one period: a timer is restarted, or not looked
at any more, within 49 days. `frozen` is never cleared, so that a second `Thaw` would
move the timer again; only `Thaw` after `Freeze` is modelled, with no `Set` or
`Restart` in between. While a timer is frozen `isExpired` goes on counting, and only
`Thaw` makes up for it; so `ExpiryExact` is about timers that run. Nothing in this
program freezes a timer.

### RPS

The pin may change at any time, also between the two reads of PINC in its ISR (`TestPin`,
`StorePin`) and while an overflow is pending. ISRs do not nest, PCINT1 has the lower
vector, and a flag is cleared when its ISR is entered, so that an edge during the ISR
calls it once more. `GetRPS` runs with interrupts enabled and loads the count one byte
after the other, in the order the compiler likes; a byte holds `Base` values. Overflows
are 0.26 s apart, so that at most one comes into one call (`renewed`). `rises`,
`latched`, `before` and `paced` are auxiliary. The speed, `count * 100 / 78`, is
a function of the count and left out (`count * 100` passes 16 bits from 656 on, 840 rps).

`SpeedRead` compares what `GetRPS` computes the speed from with the true number of
rising edges, for edges slower than the ISR: it is that of the last interval, or, if the
interval ended between the two reads, of the one before. A count that crosses a multiple of
256 between two intervals can be read as half the one and half the other, and is
excepted, since nothing keeps the ISR out (`kernel`'s `Post` masks interrupts, `GetRPS` does
not). That takes 328 rps; the display admits demands up to 340.

### The bus: IIC, E2Driver, RTCDriver, Slave, PageStore, Peripherals

`IIC` is the master: a transfer begins with `IICWrite` or `IICRead` and goes through
`phase`, one action per wait for TWINT, success and failure apart; `Stopped` and
`StartFails` return. A driver's call is one or two transfers: `e2.op` and `rtc` say which
one is next, `e2_result` and `rtc_result` what the call returned. The main thread makes
one call at a time. (The keypad's port expander is on the bus too, at an address of its
own; its transfers are not here, and `Keypad` treats what they read as arbitrary.)

`Slave` is the hardware, from the data sheets in `schematics/`: an address counter set by
the first bytes of a write, a buffer that is programmed after the stop condition, no
answer while it programs, the data line held until a byte is not acknowledged.
`Peripherals` puts them together: each event of the bus is an action of the master and an
operator of the slave that is addressed. A start, an address or a byte may fail at any
time; an address or a byte that failed may have arrived all the same. A slave that was to
be read then sends, and so does one whose byte was lost: since the driver refuses no byte
any more, and waits for a stop condition that the slave may not let through, this is a
state without end (`Jammed`, `kernel/iic.cpp:161`). (If the slave's first bit is a 1 it
lets the condition through and takes it for the end, as if it had not been selected. After
a bus error it is the next start that may wait instead. A reset of the controller alone,
which would find the slave still sending, is not modelled.) Power may be lost at any time:
the EEPROM loses its buffer, or, if it was programming, may damage any cell of the block;
the clock has a battery; the main thread starts with the clock's constructor. (A `LogTask`
holds two `RTCDriver`s, whose constructors do the same.) Where a transfer other than one
that sets the address leaves the address counter is `Adrift`, one value that no driver may
rely on.

The refinement mapping takes the EEPROM's cells with its buffer laid over them for the
pages, and what was received behind the address for what was accepted; `PageStore`
gets there one byte at a time (`E2Accepted`), `memory_read`'s two transfers are one call
(`E2Call`), and a read of the abstract store is one step, the stop condition of the
second transfer. What the device has in its buffer is not settled before it is
programmed (`E2Unsettled`). The assumptions of the module say what the memory map of
`E2Driver.h` and the data sheet have: whole pages, and blocks of whole pages.

`DateKept` excepts leap years: the clock shows in bit 5 of the month register that the
year is one, `get_date` masks bits 4 to 6 for the tens (`RTCDriver.cpp:76`), and the
month comes out 20 too large. Two more things in `set_date` are modelled as they are
and contradict no property: February has 28 days in leap years and 29 in the others
(`Leap` and `max_month_days`), and the hour is not checked. `weekday` is whatever the
stack held (`Weekdays`).

Left out: the time that the clock counts, also while it is read; arbitration (there is
one master); the registers the constructor sets; what a bus error at the start leaves
behind, which only a stop condition clears and `IICWrite` then sends none.

### Keypad, Display, Control, SevenSeg

Each has its variables, the queue it posts to, one action per branch of its
`TaskLoop` and one per message it handles. `TaskLoop` of `Keypad` and `Control`
takes what it reads from outside (port, speed) as an argument. Of a timer they see
whether it has expired, a flag that an action of its own sets at any time and a
restart clears. A failing bus transfer is a reading like any other: `IICRead`'s
result is not looked at. A reading is the set of active rows and the column driven.

`Display` keeps of the LCD the columns 9 to 12 of the line in which a speed is
entered, and of the buffer its three characters and the byte behind them
(`error_timer`'s low byte), since printing and scanning run on to the terminator.
A character is its digit; Nul is also a blank. After `error_timer.Set(2000)` that byte
is the terminator or some other byte, of which one (0, a digit) stands for all.

`KeypadContacts` has an operator who presses one key at a time and contacts that
may read either way while they bounce. The bounce is shorter than the 20 ms of the
debounce timer: if the timer was set during a bounce, the bounce ends before it
expires (`outlasted`). `Unhurried` operators leave a key down, or up, until the bounce
is over and the keypad has polled and debounced. `DisplayEntry` has an operator whose
keys are further apart than two rounds of the ring (`Attentive`), which the keypad's
debounce makes true of one finger. The display has one slot for a key and reads it
again a round later, so that faster keys are lost or change the first digit.

### Firmware

The composition: the four components by named INSTANCE on one `queue`, which is the
FIFO that `MessageQueue` implements, and the round of the ring that `TaskRing`
implements, in the order that the constructors and `UserInit` make: control, logger,
display, keypad, keypad (its constructor registers it and then calls `Start`, which
registers it again). `budget` is `MaxMessages` of `MQClass::Loop`, `hand` the message
that is dispatched, `turn` the task that comes next. No assumption is made on
operator or keys: a poll may return any of `Readings`, at any time. A timer
expires between two calls, just before the task that looks at it. The logger is a
receiver that posts nothing; what it does with an entry is `LogTask`. `m.text` of a
LOGEVENT is auxiliary: what `log_message` said when it was posted. In `Init` the
static constructors have run and `UserInit` too, with or without a date the clock
accepted.

## Runs

| Run | Instance | Shows |
|---|---|---|
| `queue` | 3 MESSAGEs, 1 owned context, ids 1 (two handlers), 2 (from an ISR, one handler), 26 (refused) | memory, list, mask and FIFO order; every queued message is freed and interrupts come back (216,628 states) |
| `log` | ring of 4 pages, bytes of base 2, queue of 2, 5 entries, all requests, failures, torn writes, crashes | log intact and undamaged, dumps in order, what was queued is stored (228,540 states) |
| `readback` | ring of 3 pages, 3 entries and a dump, no faults | *violated*: a dump never ends |
| `ring` | 2 tasks, 4 registrations | nobody overtaken or starved |
| `subscriptions` | 3 receivers, 2 ids, 3 MESSAGEHANDLERs | lists sound, everyone called once, the walk ends, unless it follows a dead link (478,809 states) |
| `timer` | a clock modulo 8 | expiry is exact (8,704 states) |
| `rps` | bytes of base 3, up to 4 edges an interval | counted once, counted exactly, read whole (677,160 states) |
| `bus` | EEPROM of 4 pages of 2 bytes, eight EEPROM calls, four dates, every fault | implements `PageStore`, keeps the date, calls return unless the bus is jammed (138,812 states) |
| `keypad` | keys 0, 1, 4, #: all columns, two keys in one | a press is posted once, as its key; a held key is posted (1,062 states) |
| `hurried` | keys 1 and 4, no patience | *violated*: a key is posted without debounce |
| `display` | digits 0, 3, 4, backspace, enter | entry as on the screen, implements `DigitEntry`, comes back (258,036 states) |
| `firmware` | keys 3, # (one column), *; measured speeds 0, 300 | queue drained, log message fresh, demand followed, duty cycle as demanded, both displays agree (7.8 million states) |

The bounds. Three MESSAGEs are one in hand and a queue of two, the shortest with a first
that is not the last, and make exhaustion reachable; one context is enough for a double
free or a use after free, since ids and order are independent of it. A ring of four pages
has a full log of three entries and wraps after the fourth; with five entries the end
comes round, pushes the start, and the log loses its oldest entry twice. With bytes of
base 2 each bound passes a multiple of the base (1 to 2) and is half stored there, and
comes back to 0 over both its bytes. `MaxFailures` is 5 in the code and 1 in `log`, where
only "tolerated" and "one too many" differ; `readback` has the code's own. `MaxEntries`
and `MaxRegistrations` bound counters that the code does not bound.

In `rps` a count of four has two digits, and the high one takes two values, so that a
torn read is possible and the exception in `SpeedRead` is needed; four rising edges
are more than fit into one call of the ISR and the flag that waits behind it. In `bus`
the pages 2 and 3 share a block of the device and page 3 is the last one, as the control
block's is; the calls include one page beyond the end, one byte too many and none at
all, the dates one with two digits everywhere, a leap year, and two that are refused.
Addresses have two bytes of base 4, of which both change.

Three receivers on one list are a first, a middle and a last; three MESSAGEHANDLERs on two
lists run out, and one that is deleted is the next to be allocated; calls are counted up
to two (`Twice`). A clock of three bits has every relation between start, timeout, freeze
and wrap. With the digits 0, 3 and 4 the display is offered numbers on both sides of both
limits (40, 300, 340, 343, 403), with the program's own range. In `firmware` one digit
gives 0 (by backspace), 300, which is calibrated down by 40, 330, which the range there
just admits and which is full duty, and 333, which it rejects (let through, it would be
cut to almost nothing). For all speeds of all ranges `MotorRuns` is proved; a log entry
comes with every tick instead of every eighth, which the properties cannot tell apart.

Fairness. The main thread keeps executing instructions, also under interrupts (weak
fairness of the steps of `Post` and `Loop`; AVR executes one main-thread instruction
between two ISRs). The superloop calls `MQClass::Loop` again and again although tasks post
in between, and a handler returns although it may post first: strong fairness of
`LoopCall` and `HandlerReturn`. It calls the logger again and again: weak fairness of its
`TaskLoop` as a whole, with success and failure left to chance. In `Subscriptions` a
handler returns, whatever it may subscribe first (weak fairness of `Return` and
`ReturnAstray`), and `Loop` goes on. `KeypadContacts` and `DisplayEntry` assume that the
superloop goes round (weak fairness of the poll, the task and the dispatch), that a bounce
ends and that time passes. In `Peripherals` the bus goes on: weak fairness of `Driver`,
the next event of a transfer, be it success or failure, where there is one: a stop
condition that a slave does not let through is no such event. That is the assumption the
driver's unbounded waits need (`kernel/iic.cpp:73`); the checks then show that the drivers
bring no device into a state in which there is no next event, other than by a lost
acknowledgement or byte of a read (`Jammed`). No fairness is assumed of ISRs, requests,
posters, the operator, the success of a transfer, the end of a write cycle or the power
supply.

## What the checks disagree with

- `readback`: the end of a dump is tested after the cursor is incremented and before it
  wraps, so that an end at page 0 is never met (`LogTask.cpp:121`). A log has its end
  there when it is empty (entering 000 before anything was logged does this) and again
  after every 1023rd entry. The logger then dumps for ever and stores nothing.
- `hurried`: the README has a key accepted when its debounce is complete; after a key
  that is held any other key code is posted at once (`KeypadTask.cpp:77`), and again
  when it has been debounced.

More of what the repository says is not kept by the code, plainly enough to need no run:
- `kernel/mq.h:207` offers `Post` to ISRs, whose `new` may come in the middle of the main
  thread's `delete`; `kernel/mq.h:188` and `kernel/taskring.h:114` have destroyed
  receivers and tasks taken off the lists, but `~EventReceiver` and
  `DeregisterTaskHandler` are empty; `kernel/ostimer.cpp:104` has a frozen timer stop.
  None of this matters to this program.
- `start_delete` is never cleared (`LogTask.cpp:47`): after one delete the logger does
  nothing else. No task of this program asks for a delete.
- `RTCDriver.cpp:20` adjusts February for leap years, the wrong way round, and
  `RTCDriver.cpp:70` promises a date in human-readable format, whose month is 20 too large
  in a leap year.
- `kernel/iic.cpp:161` waits for a stop condition that a slave which is still sending does
  not let through: a read whose address or byte loses its acknowledgement may stop the
  superloop (`Jammed`).
- `rps.h:33` has `GetRPS` return the last calculated speed; it may be torn (see `RPS`).

## Proofs

TLAPS proves the following for all constants that satisfy the modules' assumptions, and
a further hypothesis where one is named. TLC checked each inductive invariant on
the instance of the run before it was proved.

- **MessageQueue**: all its safety invariants, and that it implements `MessageFifo`, for
  any number of MESSAGEs, contexts, handlers and posters. The list is only sound from
  outside a critical section, so the inductive invariant `IInv` adds what holds inside:
  `Control` (which of `msg`, `fresh`, `caller` is set at each `pc`), `TailSound` (what
  `last` and the last `next` are while the main thread is between two assignments) and
  `PayloadSound` (ids and contexts of the messages that are queued or in hand). One lemma
  per action shows that the action keeps it; the refinement then maps the linking of a
  message to `Accept`, `PopUnlink`'s step to `Take`, a handler's call to `Deliver` and the
  delete to `Done`, and every other step to a stutter.
- **Subscriptions**: `TypeOK`, `ListsSound` and `EachCalledOnce`, for any number of
  receivers, ids and MESSAGEHANDLERs (`TypeOK` bounds a list by the number of receivers,
  and asks for that number to be finite). `Walking` says of a walk that is not astray that
  there is a place `g` of the list with which it goes on (`GoesOn`): nobody from there on
  has been called, and everybody before it who was there from the beginning has.
  Subscribing puts an entry before `g`; unsubscribing moves `g` at most, also when it
  takes away the entry whose handler runs, because the link left in its memory is the
  entry at `g`.
- **TaskRing** (in `KernelProofs`): `TypeOK` and `NoOvertaking`, for any tasks and any
  number of registrations. `RoundSoFar` bounds who can have been called since each
  registration's last turn by where the round stands.
- **OSTimer** (in `KernelProofs`): `ExpiryExact`, for every modulus. `Counted` relates the
  difference of two readings to the time counted, up to now or up to the freeze; the
  differences modulo `Modulus` become cases by `SinceIs`.
- **LogTask**: `TypeOK`, `LogIntact`, `LogNeverDamaged` and `DumpInOrder`, for every ring
  size, byte size, queue length and failure limit, assuming `Formatted`: if writes may
  tear, the EEPROM has been formatted. `LogIntact` is not inductive, as it says nothing of
  the control block that is about to be written, nor of the pages beyond the log into
  which a bound that is half stored moves back. `IInv` therefore has `Sound` of the block
  on the EEPROM, of the one in RAM, and of everything that the write between them may
  leave (`Torn`). `Sound` is two things: `InOrder`, that the pages from the start on, or
  from one before it where the start may be stored half (`Low`), and those before the end
  hold entries in order; and `Shape`, where the bounds can be at all. A number changes its
  high byte only when it passes a multiple of `ByteSize`, and half stored it is such a
  multiple itself, so that only few combinations of start and end exist. That `Torn` keeps
  `Sound` when the write is tried again over what a broken one left is the heart of the
  proof. `Fits` says of each of these steps what `LogNeverDamaged` does. Queued entries
  are newer than stored ones (`QueueNewer`), but for the entry whose write failed after
  its last byte. `DumpInOrder` needs one more invariant (`PrintedInOrder`): a dump in
  progress has printed the first pages of the log.
- **Peripherals**: `TypeOK`, `DateKept` and `ImplementsPages`, for every size of the
  memory, its pages and blocks, any calls, dates and weekdays. The inductive invariant
  relates master and slave: what a slave has received is a beginning of what is sent
  (`Prefix`), a slave sends while the master reads bytes of it, and otherwise only after
  the master has given the read up (`Sending`), its pointer is as far as the master has
  read (`PageRead`, `RegistersRead`), and the buffer never goes round in its block, since
  a write begins with a page and is not longer than one (`Buffered`). `DateKept` then is
  arithmetic of two digits (`TwoDigits`), under the hypothesis `HoursFit`: `set_date`
  takes any hour, and the tens of one from 80 on do not fit the bits they are read from.
  The refinement has one lemma per action: `OneMore` shows that a byte in the buffer is a
  byte of one page, `UndamagedPage` that a loss of power reaches no page of another block.
- **RPS** (in `InputProofs`): `CountedOnce`, `CountExact` and `SpeedRead`, for bytes of
  any size and any number of edges that a count of two of them holds. `SpeedRead` rests on
  `CountExact`: what is latched is what was counted. `EdgeLeft` says that whenever the ISR
  is going to count an edge there is one not counted yet, which its own two reads of the
  pin keep true; `Exact` adds, for edges slower than the ISR, what is still to be counted
  at each point of it. That counts do not wrap and that two bytes make up a count are
  lemmas.
- **KeypadContacts** (in `InputProofs`): `PostedOnce`, whatever the keys and the bouncing,
  under the hypothesis that the operator is `Unhurried`; for one who is not, the run
  `hurried` shows the property violated. `KeypadInv` says, for each state of the keypad,
  how far the present press or release is on its way to it.
- **DisplayEntry**: `TypeOK`, `EnteredAsShown` and that it implements `DigitEntry`, for
  every range, every set of keys and every measured speed. In the invariant buffer and LCD
  agree place by place (`Entering`, `Validating`): digits before the cursor, nothing
  behind it, and the terminator behind the buffer while digits are entered, whatever the
  error timer left there.
- **Firmware**: all its safety properties, for every set of readings and speeds, every
  range of speeds and every `MaxMessages` of at least 2. That the queue is empty between
  two calls is not inductive; `Drains` says more: the messages pending fit into what is
  left of this call of `Loop`, and a NEW_RPS_ENTERED, whose handler posts again, is the
  only one and leaves room for one more. So each call starts from an empty queue
  (`QueueDrained`), and one lemma per task shows what it posts. `LogMessageFresh` is part
  of the invariant, and `DemandOnItsWay` (a pending demand is the display's) gives
  `DemandFollowed` when its handler runs. On top of that, `KeyTold` (both displays have
  been told the key, or a message with it is pending) gives `KeyShown`, `Typed` gives
  `TypeOK`, and `MotorRuns` follows from `DemandFollowed` and the calibration formula
  (`DutyOfRange`), for ranges of speeds that it was made for (`SpeedRange`: at least 50,
  with an upper end from 330 to 14025; `control.h` has 50 and 340).

Model-checked only: the liveness properties (`EveryMessageFreed`,
`InterruptsReturn`, `QueuedIsStored`, `NoStarvation`, `HeldKeyPosted`,
`ScreenComesBack`, `WalkEnds`, `CallReturns`), which are beyond the prover. The two
properties that the code violates are of course not proved either.

## Not modelled, and the plan

1. *Proofs*: that `LogTask`'s view of the EEPROM (a write succeeds, fails, or leaves a
   beginning) is what `PageStore` allows, stated as a theorem; what is left of `DateKept` in leap
   years (every field but the month).
2. *Composition*: `LogTask` as a component of `Firmware` (a dump is asked for when the
   demand is 0, and the next demand is logged into it), `KeypadContacts` with
   `DisplayEntry` (from contacts to demand).

Not modelled: the order in which static objects of different files are constructed,
which the linker decides; the allocator; the LCD library and the Arduino core, beyond
what the models of their callers say; the set-up of ports and timers;
`kernel/tasktimers.h`, whose macros repeat `OSTimer` and which nothing uses; the
schematics and build metadata, which have no program logic.
