--------------------------- MODULE FirmwareProofs ---------------------------
(***************************************************************************)
(* The message queue is drained before each task is called, and what       *)
(* follows from it, for every keypad, speed and range: log messages are    *)
(* fresh, Control follows the display's demand, both displays agree on the *)
(* key, and the motor stands still just if it is told to.                  *)
(***************************************************************************)
EXTENDS Firmware, SequenceTheorems, TLAPS

\* Messages of the application: any, except none.
Real(m) == m.id # -1

\* A queue of at most two messages.
Short(q) == q = <<>> \/ q = <<q[1]>> \/ q = <<q[1], q[2]>>

\* How many dispatches the messages pending now will take, at least.
Load == Len(queue) + (IF Dispatching THEN 1 ELSE 0)

\* What is pending fits into what is left of this call of Loop; a new demand,
\* whose handler posts again, is alone and leaves room for one more.
Drains == /\ Short(queue)
          /\ budget \in 0..MaxMessages
          /\ Load <= 2 /\ Load <= budget
          /\ Awaited(MSG_ID_NEW_RPS_ENTERED) => Load = 1 /\ budget >= 2

\* A demand on its way is the one that the display shows.
DemandOnItsWay == \A m \in Pending : m.id = MSG_ID_NEW_RPS_ENTERED => m.context = demand_rps

IInv == /\ \A m \in Pending : Real(m)
        /\ Drains
        /\ DemandOnItsWay
        /\ LogMessageFresh
        /\ DemandFollowed

-----------------------------------------------------------------------------
(* Short sequences.                                                        *)

LEMMA Empty == Len(<<>>) = 0
  OBVIOUS

LEMMA One ==
  ASSUME NEW a
  PROVE  /\ Len(<<a>>) = 1 /\ Head(<<a>>) = a /\ Tail(<<a>>) = <<>>
         /\ <<a>>[1] = a /\ <<a>> # <<>>
  OBVIOUS

LEMMA Two ==
  ASSUME NEW a, NEW b
  PROVE  /\ Len(<<a, b>>) = 2 /\ Head(<<a, b>>) = a /\ Tail(<<a, b>>) = <<b>>
         /\ <<a, b>>[1] = a /\ <<a, b>>[2] = b /\ <<a, b>> # <<>>
  OBVIOUS

LEMMA Pair ==
  ASSUME NEW a, NEW b
  PROVE  <<a>> \o <<b>> = <<a, b>>
<1> DEFINE S == {a, b}
<1>1. <<a>> \in Seq(S) /\ <<b>> \in Seq(S) /\ <<a, b>> \in Seq(S)
  OBVIOUS
<1>2. Len(<<a>> \o <<b>>) = 2 /\ <<a>> \o <<b>> \in Seq(S)
  BY <1>1, ConcatProperties
<1>3. (<<a>> \o <<b>>)[1] = a /\ (<<a>> \o <<b>>)[2] = b
  BY <1>1, ConcatProperties
<1>4. \A i \in 1..2 : (<<a>> \o <<b>>)[i] = <<a, b>>[i]
  <2> SUFFICES ASSUME NEW i \in 1..2 PROVE (<<a>> \o <<b>>)[i] = <<a, b>>[i]
    OBVIOUS
  <2>1. i = 1 \/ i = 2
    OBVIOUS
  <2> QED BY <1>3, <2>1
<1> HIDE DEF S
<1> QED BY <1>1, <1>2, <1>4, Two, SeqEqual

LEMMA Joined ==
  ASSUME NEW a, NEW b
  PROVE  /\ Append(<<>>, a) = <<a>>
         /\ <<>> \o <<a>> = <<a>>
         /\ <<>> \o <<a, b>> = <<a, b>>
         /\ (<<>> \o <<>>) \o <<a>> = <<a>>
         /\ (<<>> \o <<a>>) \o <<b>> = <<a, b>>
<1>1. Append(<<>>, a) = <<a>>
  OBVIOUS
<1>2. <<>> \o <<a>> = <<a>>
  OBVIOUS
<1>3. <<>> \o <<a, b>> = <<a, b>>
  OBVIOUS
<1>4. <<>> \o <<>> = <<>>
  OBVIOUS
<1> QED BY <1>1, <1>2, <1>3, <1>4, Pair

-----------------------------------------------------------------------------
(* The messages in a short queue.                                          *)

LEMMA QueuedNone == {<<>>[i] : i \in 1..Len(<<>>)} = {} /\ Short(<<>>)
  BY Empty DEF Short

LEMMA QueuedOne ==
  ASSUME NEW a
  PROVE  {<<a>>[i] : i \in 1..Len(<<a>>)} = {a} /\ Short(<<a>>)
<1>1. 1..Len(<<a>>) = {1}
  BY One
<1> QED BY <1>1, One DEF Short

LEMMA QueuedTwo ==
  ASSUME NEW a, NEW b
  PROVE  {<<a, b>>[i] : i \in 1..Len(<<a, b>>)} = {a, b} /\ Short(<<a, b>>)
<1>1. 1..Len(<<a, b>>) = {1, 2}
  BY Two
<1> QED BY <1>1, Two DEF Short

\* Between two calls nothing is pending, if the load fits the budget.
LEMMA NothingPending ==
  ASSUME IInv, Between
  PROVE  queue = <<>> /\ hand = NoMessage /\ Pending = {}
<1>1. hand = NoMessage /\ Len(queue) + 0 <= 0
  BY DEF IInv, Drains, Load, Between, Dispatching
<1>2. queue = <<>>
  <2>1. CASE queue = <<queue[1]>>
    BY <1>1, <2>1, One
  <2>2. CASE queue = <<queue[1], queue[2]>>
    BY <1>1, <2>2, Two
  <2> QED BY <2>1, <2>2 DEF IInv, Drains, Short
<1> QED BY <1>1, <1>2, QueuedNone DEF Pending

-----------------------------------------------------------------------------
(* The steps.                                                              *)

LEMMA InitEstablishes == Init => IInv
<1> SUFFICES ASSUME Init PROVE IInv
  OBVIOUS
<1> DEFINE blank == Message(MSG_ID_UPDATE_7SEG, 255)
           done == Message(MSG_ID_INIT_COMPLETE, 0)
<1>1. blank.id = 1 /\ done.id = 4 /\ NoMessage.id = -1
  BY DEF Message, NoMessage, MSG_ID_UPDATE_7SEG, MSG_ID_INIT_COMPLETE
<1>2. queue = <<blank>> \/ queue = <<blank, done>>
  <2>1. <<blank>> \o <<>> = <<blank>>
    OBVIOUS
  <2> HIDE DEF blank, done
  <2>2. queue = <<blank>> \o <<>> \/ queue = <<blank>> \o <<done>>
    BY DEF Init, blank, done
  <2> QED BY <2>1, <2>2, Pair
<1>3. hand = NoMessage /\ budget = MaxMessages
  BY DEF Init
<1>4. control_demand_rps = demand_rps
  BY DEF Init, Display!Init, Control!Init
<1> HIDE DEF blank, done
<1>5. Pending \subseteq {blank, done} /\ Short(queue) /\ Len(queue) <= 2
  <2>1. CASE queue = <<blank>>
    BY <2>1, <1>3, QueuedOne, One DEF Pending
  <2>2. CASE queue = <<blank, done>>
    BY <2>2, <1>3, QueuedTwo, Two DEF Pending
  <2> QED BY <1>2, <2>1, <2>2
<1>6. Drains
  <2>1. ~Awaited(MSG_ID_NEW_RPS_ENTERED)
    BY <1>1, <1>5 DEF Awaited, MSG_ID_NEW_RPS_ENTERED
  <2>2. Load <= 2
    <3>1. Load = Len(queue) + 0
      BY <1>3 DEF Load, Dispatching
    <3> QED BY <3>1, <1>2, One, Two
  <2> QED BY <1>3, <1>5, <2>1, <2>2, MaxMessagesAssumption, <1>2, One, Two DEF Drains, Load, Dispatching
<1> QED BY <1>1, <1>4, <1>5, <1>6
        DEF IInv, Real, DemandOnItsWay, LogMessageFresh, DemandFollowed,
            MSG_ID_NEW_RPS_ENTERED, MSG_ID_DATALOG_LOGEVENT

\* A task that posts nothing, one message, two messages.
LEMMA CalledPostsNone ==
  ASSUME IInv, NEW task, Called(task), queue' = queue
  PROVE  Pending' = {} /\ Drains'
<1>1. queue' = <<>> /\ hand' = NoMessage /\ budget' = MaxMessages
  BY NothingPending DEF Called
<1>2. Pending' = {}
  BY <1>1, QueuedNone DEF Pending
<1>3. Load' = 0
  BY <1>1, Empty DEF Load, Dispatching
<1> QED BY <1>1, <1>2, <1>3, MaxMessagesAssumption, QueuedNone DEF Drains, Awaited

LEMMA CalledPostsOne ==
  ASSUME IInv, NEW task, Called(task), NEW a, Real(a), queue' = <<a>>
  PROVE  Pending' = {a} /\ Drains'
<1>1. hand' = NoMessage /\ budget' = MaxMessages
  BY NothingPending DEF Called
<1>2. Pending' = {a}
  BY <1>1, QueuedOne DEF Pending
<1>3. Load' = 1
  <2>1. Len(queue') = 1
    BY One
  <2> QED BY <1>1, <2>1 DEF Load, Dispatching
<1> QED BY <1>1, <1>2, <1>3, MaxMessagesAssumption, QueuedOne DEF Drains, Awaited

LEMMA CalledPostsTwo ==
  ASSUME IInv, NEW task, Called(task), NEW a, NEW b, Real(a), Real(b),
         a.id # MSG_ID_NEW_RPS_ENTERED, b.id # MSG_ID_NEW_RPS_ENTERED,
         queue' = <<a, b>>
  PROVE  Pending' = {a, b} /\ Drains'
<1>1. hand' = NoMessage /\ budget' = MaxMessages
  BY NothingPending DEF Called
<1>2. Pending' = {a, b}
  BY <1>1, QueuedTwo DEF Pending
<1>3. Load' = 2
  <2>1. Len(queue') = 2
    BY Two
  <2> QED BY <1>1, <2>1 DEF Load, Dispatching
<1> QED BY <1>1, <1>2, <1>3, MaxMessagesAssumption, QueuedTwo DEF Drains, Awaited

\* A demand that is being dispatched is alone.
LEMMA DemandAlone ==
  ASSUME IInv, Dispatching, Awaited(MSG_ID_NEW_RPS_ENTERED)
  PROVE  queue = <<>> /\ Pending = {hand} /\ hand.id = MSG_ID_NEW_RPS_ENTERED
<1>1. Len(queue) + 1 = 1
  BY DEF IInv, Drains, Load
<1>2. queue = <<>>
  <2>1. CASE queue = <<queue[1]>>
    BY <1>1, <2>1, One
  <2>2. CASE queue = <<queue[1], queue[2]>>
    BY <1>1, <2>2, Two
  <2> QED BY <2>1, <2>2 DEF IInv, Drains, Short
<1>3. Pending = {hand}
  BY <1>2, QueuedNone DEF Pending, Dispatching
<1> QED BY <1>2, <1>3 DEF Awaited

\* A handler that posts nothing.
LEMMA DispatchedPostsNone ==
  ASSUME IInv, Dispatched, queue' = queue
  PROVE  /\ Pending' \subseteq Pending
         /\ Drains'
         /\ ~Awaited(MSG_ID_NEW_RPS_ENTERED)'
<1>1. hand # NoMessage /\ hand' = NoMessage /\ budget' = budget - 1
  BY DEF Dispatched, Dispatching
<1>2. Pending' = {queue[i] : i \in 1..Len(queue)}
  BY <1>1 DEF Pending
<1>3. Pending' \subseteq Pending
  BY <1>2 DEF Pending
<1>4. ~Awaited(MSG_ID_NEW_RPS_ENTERED)'
  <2> SUFFICES ASSUME Awaited(MSG_ID_NEW_RPS_ENTERED)' PROVE FALSE
    OBVIOUS
  <2>1. Awaited(MSG_ID_NEW_RPS_ENTERED)
    BY <1>3 DEF Awaited
  <2>2. queue = <<>>
    BY <2>1, DemandAlone DEF Dispatched
  <2>3. Pending' = {}
    BY <1>2, <2>2, QueuedNone
  <2> QED BY <2>3 DEF Awaited
<1>5. /\ Len(queue) \in 0..2 /\ Len(queue) + 1 <= 2 /\ Len(queue) + 1 <= budget
      /\ budget \in 0..MaxMessages
  <2>1. Len(queue) \in 0..2
    <3>1. CASE queue = <<>>
      BY <3>1, Empty
    <3>2. CASE queue = <<queue[1]>>
      BY <3>2, One
    <3>3. CASE queue = <<queue[1], queue[2]>>
      BY <3>3, Two
    <3> QED BY <3>1, <3>2, <3>3 DEF IInv, Drains, Short
  <2> QED BY <2>1, <1>1 DEF IInv, Drains, Load, Dispatching
<1>6. Load' = Len(queue) + 0
  BY <1>1 DEF Load, Dispatching
<1>7. budget' \in 0..MaxMessages /\ Load' <= 2 /\ Load' <= budget'
  BY <1>1, <1>5, <1>6, MaxMessagesAssumption
<1> QED BY <1>3, <1>4, <1>7 DEF Drains, IInv

\* A message that is taken off the queue is still pending.
LEMMA TakePending ==
  ASSUME IInv, Take
  PROVE  Pending' = Pending /\ Load' = Load /\ Short(queue')
<1>1. hand = NoMessage /\ queue # <<>> /\ hand' = Head(queue) /\ queue' = Tail(queue)
  BY DEF Take, Looping, Dispatching
<1>2. CASE queue = <<queue[1]>>
  <2> DEFINE a == queue[1]
  <2>1. Pending = {a} /\ Real(a)
    BY <1>1, <1>2, QueuedOne DEF Pending, IInv
  <2>2. a # NoMessage
    BY <2>1 DEF Real, NoMessage, Message
  <2>3. hand' = a /\ queue' = <<>>
    BY <1>1, <1>2, One
  <2>4. Pending' = {a}
    BY <2>2, <2>3, QueuedNone DEF Pending
  <2>5. Len(queue) = 1 /\ Len(queue') = 0
    BY <1>2, <2>3, One, Empty
  <2>6. Load = 1 /\ Load' = 1
    BY <1>1, <2>2, <2>3, <2>5 DEF Load, Dispatching
  <2> QED BY <2>1, <2>3, <2>4, <2>6, QueuedNone
<1>3. CASE queue = <<queue[1], queue[2]>>
  <2> DEFINE a == queue[1]
             b == queue[2]
  <2>1. Pending = {a, b} /\ Real(a)
    BY <1>1, <1>3, QueuedTwo DEF Pending, IInv
  <2>2. a # NoMessage
    BY <2>1 DEF Real, NoMessage, Message
  <2>3. hand' = a /\ queue' = <<b>>
    <3>1. queue = <<a, b>>
      BY <1>3
    <3> HIDE DEF a, b
    <3>2. Head(queue) = a /\ Tail(queue) = <<b>>
      BY <3>1, Two
    <3> QED BY <1>1, <3>2
  <2>4. Pending' = {a, b}
    BY <2>2, <2>3, QueuedOne DEF Pending
  <2>5. Len(queue) = 2 /\ Len(queue') = 1
    BY <1>3, <2>3, One, Two
  <2>6. Load = 2 /\ Load' = 2
    BY <1>1, <2>2, <2>3, <2>5 DEF Load, Dispatching
  <2> QED BY <2>1, <2>3, <2>4, <2>6, QueuedOne
<1> QED BY <1>1, <1>2, <1>3 DEF IInv, Drains, Short

LEMMA TakeKeeps == ASSUME IInv, Take PROVE IInv'
<1>1. Pending' = Pending /\ Load' = Load /\ Short(queue')
  BY TakePending
<1>2. UNCHANGED <<display, control, budget>>
  BY DEF Take
<1>3. Drains'
  BY <1>1, <1>2 DEF IInv, Drains, Awaited
<1> QED BY <1>1, <1>2, <1>3
        DEF IInv, DemandOnItsWay, LogMessageFresh, DemandFollowed, Awaited, display, control

\* A call of Loop that finds the queue empty posts nothing, nor does a timer.
LEMMA OtherPending ==
  ASSUME NothingToTake \/ KeyTimer \/ ErrorTimer \/ ControlTimer \/ UNCHANGED vars
  PROVE  Pending' = Pending
  BY DEF NothingToTake, KeyTimer, ErrorTimer, ControlTimer, Keypad!KeyTimerExpires,
         Display!ErrorTimerExpires, Control!TimerExpires, superloop, vars, Pending

LEMMA NothingToTakeKeeps == ASSUME IInv, NothingToTake PROVE IInv'
<1>1. hand = NoMessage /\ queue = <<>> /\ budget > 0 /\ budget' = budget - 1
  BY DEF NothingToTake, Looping, Dispatching
<1>2. UNCHANGED <<display, control, queue, hand>>
  BY DEF NothingToTake
<1>3. Pending = {} /\ Pending' = {}
  BY <1>1, <1>2, QueuedNone DEF Pending
<1>4. Load' = 0
  BY <1>1, <1>2, Empty DEF Load, Dispatching
<1>5. Drains'
  BY <1>1, <1>2, <1>3, <1>4, MaxMessagesAssumption, QueuedNone DEF IInv, Drains, Awaited
<1> QED BY <1>2, <1>3, <1>5
        DEF IInv, DemandOnItsWay, LogMessageFresh, DemandFollowed, Awaited, display, control

\* A handler of another message, that changes neither a demand nor the text.
LEMMA DispatchedKeeps ==
  ASSUME IInv, Dispatched, queue' = queue, hand.id # MSG_ID_NEW_RPS_ENTERED,
         UNCHANGED <<demand_rps, control_demand_rps, control_actual_rps, log_message>>
  PROVE  IInv'
<1>1. Pending' \subseteq Pending /\ Drains' /\ ~Awaited(MSG_ID_NEW_RPS_ENTERED)'
  BY DispatchedPostsNone
<1>2. (\A m \in Pending' : Real(m)) /\ DemandOnItsWay' /\ LogMessageFresh'
  BY <1>1 DEF IInv, DemandOnItsWay, LogMessageFresh
<1>3. ~Awaited(MSG_ID_NEW_RPS_ENTERED)
  BY DemandAlone DEF Dispatched
<1> QED BY <1>1, <1>2, <1>3 DEF IInv, DemandFollowed

LEMMA ToSevenSegKeeps == ASSUME IInv, ToSevenSeg PROVE IInv'
  BY DispatchedKeeps
  DEF ToSevenSeg, display, control, MSG_ID_NEW_RPS_ENTERED, MSG_ID_UPDATE_7SEG

LEMMA ToLoggerKeeps == ASSUME IInv, ToLogger PROVE IInv'
  BY DispatchedKeeps
  DEF ToLogger, display, control, MSG_ID_NEW_RPS_ENTERED, MSG_ID_DATALOG_LOGEVENT,
      MSG_ID_DATALOG_DUMPLOG

LEMMA ToDisplayKeeps == ASSUME IInv, ToDisplay PROVE IInv'
<1>1. UNCHANGED <<demand_rps, queue>> /\ hand.id # MSG_ID_NEW_RPS_ENTERED
  BY DEF ToDisplay, Display!EventHandler, Display!InitComplete, Display!NewActualRps,
         Display!KeyPressed, Display!demands, MSG_ID_NEW_RPS_ENTERED,
         Display!MSG_ID_INIT_COMPLETE, Display!MSG_ID_NEW_ACTUAL_RPS, Display!MSG_ID_KEY_PRESSED
<1> QED BY <1>1, DispatchedKeeps DEF ToDisplay, control

\* A handler that posts nothing takes its message away, and no other.
LEMMA DispatchedPending ==
  ASSUME IInv, Dispatched, queue' = queue
  PROVE  /\ Pending' \subseteq Pending /\ hand \in Pending
         /\ \A m \in Pending : m \in Pending' \/ m = hand
<1>1. hand # NoMessage /\ hand' = NoMessage
  BY DEF Dispatched, Dispatching
<1> QED BY <1>1 DEF Pending

\* Control's handler: its message was alone, and it posts one of its own.
LEMMA ToControlPending ==
  ASSUME IInv, ToControl
  PROVE  /\ Pending = {hand} /\ hand.id = MSG_ID_NEW_RPS_ENTERED
         /\ hand.context = demand_rps
         /\ \A m \in Pending' : m.id \in {MSG_ID_DATALOG_DUMPLOG, MSG_ID_DATALOG_LOGEVENT}
<1>1. /\ hand # NoMessage /\ hand.id = MSG_ID_NEW_RPS_ENTERED /\ hand' = NoMessage
  BY DEF ToControl, Dispatched, Dispatching, Control!EventHandler,
         Control!MSG_ID_NEW_RPS_ENTERED, MSG_ID_NEW_RPS_ENTERED
<1>2. hand \in Pending
  BY <1>1 DEF Pending
<1>3. queue = <<>> /\ Pending = {hand} /\ hand.context = demand_rps
  BY <1>1, <1>2, DemandAlone DEF IInv, DemandOnItsWay, Awaited, Dispatching
<1>4. \E m : /\ m.id \in {MSG_ID_DATALOG_DUMPLOG, MSG_ID_DATALOG_LOGEVENT}
             /\ queue' = <<m>>
  <2> DEFINE dump == Control!Message(Control!MSG_ID_DATALOG_DUMPLOG, 0)
             event == Control!LogEvent(Control!Text(hand.context, control_actual_rps))
  <2>1. /\ dump.id = MSG_ID_DATALOG_DUMPLOG
        /\ event.id = MSG_ID_DATALOG_LOGEVENT
    BY DEF Control!Message, Control!LogEvent, Control!MSG_ID_DATALOG_LOGEVENT,
           MSG_ID_DATALOG_LOGEVENT, Control!MSG_ID_DATALOG_DUMPLOG, MSG_ID_DATALOG_DUMPLOG
  <2>2. queue' = Append(queue, dump) \/ queue' = Append(queue, event)
    BY DEF ToControl, Control!EventHandler, Control!NewRpsEntered
  <2> HIDE DEF dump, event
  <2> QED BY <2>1, <2>2, <1>3, Joined
<1> QED BY <1>1, <1>3, <1>4, QueuedOne DEF Pending

\* Its handler posts once, into an empty queue.
LEMMA ToControlKeeps == ASSUME IInv, ToControl PROVE IInv'
<1> DEFINE rps == hand.context
           dump == Message(MSG_ID_DATALOG_DUMPLOG, 0)
           event == LogEvent(Control!Text(rps, control_actual_rps))
<1>1. /\ hand # NoMessage /\ hand.id = MSG_ID_NEW_RPS_ENTERED
      /\ hand' = NoMessage /\ budget' = budget - 1
      /\ control_demand_rps' = rps
      /\ UNCHANGED <<demand_rps, control_actual_rps>>
  BY DEF ToControl, Dispatched, Dispatching, Control!EventHandler, Control!NewRpsEntered,
         display, Control!MSG_ID_NEW_RPS_ENTERED, MSG_ID_NEW_RPS_ENTERED
<1>2. hand \in Pending
  BY <1>1 DEF Pending
<1>3. queue = <<>> /\ budget \in 2..MaxMessages /\ rps = demand_rps
  BY <1>1, <1>2, DemandAlone, MaxMessagesAssumption
     DEF IInv, Drains, DemandOnItsWay, Awaited, Dispatching
<1>4. \/ rps = 0 /\ queue' = <<dump>>
      \/ /\ rps # 0 /\ queue' = <<event>>
         /\ log_message' = Control!Text(rps, control_actual_rps)
  BY <1>3, Joined
     DEF ToControl, Control!EventHandler, Control!NewRpsEntered, dump, event, Message, LogEvent,
         Control!Message, Control!LogEvent, Control!NoText, NoText, MSG_ID_DATALOG_DUMPLOG,
         MSG_ID_DATALOG_LOGEVENT, Control!MSG_ID_DATALOG_DUMPLOG, Control!MSG_ID_DATALOG_LOGEVENT
<1>5. /\ dump.id = 10 /\ event.id = 8
      /\ event.text = Control!Text(rps, control_actual_rps)
      /\ event.text.demand = rps /\ event.text.actual = control_actual_rps
  BY DEF Message, LogEvent, Control!Text, MSG_ID_DATALOG_DUMPLOG, MSG_ID_DATALOG_LOGEVENT
<1> HIDE DEF dump, event
<1>6. \E m \in {dump, event} : queue' = <<m>>
  BY <1>4
<1>7. Pending' \subseteq {dump, event} /\ Len(queue') = 1 /\ Short(queue')
  BY <1>1, <1>6, One, QueuedOne DEF Pending
<1>8. Drains'
  <2>1. Load' = 1
    BY <1>1, <1>7 DEF Load, Dispatching
  <2>2. ~Awaited(MSG_ID_NEW_RPS_ENTERED)'
    BY <1>5, <1>7 DEF Awaited, MSG_ID_NEW_RPS_ENTERED
  <2> QED BY <2>1, <2>2, <1>1, <1>3, <1>7, MaxMessagesAssumption DEF Drains
<1>9. LogMessageFresh'
  <2>1. CASE rps = 0
    <3>1. Pending' \subseteq {dump}
      <4>1. queue' = <<dump>>
        BY <2>1, <1>4
      <4> QED BY <4>1, <1>1, QueuedOne DEF Pending
    <3> QED BY <3>1, <1>5 DEF LogMessageFresh, MSG_ID_DATALOG_LOGEVENT
  <2>2. CASE rps # 0
    <3>1. Pending' \subseteq {event}
      <4>1. queue' = <<event>>
        BY <2>2, <1>4
      <4> QED BY <4>1, <1>1, QueuedOne DEF Pending
    <3> QED BY <3>1, <2>2, <1>1, <1>4, <1>5 DEF LogMessageFresh
  <2> QED BY <2>1, <2>2
<1> QED BY <1>1, <1>3, <1>5, <1>7, <1>8, <1>9
        DEF IInv, DemandOnItsWay, DemandFollowed, Real, MSG_ID_NEW_RPS_ENTERED

\* A task that changes neither the queue nor a demand nor the text.
LEMMA CalledKeeps ==
  ASSUME IInv, NEW task, Called(task), queue' = queue,
         UNCHANGED <<demand_rps, control_demand_rps>>
  PROVE  IInv'
<1>1. Pending = {} /\ Pending' = {} /\ Drains'
  BY NothingPending, CalledPostsNone DEF Called
<1> QED BY <1>1 DEF IInv, DemandOnItsWay, LogMessageFresh, DemandFollowed, Awaited

\* The keypad posts a key that it accepts to both displays, and to the LCD
\* display a key that it finds in place of another; the seven-segment display
\* is told of every release.
LEMMA CallKeypadPending ==
  ASSUME IInv, CallKeypad
  PROVE  /\ Pending = {} /\ Drains'
         /\ \/ /\ Pending' = {}
               /\ key_state' = "KEY_PRESSED" <=> key_state = "KEY_PRESSED"
            \/ /\ key_state' = "KEY_PRESSED"
               /\ \E key \in 0..11 :
                    Pending' = {Message(MSG_ID_UPDATE_7SEG, key), Message(MSG_ID_KEY_PRESSED, key)}
            \/ /\ key_state' = "KEY_IDLE"
               /\ Message(MSG_ID_UPDATE_7SEG, 255) \in Pending'
               /\ \A m \in Pending' : \/ m = Message(MSG_ID_UPDATE_7SEG, 255)
                                      \/ \E key \in 0..11 : m = Message(MSG_ID_KEY_PRESSED, key)
<1>1. PICK reading \in Readings : Keypad!TaskLoop(reading)
  BY DEF CallKeypad
<1>2. Called("keypad") /\ queue = <<>> /\ Pending = {}
  BY NothingPending DEF CallKeypad, Called
<1>3. \A key \in Keypad!KeysOf(reading) : key \in 0..11
  <2> SUFFICES ASSUME NEW key \in Keypad!KeysOf(reading) PROVE key \in 0..11
    OBVIOUS
  <2>1. PICK r \in 1..4, c \in 1..3 : key = Keypad!KEY_MAP[r][c]
    BY DEF Keypad!KeysOf
  <2>2. /\ r = 1 \/ r = 2 \/ r = 3 \/ r = 4
        /\ c = 1 \/ c = 2 \/ c = 3
    OBVIOUS
  <2> QED BY <2>1, <2>2 DEF Keypad!KEY_MAP
<1>4. \A id, key : Keypad!Message(id, key) = Message(id, key)
  BY DEF Keypad!Message, Message, Keypad!NoText, NoText
<1>5. /\ Keypad!MSG_ID_UPDATE_7SEG = MSG_ID_UPDATE_7SEG
      /\ Keypad!MSG_ID_KEY_PRESSED = MSG_ID_KEY_PRESSED
  BY DEF Keypad!MSG_ID_UPDATE_7SEG, MSG_ID_UPDATE_7SEG, Keypad!MSG_ID_KEY_PRESSED,
         MSG_ID_KEY_PRESSED
<1> DEFINE Mine(m) == Real(m) /\ m.id # MSG_ID_NEW_RPS_ENTERED
<1>6. \A key : Mine(Message(MSG_ID_UPDATE_7SEG, key)) /\ Mine(Message(MSG_ID_KEY_PRESSED, key))
  BY DEF Real, Message, MSG_ID_NEW_RPS_ENTERED, MSG_ID_UPDATE_7SEG, MSG_ID_KEY_PRESSED
<1>7. CASE Keypad!KeyAccepted(reading)
  <2>1. PICK key \in Keypad!KeysOf(reading) :
          queue' = queue \o <<Message(MSG_ID_UPDATE_7SEG, key), Message(MSG_ID_KEY_PRESSED, key)>>
    BY <1>4, <1>5, <1>7 DEF Keypad!KeyAccepted
  <2>2. /\ Pending' = {Message(MSG_ID_UPDATE_7SEG, key), Message(MSG_ID_KEY_PRESSED, key)}
        /\ Drains'
    BY <2>1, <1>2, <1>6, Joined, CalledPostsTwo
  <2>3. key_state' = "KEY_PRESSED"
    BY <1>7 DEF Keypad!KeyAccepted
  <2> QED BY <1>2, <1>3, <2>2, <2>3
<1>8. CASE Keypad!KeyReleased(reading)
  <2> DEFINE off == Message(MSG_ID_UPDATE_7SEG, 255)
  <2>1. queue' = (queue \o Keypad!KeyPosts(reading)) \o <<off>> /\ key_state' = "KEY_IDLE"
    BY <1>4, <1>5, <1>8 DEF Keypad!KeyReleased
  <2>2. \/ Keypad!KeyPosts(reading) = <<>>
        \/ \E key \in 0..11 : Keypad!KeyPosts(reading) = <<Message(MSG_ID_KEY_PRESSED, key)>>
    BY <1>3, <1>4, <1>5 DEF Keypad!KeyPosts
  <2> HIDE DEF off
  <2>3. \/ queue' = <<off>>
        \/ \E key \in 0..11 : queue' = <<Message(MSG_ID_KEY_PRESSED, key), off>>
    BY <2>1, <2>2, <1>2, Joined
  <2>4. Mine(off)
    BY <1>6 DEF off
  <2>5. /\ Drains'
        /\ \/ Pending' = {off}
           \/ \E key \in 0..11 : Pending' = {Message(MSG_ID_KEY_PRESSED, key), off}
    <3>1. CASE queue' = <<off>>
      BY <3>1, <1>2, <2>4, CalledPostsOne
    <3>2. ASSUME NEW key \in 0..11, queue' = <<Message(MSG_ID_KEY_PRESSED, key), off>>
          PROVE  Pending' = {Message(MSG_ID_KEY_PRESSED, key), off} /\ Drains'
      BY <3>2, <1>2, <1>6, <2>4, CalledPostsTwo
    <3> QED BY <2>3, <3>1, <3>2
  <2> QED BY <1>2, <2>1, <2>5 DEF off
<1>9. CASE ~Keypad!KeyAccepted(reading) /\ ~Keypad!KeyReleased(reading)
  <2>1. /\ queue' = queue
        /\ key_state' = "KEY_PRESSED" <=> key_state = "KEY_PRESSED"
    BY <1>9, <1>1
       DEF Keypad!TaskLoop, Keypad!KeyDetected, Keypad!ScanColumn, Keypad!KeyUndecided,
           Keypad!KeyBounced, Keypad!KeyHeld, Keypad!keypad
  <2> QED BY <1>2, <2>1, CalledPostsNone
<1> QED BY <1>7, <1>8, <1>9

LEMMA CallKeypadKeeps == ASSUME IInv, CallKeypad PROVE IInv'
<1>1. Drains' /\ Pending = {} /\ UNCHANGED <<demand_rps, control_demand_rps>>
  BY CallKeypadPending DEF CallKeypad, display, control
<1>2. \A m \in Pending' : m.id \in {MSG_ID_UPDATE_7SEG, MSG_ID_KEY_PRESSED}
  BY CallKeypadPending DEF Message
<1> QED BY <1>1, <1>2
        DEF IInv, Real, DemandOnItsWay, LogMessageFresh, DemandFollowed, Awaited,
            MSG_ID_UPDATE_7SEG, MSG_ID_KEY_PRESSED, MSG_ID_NEW_RPS_ENTERED,
            MSG_ID_DATALOG_LOGEVENT

\* The display posts what was entered, and nothing else.
LEMMA CallDisplayPending ==
  ASSUME IInv, CallDisplay
  PROVE  /\ Pending = {} /\ Drains'
         /\ \/ Pending' = {} /\ demand_rps' = demand_rps
            \/ /\ Display!ValidateAccept
               /\ Pending' = {Message(MSG_ID_NEW_RPS_ENTERED, input_rps)}
<1>1. Called("display") /\ queue = <<>> /\ Pending = {}
  BY NothingPending DEF CallDisplay, Called
<1>2. CASE Display!ValidateAccept
  <2>1. queue' = <<Message(MSG_ID_NEW_RPS_ENTERED, input_rps)>>
    BY <1>1, <1>2, Joined
       DEF Display!ValidateAccept, Display!Message, Message, Display!NoText, NoText,
           Display!MSG_ID_NEW_RPS_ENTERED, MSG_ID_NEW_RPS_ENTERED
  <2>2. Real(Message(MSG_ID_NEW_RPS_ENTERED, input_rps))
    BY DEF Real, Message, MSG_ID_NEW_RPS_ENTERED
  <2> QED BY <1>1, <1>2, <2>1, <2>2, CalledPostsOne
<1>3. CASE ~Display!ValidateAccept
  <2>1. UNCHANGED <<demand_rps, queue>>
    BY <1>3
       DEF CallDisplay, Display!TaskLoop, Display!Starting, Display!Refresh, Display!IdleDigit,
           Display!IdleActual, Display!Idle, Display!ShowActual, Display!FirstKey,
           Display!NextKeyNone, Display!TakeNextKey, Display!NextKeyBackspace,
           Display!NextKeyEnter, Display!NextKeyDigit, Display!NextKeyIgnored,
           Display!ValidateReject, Display!ErrorShown, Display!ErrorEnds,
           Display!demands, Display!display
  <2> QED BY <1>1, <2>1, CalledPostsNone
<1> QED BY <1>2, <1>3

LEMMA CallDisplayKeeps == ASSUME IInv, CallDisplay PROVE IInv'
<1>1. Drains' /\ Pending = {} /\ UNCHANGED control
  BY CallDisplayPending DEF CallDisplay
<1>2. CASE Pending' = {} /\ demand_rps' = demand_rps
  BY <1>1, <1>2 DEF IInv, DemandOnItsWay, LogMessageFresh, DemandFollowed, Awaited, control
<1>3. CASE /\ Display!ValidateAccept
           /\ Pending' = {Message(MSG_ID_NEW_RPS_ENTERED, input_rps)}
  <2> DEFINE demanded == Message(MSG_ID_NEW_RPS_ENTERED, input_rps)
  <2>1. demanded.id = 7 /\ demanded.context = input_rps /\ demand_rps' = input_rps
    BY <1>3 DEF Message, MSG_ID_NEW_RPS_ENTERED, Display!ValidateAccept
  <2>2. Pending' = {demanded}
    BY <1>3
  <2> HIDE DEF demanded
  <2> QED BY <1>1, <2>1, <2>2
          DEF IInv, Real, DemandOnItsWay, LogMessageFresh, DemandFollowed, Awaited,
              MSG_ID_NEW_RPS_ENTERED, MSG_ID_DATALOG_LOGEVENT
<1> QED BY <1>2, <1>3, CallDisplayPending

\* Control posts nothing, the measured speed, or that and a log entry.
LEMMA CallControlPending ==
  ASSUME IInv, CallControl
  PROVE  /\ Pending = {} /\ Drains'
         /\ UNCHANGED control_demand_rps
         /\ \A m \in Pending' : \/ m.id = MSG_ID_NEW_ACTUAL_RPS
                                \/ /\ m = LogEvent(log_message') /\ control_demand_rps # 0
                                   /\ log_message' = Control!Text(control_demand_rps, control_actual_rps')
<1>1. PICK speed \in Speeds : Control!TaskLoop(speed)
  BY DEF CallControl
<1>2. Called("control") /\ queue = <<>> /\ Pending = {}
  BY NothingPending DEF CallControl, Called
<1> DEFINE measured == Message(MSG_ID_NEW_ACTUAL_RPS, speed)
           event == LogEvent(Control!Text(control_demand_rps, speed))
<1>3. /\ measured.id = MSG_ID_NEW_ACTUAL_RPS /\ event.id = MSG_ID_DATALOG_LOGEVENT
      /\ Real(measured) /\ Real(event)
      /\ measured.id # MSG_ID_NEW_RPS_ENTERED /\ event.id # MSG_ID_NEW_RPS_ENTERED
  BY DEF Message, LogEvent, Real, MSG_ID_NEW_ACTUAL_RPS, MSG_ID_DATALOG_LOGEVENT,
         MSG_ID_NEW_RPS_ENTERED
<1>4. /\ measured = Control!Message(Control!MSG_ID_NEW_ACTUAL_RPS, speed)
      /\ event = Control!LogEvent(Control!Text(control_demand_rps, speed))
  BY DEF Control!Message, Message, Control!LogEvent, LogEvent, Control!NoText, NoText,
         Control!MSG_ID_DATALOG_LOGEVENT, MSG_ID_DATALOG_LOGEVENT,
         Control!MSG_ID_NEW_ACTUAL_RPS, MSG_ID_NEW_ACTUAL_RPS
<1>5. CASE Control!Waiting
  BY <1>2, <1>5, CalledPostsNone DEF Control!Waiting, Control!control
<1>6. CASE Control!Tick(speed)
  <2>1. queue' = Append(queue, measured) /\ UNCHANGED control_demand_rps
    BY <1>4, <1>6 DEF Control!Tick
  <2> HIDE DEF measured, event
  <2>2. queue' = <<measured>>
    BY <1>2, <2>1, Joined
  <2> QED BY <1>2, <1>3, <2>1, <2>2, CalledPostsOne
<1>7. CASE Control!TickAndLog(speed)
  <2>1. /\ queue' = queue \o <<measured, event>> /\ UNCHANGED control_demand_rps
        /\ log_message' = Control!Text(control_demand_rps, speed)
        /\ control_actual_rps' = speed /\ control_demand_rps > 0
    BY <1>4, <1>7 DEF Control!TickAndLog
  <2>2. event = LogEvent(log_message')
    BY <2>1
  <2> HIDE DEF measured, event
  <2>3. queue' = <<measured, event>>
    BY <1>2, <2>1, Joined
  <2>4. Pending' = {measured, event} /\ Drains'
    BY <1>2, <1>3, <2>3, CalledPostsTwo
  <2>5. control_demand_rps # 0
    BY <2>1
  <2> QED BY <1>2, <1>3, <2>1, <2>2, <2>4, <2>5
<1> QED BY <1>1, <1>5, <1>6, <1>7 DEF Control!TaskLoop

LEMMA CallControlKeeps == ASSUME IInv, CallControl PROVE IInv'
<1>1. /\ Drains' /\ Pending = {} /\ UNCHANGED <<demand_rps, control_demand_rps>>
  BY CallControlPending DEF CallControl, display
<1>2. \A m \in Pending' :
        /\ Real(m) /\ m.id # MSG_ID_NEW_RPS_ENTERED
        /\ m.id = MSG_ID_DATALOG_LOGEVENT =>
             /\ log_message' = m.text /\ control_demand_rps # 0
             /\ m.text.demand = control_demand_rps /\ m.text.actual = control_actual_rps'
  BY CallControlPending
     DEF Real, LogEvent, Control!Text, MSG_ID_NEW_ACTUAL_RPS, MSG_ID_NEW_RPS_ENTERED,
         MSG_ID_DATALOG_LOGEVENT
<1> QED BY <1>1, <1>2 DEF IInv, DemandOnItsWay, LogMessageFresh, DemandFollowed, Awaited

\* The logger posts nothing.
LEMMA CallLoggerPending == ASSUME IInv, CallLogger PROVE Pending' = Pending
  BY NothingPending DEF CallLogger, Called, Pending

LEMMA CallLoggerKeeps == ASSUME IInv, CallLogger PROVE IInv'
  BY CalledKeeps DEF CallLogger, display, control

\* A timer expires: nothing that the invariant is about.
LEMMA IdleKeeps ==
  ASSUME IInv, UNCHANGED <<queue, hand, budget, demand_rps, control_demand_rps,
                           control_actual_rps, log_message>>
  PROVE  IInv'
<1>1. Pending' = Pending /\ Load' = Load
  BY DEF Pending, Load, Dispatching
<1> QED BY <1>1 DEF IInv, Drains, Awaited, DemandOnItsWay, LogMessageFresh, DemandFollowed

LEMMA TimersKeep == ASSUME IInv, KeyTimer \/ ErrorTimer \/ ControlTimer PROVE IInv'
<1>1. CASE KeyTimer
  BY <1>1, IdleKeeps DEF KeyTimer, Keypad!KeyTimerExpires, display, control, superloop
<1>2. CASE ErrorTimer
  BY <1>2, IdleKeeps
     DEF ErrorTimer, Display!ErrorTimerExpires, Display!demands, control, superloop
<1>3. CASE ControlTimer
  BY <1>3, IdleKeeps DEF ControlTimer, Control!TimerExpires, display, superloop
<1> QED BY <1>1, <1>2, <1>3

-----------------------------------------------------------------------------
(* The theorems.                                                           *)

LEMMA NextKeeps == IInv /\ [Next]_vars => IInv'
<1> SUFFICES ASSUME IInv, [Next]_vars PROVE IInv'
  OBVIOUS
<1>1. CASE UNCHANGED vars
  BY <1>1, IdleKeeps DEF vars, display, control, superloop
<1> QED BY <1>1, TakeKeeps, NothingToTakeKeeps, ToSevenSegKeeps, ToDisplayKeeps, ToControlKeeps,
           ToLoggerKeeps, CallKeypadKeeps, CallDisplayKeeps, CallControlKeeps, CallLoggerKeeps,
           TimersKeep DEF Next

\* What is pending always fits into the rest of the call of MQClass::Loop; the
\* inductive invariant of the superloop.
THEOREM Invariant == Spec => []IInv
  BY InitEstablishes, NextKeeps, PTL DEF Spec

\* With two messages an iteration, or more, no message waits for another
\* iteration: the queue is empty whenever a task is called.
THEOREM Drained == Spec => []QueueDrained
<1>1. IInv => QueueDrained
  <2> SUFFICES ASSUME IInv PROVE QueueDrained
    OBVIOUS
  <2>1. Between => queue = <<>>
    BY NothingPending
  <2>2. Len(queue) <= 2
    <3>1. CASE queue = <<>>
      BY <3>1, Empty
    <3>2. CASE queue = <<queue[1]>>
      <4>1. Len(<<queue[1]>>) = 1
        BY One
      <4>2. Len(queue) = 1
        BY <4>1, <3>2, Zenon
      <4> QED BY <4>2
    <3>3. CASE queue = <<queue[1], queue[2]>>
      <4>1. Len(<<queue[1], queue[2]>>) = 2
        BY Two
      <4>2. Len(queue) = 2
        BY <4>1, <3>3, Zenon
      <4> QED BY <4>2
    <3> QED BY <3>1, <3>2, <3>3 DEF IInv, Drains, Short
  <2> QED BY <2>1, <2>2 DEF QueueDrained
<1> QED BY <1>1, Invariant, PTL

\* SendLogMessage's static buffer is never overwritten while a message that
\* points to it is pending.
THEOREM LogFresh == Spec => []LogMessageFresh
<1>1. IInv => LogMessageFresh
  BY DEF IInv
<1> QED BY <1>1, Invariant, PTL

\* Control and the display agree on the demand, whatever the keys, the speeds
\* and the range of speeds.
THEOREM Followed == Spec => []DemandFollowed
<1>1. IInv => DemandFollowed
  BY DEF IInv
<1> QED BY <1>1, Invariant, PTL

-----------------------------------------------------------------------------
(* The key that both displays are told.                                    *)

\* Each pending message of this id carries the key.
Carries(id, key) == \A m \in Pending : m.id = id => m.context = key

\* The seven-segment display shows the pattern, or is about to be told.
Shows(shown, lit) == Awaited(MSG_ID_UPDATE_7SEG) \/ (pattern = shown /\ point = lit)

\* One key is what the seven-segment display shows and the LCD display was
\* told, or what is on its way to the one, the other or both.
KeyTold ==
  IF key_state = "KEY_PRESSED"
    THEN \E key \in 0..11 :
           /\ Carries(MSG_ID_UPDATE_7SEG, key) /\ Carries(MSG_ID_KEY_PRESSED, key)
           /\ Shows(key, FALSE)
           /\ Awaited(MSG_ID_KEY_PRESSED) \/ current_key = key
    ELSE /\ Carries(MSG_ID_UPDATE_7SEG, 255)
         /\ Shows(SevenSeg!Off, TRUE)

LEMMA KeyInit == Init => KeyTold
<1> SUFFICES ASSUME Init PROVE KeyTold
  OBVIOUS
<1> DEFINE blank == Message(MSG_ID_UPDATE_7SEG, 255)
           done == Message(MSG_ID_INIT_COMPLETE, 0)
<1>1. /\ blank.id = MSG_ID_UPDATE_7SEG /\ blank.context = 255
      /\ done.id # MSG_ID_UPDATE_7SEG
      /\ key_state # "KEY_PRESSED" /\ hand = NoMessage
  BY DEF Message, MSG_ID_UPDATE_7SEG, MSG_ID_INIT_COMPLETE, Init, Keypad!Init
<1>2. queue = <<blank>> \/ queue = <<blank, done>>
  <2>1. queue = <<blank>> \o <<>> \/ queue = <<blank>> \o <<done>>
    BY DEF Init
  <2> HIDE DEF blank, done
  <2>2. <<blank>> \o <<>> = <<blank>>
    OBVIOUS
  <2> QED BY <2>1, <2>2, Pair
<1> HIDE DEF blank, done
<1>3. Pending = {blank} \/ Pending = {blank, done}
  <2>1. CASE queue = <<blank>>
    BY <1>1, <2>1, QueuedOne DEF Pending
  <2>2. CASE queue = <<blank, done>>
    BY <1>1, <2>2, QueuedTwo DEF Pending
  <2> QED BY <1>2, <2>1, <2>2
<1> QED BY <1>1, <1>3 DEF KeyTold, Carries, Shows, Awaited

\* Steps of the others: no message of the two ids comes or goes, and neither
\* the keypad nor what is shown changes.
LEMMA KeyUndisturbed ==
  ASSUME KeyTold,
         UNCHANGED <<pattern, point, current_key>>,
         key_state' = "KEY_PRESSED" <=> key_state = "KEY_PRESSED",
         \A m : m.id \in {MSG_ID_UPDATE_7SEG, MSG_ID_KEY_PRESSED} =>
                  (m \in Pending <=> m \in Pending')
  PROVE  KeyTold'
<1>1. Awaited(MSG_ID_UPDATE_7SEG)' <=> Awaited(MSG_ID_UPDATE_7SEG)
  BY DEF Awaited
<1>2. Awaited(MSG_ID_KEY_PRESSED)' <=> Awaited(MSG_ID_KEY_PRESSED)
  BY DEF Awaited
<1>3. \A key : /\ Carries(MSG_ID_UPDATE_7SEG, key)' <=> Carries(MSG_ID_UPDATE_7SEG, key)
               /\ Carries(MSG_ID_KEY_PRESSED, key)' <=> Carries(MSG_ID_KEY_PRESSED, key)
  BY DEF Carries
<1>4. \A shown, lit : Shows(shown, lit)' <=> Shows(shown, lit)
  BY <1>1 DEF Shows
<1> QED BY <1>1, <1>2, <1>3, <1>4 DEF KeyTold

\* A key, or 255, as the seven-segment display takes it.
LEMMA Decoded ==
  ASSUME NEW key \in 0..11 \cup {255}
  PROVE  /\ key = 255 => SevenSeg!SmallerOf(key % 16, SevenSeg!Off) = SevenSeg!Off
                         /\ (key % 256 >= 128) = TRUE
         /\ key # 255 => SevenSeg!SmallerOf(key % 16, SevenSeg!Off) = key
                         /\ (key % 256 >= 128) = FALSE
<1>1. CASE key = 255
  BY <1>1 DEF SevenSeg!SmallerOf, SevenSeg!Off
<1>2. CASE key # 255
  <2>1. key \in 0..11 /\ key % 16 = key /\ key % 256 = key
    BY <1>2
  <2> QED BY <2>1, <1>2 DEF SevenSeg!SmallerOf, SevenSeg!Off
<1> QED BY <1>1, <1>2

LEMMA KeyToSevenSeg == ASSUME IInv, KeyTold, ToSevenSeg PROVE KeyTold'
<1>1. /\ hand.id = MSG_ID_UPDATE_7SEG /\ hand \in Pending /\ Pending' \subseteq Pending
      /\ \A m \in Pending : m \in Pending' \/ m = hand
      /\ pattern' = SevenSeg!SmallerOf(hand.context % 16, SevenSeg!Off)
      /\ point' = (hand.context % 256 >= 128)
      /\ UNCHANGED <<key_state, current_key>>
  BY DispatchedPending
     DEF ToSevenSeg, SevenSeg!EventHandler, keypad, display
<1>2. Awaited(MSG_ID_KEY_PRESSED) => Awaited(MSG_ID_KEY_PRESSED)'
  BY <1>1 DEF Awaited, MSG_ID_UPDATE_7SEG, MSG_ID_KEY_PRESSED
<1>3. CASE key_state = "KEY_PRESSED"
  <2>1. PICK key \in 0..11 :
          /\ Carries(MSG_ID_UPDATE_7SEG, key) /\ Carries(MSG_ID_KEY_PRESSED, key)
          /\ Awaited(MSG_ID_KEY_PRESSED) \/ current_key = key
    BY <1>3 DEF KeyTold
  <2>2. hand.context = key
    BY <1>1, <2>1 DEF Carries
  <2>3. pattern' = key /\ point' = FALSE
    <3>1. key # 255 /\ key \in 0..11 \cup {255}
      OBVIOUS
    <3>2. SevenSeg!SmallerOf(key % 16, SevenSeg!Off) = key /\ (key % 256 >= 128) = FALSE
      BY <3>1, Decoded
    <3> QED BY <1>1, <2>2, <3>2
  <2> QED BY <1>1, <1>2, <1>3, <2>1, <2>3 DEF KeyTold, Carries, Shows
<1>4. CASE key_state # "KEY_PRESSED"
  <2>1. Carries(MSG_ID_UPDATE_7SEG, 255)
    BY <1>4 DEF KeyTold
  <2>2. hand.context = 255
    BY <1>1, <2>1 DEF Carries
  <2>3. pattern' = SevenSeg!Off /\ point' = TRUE
    BY <1>1, <2>2, Decoded
  <2> QED BY <1>1, <1>4, <2>1, <2>3 DEF KeyTold, Carries, Shows
<1> QED BY <1>3, <1>4

LEMMA KeyToDisplay == ASSUME IInv, KeyTold, ToDisplay PROVE KeyTold'
<1>1. /\ hand \in Pending /\ Pending' \subseteq Pending
      /\ \A m \in Pending : m \in Pending' \/ m = hand
      /\ UNCHANGED <<key_state, pattern, point>>
  BY DispatchedPending
     DEF ToDisplay, Display!EventHandler, Display!InitComplete, Display!NewActualRps,
         Display!KeyPressed, keypad, sevenseg
<1>2. CASE hand.id = MSG_ID_KEY_PRESSED
  <2>1. current_key' = hand.context
    BY <1>2
       DEF ToDisplay, Display!EventHandler, Display!KeyPressed, MSG_ID_KEY_PRESSED,
           Display!MSG_ID_KEY_PRESSED, Display!MSG_ID_INIT_COMPLETE,
           Display!MSG_ID_NEW_ACTUAL_RPS
  <2>2. Awaited(MSG_ID_UPDATE_7SEG) => Awaited(MSG_ID_UPDATE_7SEG)'
    BY <1>1, <1>2 DEF Awaited, MSG_ID_UPDATE_7SEG, MSG_ID_KEY_PRESSED
  <2> QED BY <1>1, <1>2, <2>1, <2>2 DEF KeyTold, Carries, Shows
<1>3. CASE hand.id # MSG_ID_KEY_PRESSED
  <2>1. UNCHANGED current_key /\ hand.id # MSG_ID_UPDATE_7SEG
    BY <1>3
       DEF ToDisplay, Display!EventHandler, Display!InitComplete, Display!NewActualRps,
           Display!keys, MSG_ID_KEY_PRESSED, MSG_ID_UPDATE_7SEG, Display!MSG_ID_KEY_PRESSED,
           Display!MSG_ID_INIT_COMPLETE, Display!MSG_ID_NEW_ACTUAL_RPS
  <2> QED BY <1>1, <1>3, <2>1, KeyUndisturbed
<1> QED BY <1>2, <1>3

LEMMA KeyCallKeypad == ASSUME IInv, KeyTold, CallKeypad PROVE KeyTold'
<1>1. UNCHANGED <<pattern, point, current_key>>
  BY DEF CallKeypad, display, sevenseg
<1>2. \A id, key : Message(id, key).id = id /\ Message(id, key).context = key
  BY DEF Message
<1>3. Pending = {}
  BY CallKeypadPending
<1>4. CASE /\ Pending' = {}
           /\ key_state' = "KEY_PRESSED" <=> key_state = "KEY_PRESSED"
  BY <1>1, <1>3, <1>4, KeyUndisturbed
<1>5. ASSUME key_state' = "KEY_PRESSED", NEW key \in 0..11,
             Pending' = {Message(MSG_ID_UPDATE_7SEG, key), Message(MSG_ID_KEY_PRESSED, key)}
      PROVE  KeyTold'
  <2>1. Awaited(MSG_ID_UPDATE_7SEG)' /\ Awaited(MSG_ID_KEY_PRESSED)'
    BY <1>2, <1>5 DEF Awaited
  <2>2. Carries(MSG_ID_UPDATE_7SEG, key)' /\ Carries(MSG_ID_KEY_PRESSED, key)'
    BY <1>2, <1>5 DEF Carries
  <2> QED BY <1>5, <2>1, <2>2 DEF KeyTold, Shows
<1>6. ASSUME key_state' = "KEY_IDLE", Message(MSG_ID_UPDATE_7SEG, 255) \in Pending',
             \A m \in Pending' : \/ m = Message(MSG_ID_UPDATE_7SEG, 255)
                                 \/ \E key \in 0..11 : m = Message(MSG_ID_KEY_PRESSED, key)
      PROVE  KeyTold'
  <2>1. Awaited(MSG_ID_UPDATE_7SEG)'
    BY <1>2, <1>6 DEF Awaited
  <2>2. Carries(MSG_ID_UPDATE_7SEG, 255)'
    BY <1>2, <1>6 DEF Carries, MSG_ID_UPDATE_7SEG, MSG_ID_KEY_PRESSED
  <2> QED BY <1>6, <2>1, <2>2 DEF KeyTold, Shows
<1> QED BY <1>4, <1>5, <1>6, CallKeypadPending

LEMMA KeyNext == ASSUME IInv, KeyTold, [Next]_vars PROVE KeyTold'
<1>1. ASSUME Take PROVE KeyTold'
  BY <1>1, TakePending, KeyUndisturbed DEF Take, keypad, display, sevenseg
<1>2. ASSUME NothingToTake \/ KeyTimer \/ ErrorTimer \/ ControlTimer \/ UNCHANGED vars
      PROVE  KeyTold'
  <2>1. UNCHANGED <<pattern, point, current_key, key_state>>
    BY <1>2
       DEF NothingToTake, KeyTimer, ErrorTimer, ControlTimer, Keypad!KeyTimerExpires,
           Display!ErrorTimerExpires, Display!keys, vars, keypad, display, sevenseg
  <2> QED BY <1>2, <2>1, OtherPending, KeyUndisturbed
<1>3. ASSUME ToControl PROVE KeyTold'
  BY <1>3, ToControlPending, KeyUndisturbed
     DEF ToControl, keypad, display, sevenseg, MSG_ID_UPDATE_7SEG, MSG_ID_KEY_PRESSED,
         MSG_ID_NEW_RPS_ENTERED, MSG_ID_DATALOG_DUMPLOG, MSG_ID_DATALOG_LOGEVENT
<1>4. ASSUME ToLogger PROVE KeyTold'
  <2>1. /\ UNCHANGED <<pattern, point, current_key, key_state>>
        /\ hand.id \notin {MSG_ID_UPDATE_7SEG, MSG_ID_KEY_PRESSED}
    BY <1>4
       DEF ToLogger, keypad, display, sevenseg, MSG_ID_UPDATE_7SEG, MSG_ID_KEY_PRESSED,
           MSG_ID_DATALOG_DUMPLOG, MSG_ID_DATALOG_LOGEVENT
  <2>2. Pending' \subseteq Pending /\ \A m \in Pending : m \in Pending' \/ m = hand
    BY <1>4, DispatchedPending DEF ToLogger
  <2> QED BY <2>1, <2>2, KeyUndisturbed
<1>5. ASSUME CallDisplay PROVE KeyTold'
  <2>1. UNCHANGED <<pattern, point, current_key, key_state>>
    BY <1>5
       DEF CallDisplay, Display!TaskLoop, Display!Starting, Display!Refresh, Display!IdleDigit,
           Display!IdleActual, Display!Idle, Display!ShowActual, Display!FirstKey,
           Display!NextKeyNone, Display!TakeNextKey, Display!NextKeyBackspace,
           Display!NextKeyEnter, Display!NextKeyDigit, Display!NextKeyIgnored,
           Display!ValidateAccept, Display!ValidateReject, Display!ErrorShown,
           Display!ErrorEnds, Display!keys, Display!display, keypad, sevenseg
  <2>2. \A m \in Pending' : m.id = MSG_ID_NEW_RPS_ENTERED
    BY <1>5, CallDisplayPending DEF Message
  <2> QED BY <1>5, <2>1, <2>2, CallDisplayPending, KeyUndisturbed
          DEF MSG_ID_UPDATE_7SEG, MSG_ID_KEY_PRESSED, MSG_ID_NEW_RPS_ENTERED
<1>6. ASSUME CallControl PROVE KeyTold'
  <2>1. \A m \in Pending' : m.id \in {MSG_ID_NEW_ACTUAL_RPS, MSG_ID_DATALOG_LOGEVENT}
    BY <1>6, CallControlPending DEF LogEvent
  <2> QED BY <1>6, <2>1, CallControlPending, KeyUndisturbed
          DEF CallControl, keypad, display, sevenseg, MSG_ID_UPDATE_7SEG, MSG_ID_KEY_PRESSED,
              MSG_ID_NEW_ACTUAL_RPS, MSG_ID_DATALOG_LOGEVENT
<1>7. ASSUME CallLogger PROVE KeyTold'
  BY <1>7, CallLoggerPending, KeyUndisturbed DEF CallLogger, keypad, display, sevenseg
<1> QED BY <1>1, <1>2, <1>3, <1>4, <1>5, <1>6, <1>7, KeyToSevenSeg, KeyToDisplay, KeyCallKeypad
        DEF Next

\* The two displays agree on the key, whatever the keypad's port returns and
\* whichever task is called next.
THEOREM KeyAgreed == Spec => []KeyShown
<1>1. KeyTold => KeyShown
  BY DEF KeyTold, Carries, Shows, KeyShown
<1>2. Spec => []KeyTold
  BY Invariant, KeyInit, KeyNext, PTL DEF Spec
<1> QED BY <1>1, <1>2, PTL

-----------------------------------------------------------------------------
(* The types, and the duty cycle.                                          *)

\* The ids of which something reads the context as a number, and the others.
Numbered == {MSG_ID_UPDATE_7SEG, MSG_ID_KEY_PRESSED, MSG_ID_NEW_RPS_ENTERED}
Plain == {MSG_ID_INIT_COMPLETE, MSG_ID_NEW_ACTUAL_RPS, MSG_ID_DATALOG_LOGEVENT,
          MSG_ID_DATALOG_DUMPLOG}

\* Every pending message has a receiver that understands it.
Understood(m) == m.id \in Plain \/ (m.id \in Numbered /\ m.context \in Int)

\* What a digit may reach on its way from the keypad to the demand is a number.
Numbers == /\ current_key \in Int /\ input_rps \in Int /\ demand_rps \in Int
           /\ control_demand_rps \in Int
           /\ user_input_values \in [Display!Cells -> Int]

Typed == /\ turn \in 1..Len(Ring)
         /\ timer_counter \in 0..(LOG_TICKS - 1)
         /\ duty \in 0..255 /\ pattern \in 0..SevenSeg!Off
         /\ Numbers
         /\ \A m \in Pending : Understood(m)

LEMMA FiveCalls == Len(Ring) = 5
  BY DEF Ring

LEMMA TypedInit == Init => Typed
<1> SUFFICES ASSUME Init PROVE Typed
  OBVIOUS
<1> DEFINE blank == Message(MSG_ID_UPDATE_7SEG, 255)
           done == Message(MSG_ID_INIT_COMPLETE, 0)
<1>1. Understood(blank) /\ Understood(done)
  BY DEF Understood, Message, Numbered, Plain
<1>2. queue = <<blank>> \/ queue = <<blank, done>>
  <2>1. queue = <<blank>> \o <<>> \/ queue = <<blank>> \o <<done>>
    BY DEF Init
  <2> HIDE DEF blank, done
  <2>2. <<blank>> \o <<>> = <<blank>>
    OBVIOUS
  <2> QED BY <2>1, <2>2, Pair
<1> HIDE DEF blank, done
<1>3. Pending \subseteq {blank, done}
  <2>1. hand = NoMessage
    BY DEF Init
  <2>2. CASE queue = <<blank>>
    BY <2>1, <2>2, QueuedOne DEF Pending
  <2>3. CASE queue = <<blank, done>>
    BY <2>1, <2>3, QueuedTwo DEF Pending
  <2> QED BY <1>2, <2>2, <2>3
<1>4. Numbers
  BY DEF Init, Numbers, Display!Init, Control!Init, Display!Nul
<1> QED BY <1>1, <1>3, <1>4, FiveCalls, ControlAssumption DEF Init, Typed, Control!Init

\* The demand that is calibrated, times 255, divided and cut to a byte.
LEMMA DutyByte == ASSUME NEW rps \in Int, Numbers PROVE Control!Duty(Control!Calibrated(rps)) \in 0..255
<1>1. Control!Calibrated(rps) \in Int
  BY DEF Control!Calibrated, Numbers
<1> DEFINE c == Control!Calibrated(rps) * 255
<1>2. c \in Int
  BY <1>1
<1> HIDE DEF c
<1>3. c \div RPS_MAX \in Int
  BY <1>2, ControlAssumption
<1> DEFINE q == c \div RPS_MAX
<1>4. q % 256 \in 0..255
  <2>1. q \in Int
    BY <1>3
  <2> HIDE DEF q
  <2> QED BY <2>1
<1> QED BY <1>4 DEF c, Control!Duty

\* What the display's handlers and its task leave numbers.
LEMMA NumbersOfDisplay ==
  ASSUME Numbers, control_demand_rps' = control_demand_rps,
         \/ Display!TaskLoop
         \/ Display!EventHandler(hand) /\ (hand.id = MSG_ID_KEY_PRESSED => hand.context \in Int)
  PROVE  Numbers'
<1> USE DEF Numbers, Display!keys, Display!speeds, Display!demands, Display!entry, Display!display
<1>0. Display!Nul \in Int
  BY DEF Display!Nul
<1>1. CASE Display!EventHandler(hand) /\ (hand.id = MSG_ID_KEY_PRESSED => hand.context \in Int)
  BY <1>1
     DEF Display!EventHandler, Display!InitComplete, Display!NewActualRps, Display!KeyPressed,
         Display!MSG_ID_KEY_PRESSED, MSG_ID_KEY_PRESSED
<1>2. CASE Display!TaskLoop
  <2>1. CASE \/ Display!Starting \/ Display!Refresh \/ Display!IdleDigit \/ Display!IdleActual
             \/ Display!Idle \/ Display!ShowActual \/ Display!NextKeyNone
             \/ Display!NextKeyIgnored \/ Display!ValidateAccept \/ Display!ErrorShown
             \/ Display!ErrorEnds
    BY <2>1
       DEF Display!Starting, Display!Refresh, Display!IdleDigit, Display!IdleActual,
           Display!Idle, Display!ShowActual, Display!NextKeyNone, Display!NextKeyIgnored,
           Display!TakeNextKey, Display!ValidateAccept, Display!ErrorShown, Display!ErrorEnds
  <2>2. CASE Display!FirstKey
    BY <2>2 DEF Display!FirstKey, Display!Nul
  <2>3. CASE Display!NextKeyBackspace
    BY <1>0, <2>3 DEF Display!NextKeyBackspace, Display!TakeNextKey
  <2>4. CASE Display!NextKeyDigit
    BY <2>4 DEF Display!NextKeyDigit, Display!TakeNextKey
  <2>5. CASE Display!NextKeyEnter
    <3>1. user_input_values' \in [Display!Cells -> Int]
      BY <2>5 DEF Display!NextKeyEnter, Display!TakeNextKey, Display!Filled
    <3>2. \A string \in [Display!Cells -> Int] : Display!Scanned(string, input_rps) \in Int
      BY DEF Display!Scanned, Display!Cells, Display!Behind
    <3> QED BY <2>5, <3>1, <3>2 DEF Display!NextKeyEnter, Display!TakeNextKey
  <2>6. CASE Display!ValidateReject
    <3>1. PICK byte \in {Display!Nul, 0} :
            user_input_values' = [user_input_values EXCEPT ![Display!Behind] = byte]
      BY <2>6 DEF Display!ValidateReject
    <3>2. byte \in Int
      BY <1>0
    <3>3. user_input_values' \in [Display!Cells -> Int]
      BY <3>1, <3>2
    <3> QED BY <2>6, <3>3 DEF Display!ValidateReject
  <2> QED BY <1>2, <2>1, <2>2, <2>3, <2>4, <2>5, <2>6 DEF Display!TaskLoop
<1> QED BY <1>1, <1>2

\* Its messages are understood.
LEMMA KeypadUnderstood == ASSUME IInv, CallKeypad PROVE \A m \in Pending' : Understood(m)
<1>1. \A key \in 0..11 \cup {255} : /\ Understood(Message(MSG_ID_UPDATE_7SEG, key))
                                   /\ Understood(Message(MSG_ID_KEY_PRESSED, key))
  BY DEF Understood, Message, Numbered
<1> QED BY <1>1, CallKeypadPending

\* A call changes whose turn it is.
LEMMA TurnKept == ASSUME turn \in 1..Len(Ring), NEW task, Called(task) PROVE turn' \in 1..Len(Ring)
  BY FiveCalls DEF Called

LEMMA TypedNext == ASSUME IInv, Typed, [Next]_vars PROVE Typed'
<1>1. ASSUME Take PROVE Typed'
  BY <1>1, TakePending DEF Take, Typed, Numbers, keypad, display, control, sevenseg
<1>2. ASSUME NothingToTake \/ KeyTimer \/ ErrorTimer \/ ControlTimer \/ UNCHANGED vars
      PROVE  Typed'
  <2>1. UNCHANGED <<turn, timer_counter, duty, pattern, current_key, input_rps, demand_rps,
                    control_demand_rps, user_input_values>>
    BY <1>2
       DEF NothingToTake, KeyTimer, ErrorTimer, ControlTimer, Keypad!KeyTimerExpires,
           Display!ErrorTimerExpires, Control!TimerExpires, Display!keys, Display!demands,
           Display!entry, vars, keypad, display, control, sevenseg, superloop
  <2> QED BY <1>2, <2>1, OtherPending DEF Typed, Numbers
<1>3. ASSUME ToSevenSeg PROVE Typed'
  <2>1. /\ UNCHANGED <<turn, keypad, display, control>>
        /\ hand.id = MSG_ID_UPDATE_7SEG /\ hand \in Pending /\ Pending' \subseteq Pending
        /\ pattern' = SevenSeg!SmallerOf(hand.context % 16, SevenSeg!Off)
    BY <1>3, DispatchedPending DEF ToSevenSeg, Dispatched, SevenSeg!EventHandler
  <2>2. hand.context \in Int
    BY <2>1
       DEF Typed, Understood, Plain, MSG_ID_UPDATE_7SEG, MSG_ID_INIT_COMPLETE,
           MSG_ID_NEW_ACTUAL_RPS, MSG_ID_DATALOG_LOGEVENT, MSG_ID_DATALOG_DUMPLOG
  <2>3. pattern' \in 0..SevenSeg!Off
    BY <2>1, <2>2 DEF SevenSeg!SmallerOf, SevenSeg!Off
  <2> QED BY <2>1, <2>3 DEF Typed, Numbers, display, control
<1>4. ASSUME ToDisplay PROVE Typed'
  <2>1. /\ UNCHANGED <<turn, control, sevenseg>> /\ Display!EventHandler(hand)
        /\ queue' = queue /\ Dispatched
    BY <1>4
       DEF ToDisplay, Dispatched, Display!EventHandler, Display!InitComplete,
           Display!NewActualRps, Display!KeyPressed
  <2>2. hand \in Pending /\ Pending' \subseteq Pending
    BY <2>1, DispatchedPending
  <2>3. hand.id = MSG_ID_KEY_PRESSED => hand.context \in Int
    BY <2>2
       DEF Typed, Understood, Plain, MSG_ID_KEY_PRESSED, MSG_ID_INIT_COMPLETE,
           MSG_ID_NEW_ACTUAL_RPS, MSG_ID_DATALOG_LOGEVENT, MSG_ID_DATALOG_DUMPLOG
  <2>4. Numbers'
    BY <2>1, <2>3, NumbersOfDisplay DEF Typed, control
  <2> QED BY <2>1, <2>2, <2>4 DEF Typed, control, sevenseg
<1>5. ASSUME ToControl PROVE Typed'
  <2>1. /\ UNCHANGED <<turn, timer_counter, display, sevenseg>>
        /\ control_demand_rps' = hand.context
        /\ duty' = Control!Duty(Control!Calibrated(hand.context))
    BY <1>5 DEF ToControl, Dispatched, Control!EventHandler, Control!NewRpsEntered
  <2>2. /\ hand.context = demand_rps
        /\ \A m \in Pending' : m.id \in {MSG_ID_DATALOG_DUMPLOG, MSG_ID_DATALOG_LOGEVENT}
    BY <1>5, ToControlPending
  <2>3. duty' \in 0..255
    BY <2>1, <2>2, DutyByte DEF Typed, Numbers
  <2> QED BY <2>1, <2>2, <2>3
          DEF Typed, Numbers, Understood, Plain, display, sevenseg
<1>6. ASSUME ToLogger PROVE Typed'
  <2>1. Pending' \subseteq Pending
    BY <1>6, DispatchedPending DEF ToLogger
  <2> QED BY <1>6, <2>1
          DEF ToLogger, Dispatched, Typed, Numbers, keypad, display, control, sevenseg
<1>7. ASSUME CallKeypad PROVE Typed'
  BY <1>7, KeypadUnderstood, TurnKept
     DEF CallKeypad, Typed, Numbers, display, control, sevenseg
<1>8. ASSUME CallDisplay PROVE Typed'
  <2>1. /\ UNCHANGED <<keypad, control, sevenseg>> /\ Display!TaskLoop
        /\ turn' \in 1..Len(Ring)
    BY <1>8, TurnKept DEF CallDisplay, Typed
  <2>2. \A m \in Pending' : Understood(m)
    BY <1>8, CallDisplayPending DEF Typed, Numbers, Understood, Message, Numbered
  <2>3. Numbers'
    BY <2>1, NumbersOfDisplay DEF Typed, control
  <2> QED BY <2>1, <2>2, <2>3 DEF Typed, control, sevenseg
<1>9. ASSUME CallControl PROVE Typed'
  <2>1. PICK speed \in Speeds : Control!TaskLoop(speed)
    BY <1>9 DEF CallControl
  <2>2. /\ UNCHANGED <<display, sevenseg, duty, control_demand_rps>>
        /\ turn' \in 1..Len(Ring)
    BY <1>9, <2>1, TurnKept
       DEF CallControl, Typed, Control!TaskLoop, Control!Waiting, Control!control,
           Control!Tick, Control!TickAndLog
  <2>3. timer_counter' \in 0..(LOG_TICKS - 1)
    BY <2>1, ControlAssumption
       DEF Typed, Numbers, Control!TaskLoop, Control!Waiting, Control!control,
           Control!Tick, Control!TickAndLog, Control!Ticks
  <2>4. \A m \in Pending' : m.id \in {MSG_ID_NEW_ACTUAL_RPS, MSG_ID_DATALOG_LOGEVENT}
    BY <1>9, CallControlPending DEF LogEvent
  <2> QED BY <2>2, <2>3, <2>4
          DEF Typed, Numbers, Understood, Plain, display, sevenseg
<1>10. ASSUME CallLogger PROVE Typed'
  BY <1>10, CallLoggerPending, TurnKept
     DEF CallLogger, Typed, Numbers, keypad, display, control, sevenseg
<1> QED BY <1>1, <1>2, <1>3, <1>4, <1>5, <1>6, <1>7, <1>8, <1>9, <1>10 DEF Next

LEMMA AlwaysTyped == Spec => []Typed
  BY Invariant, TypedInit, TypedNext, PTL DEF Spec

\* The superloop's variables keep their types, and every id that is ever
\* dispatched has a receiver.
THEOREM TypeCorrect == Spec => []TypeOK
<1>1. IInv /\ Typed => TypeOK
  BY DEF IInv, Drains, Typed, TypeOK, Understood, Numbered, Plain
<1> QED BY <1>1, Invariant, AlwaysTyped, PTL

-----------------------------------------------------------------------------
(* The motor.                                                              *)

\* The calibration runs to 330 and gives no speed of the range less than 55, which is
\* still a duty cycle of 1 up to 14025. Control's range is 50..340.
SpeedRange == RPS_MIN \in Nat /\ RPS_MIN >= 50 /\ RPS_MAX \in 330..14025

\* Multiplication by a natural number keeps the order.
LEMMA Times == ASSUME NEW n \in Nat, NEW a \in Int, NEW b \in Int, a <= b PROVE n * a <= n * b
  OBVIOUS

\* The duty cycle d serves the speed rps: what MotorRuns says of duty and demand_rps.
Serves(d, rps) == /\ d = 0 <=> rps = 0
                  /\ d = 255 <=> rps = RPS_MAX
                  /\ d * RPS_MAX > 255 * (rps - Lower) - RPS_MAX
                  /\ d * RPS_MAX <= 255 * (rps + Raise)

\* A share of the range, not cut: 0 and 255 are had only by a share that is so little,
\* or the whole.
LEMMA ShareFits ==
  ASSUME SpeedRange, NEW c \in 55..RPS_MAX
  PROVE  LET q == (c * 255) \div RPS_MAX
         IN  /\ q \in 1..255
             /\ q = 255 <=> c = RPS_MAX
             /\ q * RPS_MAX <= 255 * c /\ 255 * c < q * RPS_MAX + RPS_MAX
<1>1. PICK q : q = (c * 255) \div RPS_MAX
  OBVIOUS
<1>2. RPS_MAX \in Nat /\ RPS_MAX >= 330 /\ RPS_MAX <= 14025 /\ c \in Nat /\ c >= 55 /\ c <= RPS_MAX
  BY DEF SpeedRange
<1>3. q \in Int /\ RPS_MAX * q <= c * 255 /\ c * 255 < RPS_MAX * (q + 1)
  BY <1>1, <1>2
<1>4. PICK p : p = RPS_MAX * q
  OBVIOUS
<1>5. p \in Int /\ p <= 255 * c /\ 255 * c < p + RPS_MAX /\ q * RPS_MAX = p
  BY <1>2, <1>3, <1>4
<1>6. q >= 1
  <2>1. SUFFICES ASSUME q <= 0 PROVE FALSE
    BY <1>3
  <2>2. p <= RPS_MAX * 0
    BY <1>2, <1>3, <1>4, <2>1, Times
  <2> QED BY <1>2, <1>5, <2>2
<1>7. q <= 255
  <2>1. SUFFICES ASSUME 256 <= q PROVE FALSE
    BY <1>3
  <2>2. RPS_MAX * 256 <= p
    BY <1>2, <1>3, <1>4, <2>1, Times
  <2> QED BY <1>2, <1>5, <2>2
<1>8. q = 255 => c = RPS_MAX
  <2>1. SUFFICES ASSUME q = 255 PROVE c = RPS_MAX
    OBVIOUS
  <2>2. p = RPS_MAX * 255
    BY <1>4, <2>1
  <2> QED BY <1>2, <1>5, <2>2
<1>9. c = RPS_MAX => q = 255
  <2>1. SUFFICES ASSUME c = RPS_MAX, q <= 254 PROVE FALSE
    BY <1>3, <1>7
  <2>2. p <= RPS_MAX * 254
    BY <1>2, <1>3, <1>4, <2>1, Times
  <2> QED BY <1>2, <1>5, <2>1, <2>2
<1> QED BY <1>1, <1>3, <1>5, <1>6, <1>7, <1>8, <1>9

\* The duty cycle that Control sets for a speed that the display lets pass serves it.
LEMMA DutyOfRange ==
  ASSUME SpeedRange, NEW rps \in Int, Display!InRange(rps)
  PROVE  Serves(Control!Duty(Control!Calibrated(rps)), rps)
<1>1. CASE rps = 0
  <2>1. Control!Calibrated(rps) = 0
    BY <1>1 DEF Control!Calibrated
  <2>2. 0 \div RPS_MAX = 0
    BY DEF SpeedRange
  <2>3. Control!Duty(0) = 0
    BY <2>2 DEF Control!Duty
  <2> QED BY <1>1, <2>1, <2>3 DEF Serves, Lower, Raise, SpeedRange
<1>2. CASE rps # 0
  <2>1. PICK c : c = Control!Calibrated(rps)
    OBVIOUS
  <2>2. rps >= 50 /\ rps <= RPS_MAX /\ RPS_MAX \in Int /\ RPS_MAX >= 330
    BY <1>2 DEF SpeedRange, Display!InRange
  <2>3. /\ c \in 55..RPS_MAX /\ c >= rps - Lower /\ c <= rps + Raise
        /\ c = RPS_MAX <=> rps = RPS_MAX
    BY <2>1, <2>2 DEF Control!Calibrated, Lower, Raise
  <2>4. PICK q : q = (c * 255) \div RPS_MAX
    OBVIOUS
  <2>5. /\ q \in 1..255
        /\ q = 255 <=> c = RPS_MAX
        /\ q * RPS_MAX <= 255 * c /\ 255 * c < q * RPS_MAX + RPS_MAX
    BY <2>3, <2>4, ShareFits
  <2>6. Control!Duty(c) = q
    <3>1. q % 256 = q
      BY <2>5
    <3> QED BY <2>4, <3>1 DEF Control!Duty
  <2>7. q * RPS_MAX > 255 * (rps - Lower) - RPS_MAX /\ q * RPS_MAX <= 255 * (rps + Raise)
    <3>1. PICK p : p = q * RPS_MAX
      OBVIOUS
    <3>2. p \in Int /\ p <= 255 * c /\ 255 * c < p + RPS_MAX
      BY <2>2, <2>5, <3>1
    <3> QED BY <2>2, <2>3, <3>1, <3>2 DEF Lower, Raise
  <2>8. (q = 0 <=> rps = 0) /\ (q = 255 <=> rps = RPS_MAX)
    BY <1>2, <2>3, <2>5
  <2> QED BY <2>1, <2>6, <2>7, <2>8 DEF Serves
<1> QED BY <1>1, <1>2

\* The demand is one that the display lets pass, and the duty cycle is that of
\* the demand that Control has.
Driven == Display!InRange(demand_rps) /\ Serves(duty, control_demand_rps)

LEMMA DrivenInit == ASSUME SpeedRange PROVE Init => Driven
  BY DEF Init, Display!Init, Control!Init, Driven, Serves, Lower, Raise, Display!InRange, SpeedRange

LEMMA DrivenNext == ASSUME SpeedRange, IInv, Typed, Driven, [Next]_vars PROVE Driven'
<1>1. demand_rps' = demand_rps \/ Display!InRange(demand_rps')
  <2>1. CASE CallDisplay
    BY <2>1, CallDisplayPending DEF Display!ValidateAccept
  <2>2. CASE ~CallDisplay
    BY <2>2
       DEF Next, Take, NothingToTake, ToSevenSeg, ToDisplay, ToControl, ToLogger, CallKeypad,
           CallControl, CallLogger, KeyTimer, ErrorTimer, ControlTimer, vars, display,
           Display!EventHandler, Display!InitComplete, Display!NewActualRps,
           Display!KeyPressed, Display!ErrorTimerExpires, Display!demands
  <2> QED BY <2>1, <2>2
<1>2. CASE ToControl
  <2>1. /\ duty' = Control!Duty(Control!Calibrated(hand.context))
        /\ control_demand_rps' = hand.context
    BY <1>2 DEF ToControl, Control!EventHandler, Control!NewRpsEntered
  <2>2. hand.context = demand_rps
    BY <1>2, ToControlPending
  <2> QED BY <1>1, <2>1, <2>2, DutyOfRange DEF Driven, Typed, Numbers, Display!InRange
<1>3. CASE ~ToControl
  <2>1. UNCHANGED <<duty, control_demand_rps>>
    BY <1>3
       DEF Next, Take, NothingToTake, ToSevenSeg, ToDisplay, ToLogger, CallKeypad, CallDisplay,
           CallControl, CallLogger, KeyTimer, ErrorTimer, ControlTimer, vars, control,
           Control!TaskLoop, Control!Waiting, Control!Tick, Control!TickAndLog,
           Control!TimerExpires, Control!control
  <2> QED BY <1>1, <2>1 DEF Driven, Display!InRange
<1> QED BY <1>2, <1>3

\* With a range of speeds that the calibration was made for, OCR0A holds the share of
\* the full duty that the speed demanded is, never one that was cut to a byte.
THEOREM MotorFollows == SpeedRange => (Spec => []MotorRuns)
<1> SUFFICES ASSUME SpeedRange PROVE Spec => []MotorRuns
  OBVIOUS
<1>1. IInv /\ Typed /\ Driven /\ [Next]_vars => Driven'
  BY DrivenNext
<1>2. Driven /\ DemandFollowed => MotorRuns
  BY DEF Driven, DemandFollowed, Serves, MotorRuns
<1>3. IInv => DemandFollowed
  BY DEF IInv
<1> QED BY <1>1, <1>2, <1>3, DrivenInit, Invariant, AlwaysTyped, PTL DEF Spec
=============================================================================
