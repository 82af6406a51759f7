---------------------------- MODULE MessageFifo ----------------------------
(***************************************************************************)
(* What Kernel::MQClass promises its users, without saying how: messages   *)
(* are accepted one at a time, leave in the order they were accepted, and  *)
(* each one is handed to every handler subscribed to its id exactly once   *)
(* before the next one is taken.  MessageQueue implements this.            *)
(***************************************************************************)
EXTENDS Integers, Sequences

CONSTANTS MsgIds,      \* the message ids that can be queued
          NoMessage,   \* the value of inhand when no message is in hand
          Handlers     \* Handlers[id]: how many handlers id has

VARIABLES queue,       \* ids of the accepted messages, oldest first
          inhand,      \* id of the message being dispatched, or NoMessage
          delivered    \* how many handlers have been given inhand

vars == <<queue, inhand, delivered>>

Init == queue = <<>> /\ inhand = NoMessage /\ delivered = 0

\* A message is accepted at the back of the queue.
Accept(id) == /\ queue' = Append(queue, id)
              /\ UNCHANGED <<inhand, delivered>>

\* The oldest message is taken for dispatch.
Take == /\ inhand = NoMessage
        /\ queue # <<>>
        /\ inhand' = Head(queue)
        /\ queue' = Tail(queue)
        /\ UNCHANGED delivered

\* The message in hand is given to one more of its handlers.
Deliver == /\ inhand # NoMessage
           /\ delivered < Handlers[inhand]
           /\ delivered' = delivered + 1
           /\ UNCHANGED <<queue, inhand>>

\* Every handler has seen the message in hand.
Done == /\ inhand # NoMessage
        /\ delivered = Handlers[inhand]
        /\ inhand' = NoMessage
        /\ delivered' = 0
        /\ UNCHANGED queue

Next == (\E id \in MsgIds : Accept(id)) \/ Take \/ Deliver \/ Done

Spec == Init /\ [][Next]_vars
=============================================================================
