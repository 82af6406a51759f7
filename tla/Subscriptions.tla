--------------------------- MODULE Subscriptions ---------------------------
(***************************************************************************)
(* The handler lists of Kernel::MQClass (kernel/mq.cpp), one per message   *)
(* id, and the walk along one of them when Loop dispatches a message. A    *)
(* handler runs in task context: it may subscribe and unsubscribe while    *)
(* the walk stands at its own entry, and take that entry away too: Loop    *)
(* then reads pNextHandler of a deleted MESSAGEHANDLER.  avr-libc's free   *)
(* writes over the first two bytes, the virtual table's address, so that   *)
(* the link is there until the memory is used again.  No ISR touches the   *)
(* lists: a list is a sequence here and each operation one step.           *)
(***************************************************************************)
EXTENDS Integers, Sequences, FiniteSets

CONSTANTS
  Receiver,     \* what can be subscribed: event receivers and functions
  Id,           \* the message ids
  Node,         \* the MESSAGEHANDLERs the heap has room for
  Null

ASSUME NullAssumption == Null \notin Node /\ Null \notin Receiver /\ Null \notin Id

VARIABLES
  QueueBlock,   \* QueueBlock[i]: the MESSAGEHANDLERs of id i, first to last
  receiver,     \* receiver[n]: msgHandler or pReceiver of n, if it is allocated
  live,         \* the MESSAGEHANDLERs allocated and not deleted
  pc,           \* "idle", "walk" (along the list), "handler", or "lost"
  id,           \* the id of the message that is dispatched
  curHandler,
  left,         \* pNextHandler of curHandler when that was deleted
  stray,        \* whether that link leads nowhere any more
  called,       \* auxiliary. called[r]: how often r was called for this message,
                \* up to Twice
  stayed        \* auxiliary: those subscribed to id ever since it is dispatched

Twice == 2  \* bound: as far as calls are counted
Nobody == [r \in Receiver |-> 0]

lists == <<QueueBlock, receiver, live>>
walk == <<pc, id, curHandler, left, called>>
vars == <<lists, walk, stray, stayed>>

Init == /\ QueueBlock = [i \in Id |-> <<>>]
        /\ receiver = [n \in Node |-> Null]
        /\ live = {}
        /\ pc = "idle" /\ id = Null /\ curHandler = Null
        /\ left = Null /\ stray = FALSE
        /\ called = Nobody /\ stayed = {}

-----------------------------------------------------------------------------
(* Subscribe and Unsubscribe, for receivers and for functions.             *)

Elements(s) == {s[k] : k \in 1..Len(s)}

\* checkHandler holds of one of the MESSAGEHANDLERs of i.
Subscribed(i, r) == \E n \in Elements(QueueBlock[i]) : receiver[n] = r

Subscribers(i) == {receiver[n] : n \in Elements(QueueBlock[i])}

\* The main thread is in a task, in setup() or in a handler.
InTask == pc \in {"idle", "handler"}

\* Mutant: a receiver may be attached twice.
SubscribeTwice(i, r) ==
  /\ InTask
  /\ \E n \in Node \ live :
       /\ live' = live \cup {n}
       /\ receiver' = [receiver EXCEPT ![n] = r]
       /\ QueueBlock' = [QueueBlock EXCEPT ![i] = <<n>> \o @]
       /\ stray' = (stray \/ n = curHandler)
  /\ UNCHANGED <<walk, stayed>>

\* A new MESSAGEHANDLER at the head, unless r is attached already.  It may get
\* the memory of the one that the walk stands at, if that was deleted.
Subscribe(i, r) ==
  /\ InTask
  /\ ~Subscribed(i, r)
  /\ \E n \in Node \ live :
       /\ live' = live \cup {n}
       /\ receiver' = [receiver EXCEPT ![n] = r]
       /\ QueueBlock' = [QueueBlock EXCEPT ![i] = <<n>> \o @]
       /\ stray' = (stray \/ n = curHandler)
  /\ UNCHANGED <<walk, stayed>>

\* Attached already, or the heap is exhausted.
SubscribeFails(i, r) == /\ InTask
                        /\ Subscribed(i, r) \/ live = Node
                        /\ UNCHANGED vars

\* Mutant: the MESSAGEHANDLER before is made the last one.
WithoutRest(s, r) ==
  LET at == {k \in 1..Len(s) : receiver[s[k]] = r}
  IN  IF at = {} THEN s ELSE SubSeq(s, 1, (CHOOSE k \in at : TRUE) - 1)

\* The first MESSAGEHANDLER of r is unlinked; the search stops there.
Without(s, r) ==
  LET at == {k \in 1..Len(s) : receiver[s[k]] = r}
      first == CHOOSE k \in at : \A l \in at : k <= l
  IN  IF at = {} THEN s ELSE SubSeq(s, 1, first - 1) \o SubSeq(s, first + 1, Len(s))

\* curHandler->pNextHandler, in a list that may have changed meanwhile.
Following == LET list == QueueBlock[id]
                 k == CHOOSE k \in 1..Len(list) : list[k] = curHandler
             IN  IF k = Len(list) THEN Null ELSE list[k + 1]

\* Mutant: the link is cleared as well.
LinkCleared(deleted) == IF curHandler \in deleted THEN Null ELSE left

\* The link of curHandler stays in its memory when it is deleted.
LinkLeft(deleted) == IF curHandler \in deleted /\ ~stray THEN Following ELSE left

\* The MESSAGEHANDLER of r is unlinked and deleted, if there is one.  It may be
\* the one that the walk stands at, or the one that a deleted curHandler links to.
Detach(ids, r) ==
  LET deleted == {n \in UNION {Elements(QueueBlock[i]) : i \in ids} : receiver[n] = r}
  IN  /\ InTask
      /\ QueueBlock' = [i \in Id |-> IF i \in ids THEN Without(QueueBlock[i], r) ELSE QueueBlock[i]]
      /\ live' = live \ deleted
      /\ stayed' = IF id \in ids THEN stayed \ {r} ELSE stayed
      /\ receiver' = [n \in Node |-> IF n \in deleted THEN Null ELSE receiver[n]]
      /\ left' = LinkLeft(deleted)
      /\ stray' = (stray \/ left \in deleted)
      /\ UNCHANGED <<pc, id, curHandler, called>>

Unsubscribe(i, r) == Detach({i}, r)

UnsubscribeAllIDs(r) == Detach(Id, r)

\* The memory of a deleted curHandler is allocated again, for a message or
\* whatever the handler needs.
Reuse == /\ pc = "handler" /\ curHandler \notin live
         /\ stray' = TRUE
         /\ UNCHANGED <<lists, walk, stayed>>

-----------------------------------------------------------------------------
(* The walk of MQClass::Loop along the handlers of a message.              *)

First(i) == IF QueueBlock[i] = <<>> THEN Null ELSE QueueBlock[i][1]

Dispatch(i) == /\ pc = "idle"
               /\ pc' = "walk"
               /\ id' = i
               /\ curHandler' = First(i)
               /\ called' = Nobody
               /\ stayed' = Subscribers(i)
               /\ UNCHANGED <<lists, left, stray>>

Call == /\ pc = "walk" /\ curHandler # Null
        /\ pc' = "handler"
        /\ called' = [called EXCEPT ![receiver[curHandler]] = IF @ < Twice THEN @ + 1 ELSE @]
        /\ UNCHANGED <<lists, id, curHandler, left, stray, stayed>>

\* Mutant: the walk goes on from the MESSAGEHANDLER whose handler returned.
ReturnToSame == /\ pc = "handler" /\ ~stray
                /\ pc' = "walk"
                /\ left' = Null
                /\ UNCHANGED <<lists, id, curHandler, called, stray, stayed>>

\* The handler returns and Loop reads the link of curHandler, deleted or not.
Return == /\ pc = "handler" /\ ~stray
          /\ pc' = "walk"
          /\ left' = Null
          /\ curHandler' = IF curHandler \in live THEN Following ELSE left
          /\ UNCHANGED <<lists, id, called, stray, stayed>>

\* The same when the memory holds something else, or the next one was deleted
\* too: the walk goes on with any MESSAGEHANDLER, ends, or calls what is none.
ReturnAstray == /\ pc = "handler" /\ stray
                /\ left' = Null
                /\ \/ pc' = "walk" /\ curHandler' \in live \cup {Null}
                   \/ pc' = "lost" /\ UNCHANGED curHandler
                /\ UNCHANGED <<lists, id, called, stray, stayed>>

\* What the program does then is not followed any further.
Lost == pc = "lost" /\ UNCHANGED vars

Finish == /\ pc = "walk" /\ curHandler = Null
          /\ pc' = "idle"
          /\ id' = Null /\ called' = Nobody /\ stayed' = {}
          /\ stray' = FALSE
          /\ UNCHANGED <<lists, curHandler, left>>

Next == \/ \E i \in Id, r \in Receiver :
             Subscribe(i, r) \/ SubscribeFails(i, r) \/ Unsubscribe(i, r)
        \/ \E r \in Receiver : UnsubscribeAllIDs(r)
        \/ \E i \in Id : Dispatch(i)
        \/ Reuse \/ Call \/ Return \/ ReturnAstray \/ Lost \/ Finish

\* A handler that is called returns, and the walk goes on.
Spec == Init /\ [][Next]_vars /\ WF_vars(Return \/ ReturnAstray) /\ WF_vars(Call \/ Finish)

-----------------------------------------------------------------------------
(* Properties.                                                             *)

\* Every variable keeps its type, and no list grows beyond the receivers.
TypeOK == /\ QueueBlock \in [Id -> Seq(Node)]
          /\ \A i \in Id : Len(QueueBlock[i]) <= Cardinality(Receiver)
          /\ receiver \in [Node -> Receiver \cup {Null}]
          /\ live \subseteq Node
          /\ pc \in {"idle", "walk", "handler", "lost"}
          /\ id \in Id \cup {Null} /\ {curHandler, left} \subseteq Node \cup {Null}
          /\ stray \in BOOLEAN
          /\ called \in [Receiver -> 0..Twice] /\ stayed \subseteq Receiver

\* The MESSAGEHANDLERs in the lists are the allocated ones, each is in one
\* place of one list, and no receiver has two in a list.
ListsSound ==
  /\ live = UNION {Elements(QueueBlock[i]) : i \in Id}
  /\ \A i, j \in Id : \A k \in 1..Len(QueueBlock[i]), l \in 1..Len(QueueBlock[j]) :
       QueueBlock[i][k] = QueueBlock[j][l] => i = j /\ k = l
  /\ \A i \in Id : \A n, m \in Elements(QueueBlock[i]) : receiver[n] = receiver[m] => n = m

\* Whatever the handlers subscribe and unsubscribe while a message is
\* dispatched, themselves too, nobody is called twice for it, and nobody is
\* passed over who was subscribed all the time.  It holds as long as no handler
\* that took its own entry away has that memory allocated again, or takes the
\* next entry away as well, before it returns: Loop then follows a dead link,
\* and nothing is promised of the message.
EachCalledOnce ==
  ~stray =>
    /\ \A r \in Receiver : called[r] <= 1
    /\ pc = "walk" /\ curHandler = Null => \A r \in stayed : called[r] = 1

\* The walk comes to its end, although lists grow and shrink while it is under
\* way, unless it follows a dead link.
WalkEnds == (pc = "walk") ~> (pc = "idle" \/ stray)
=============================================================================
