---------------------------- MODULE MessageQueue ----------------------------
(***************************************************************************)
(* Kernel::MQClass (kernel/mq.cpp): the kernel's message queue, a singly   *)
(* linked list of heap-allocated MESSAGEs shared by the main thread        *)
(* (setup(), the superloop, the handlers it calls) and interrupt service   *)
(* routines, which may Post with MQ_CONTEXT_INTERRUPT.  The main thread    *)
(* masks interrupts around its list manipulations; every assignment it     *)
(* makes to the list is a step of its own here, so that a missing or       *)
(* misplaced cli()/sei() shows.  An ISR runs with interrupts masked by the *)
(* hardware: its Post is one step, possible between any two steps of the   *)
(* main thread while ie holds.                                             *)
(***************************************************************************)
EXTENDS Integers, Sequences

CONSTANTS
  Node,          \* the MESSAGE objects the heap has room for
  Context,       \* context blocks handed over with MQ_OWNER_MQ
  Null,          \* the NULL pointer
  MaxMsgIds,     \* MSG_MAX_MSG_IDS
  TaskIds,       \* ids the main thread posts
  IsrIds,        \* ids the ISRs post
  Handlers,      \* Handlers[id]: length of the handler list QueueBlock[id]
  MaxMessages    \* the argument of MQClass::Loop

NoMessage == -1

ASSUME NullAssumption == Null \notin Node /\ Null \notin Context

\* Post has no lower bound on msgid: its callers must not go below
\* MSG_ID_NOMESSAGE, and the callers of this program (msgids.h) do not.
ASSUME IdsAssumption == /\ MaxMsgIds \in Nat
                        /\ TaskIds \subseteq {id \in Int : id >= NoMessage}
                        /\ IsrIds \subseteq {id \in Int : id >= NoMessage}

MsgIds == 0..(MaxMsgIds - 1)

ASSUME HandlersAssumption == Handlers \in [MsgIds -> Nat]

ASSUME MaxMessagesAssumption == MaxMessages \in Nat

VARIABLES
  first, last,   \* MsgQueueFirst, MsgQueueLast
  next,          \* next[n]: pNextMsg of MESSAGE n
  msgid,         \* msgid[n]: its id
  context,       \* context[n]: its context if the queue owns it, else Null
  live,          \* the MESSAGE objects allocated and not deleted
  heap,          \* the queue-owned contexts allocated and not deleted
  ie,            \* the global interrupt enable flag
  pc,            \* where the main thread is
  caller,        \* where Post returns to: "task" or "handler"
  request,       \* the id and the context Post was called with
  fresh,         \* newMessage, of the Post in progress
  msg, budget,   \* msg and MaxMessages, locals of Loop
  cur,           \* how many handlers of msg have been called
  chain          \* auxiliary: the queued MESSAGEs in the order they were posted

list == <<first, last, next, msgid, context, live, chain>>
posting == <<caller, request, fresh>>
looping == <<msg, budget, cur>>
vars == <<list, heap, ie, pc, posting, looping>>

NoRequest == [id |-> NoMessage, context |-> Null]
Requests(ids) == [id : ids, context : Context \cup {Null}]

Init == /\ first = Null /\ last = Null
        /\ next = [n \in Node |-> Null]
        /\ msgid = [n \in Node |-> NoMessage]
        /\ context = [n \in Node |-> Null]
        /\ live = {} /\ heap = {}
        /\ ie = FALSE            \* reset state: static constructors run masked
        /\ pc = "task" /\ caller = "task"
        /\ request = NoRequest /\ fresh = Null
        /\ msg = Null /\ budget = 0 /\ cur = 0
        /\ chain = <<>>

-----------------------------------------------------------------------------
(* The start-up code's sei(), after the static constructors.               *)

EnableInterrupts == /\ pc = "task" /\ ~ie
                    /\ ie' = TRUE
                    /\ UNCHANGED <<list, heap, pc, posting, looping>>

-----------------------------------------------------------------------------
(* MQClass::Post, from the main thread and from an ISR.                    *)

\* A context that is handed over is one its owner has just allocated.
Allocated(req) == req.context # Null => req.context \notin heap

HeapWith(req) == heap \cup ({req.context} \ {Null})

\* Mutant: the bound is off by one.
AcceptsOneMore(id) == id <= MaxMsgIds /\ id # NoMessage

\* The check on msgid.
Accepts(id) == id < MaxMsgIds /\ id # NoMessage

\* new MESSAGE(...): n is allocated and initialised, not yet linked.
New(n, req) == /\ live' = live \cup {n}
               /\ msgid' = [msgid EXCEPT ![n] = req.id]
               /\ context' = [context EXCEPT ![n] = req.context]

\* A task, a handler, or setup() calls Post: interrupts are masked.
PostEnter(req) == /\ pc \in {"task", "handler"}
                  /\ Allocated(req)
                  /\ heap' = HeapWith(req)
                  /\ request' = req
                  /\ caller' = pc
                  /\ ie' = FALSE
                  /\ pc' = "post_alloc"
                  /\ UNCHANGED <<list, fresh, looping>>

\* The id is refused, or the heap is exhausted: nothing is queued.
PostReject == /\ pc = "post_alloc"
              /\ ~Accepts(request.id) \/ live = Node
              /\ pc' = "post_exit"
              /\ UNCHANGED <<list, heap, ie, posting, looping>>

PostAlloc == /\ pc = "post_alloc"
             /\ Accepts(request.id)
             /\ \E n \in Node \ live :
                  /\ New(n, request)
                  /\ next' = [next EXCEPT ![n] = Null]
                  /\ fresh' = n
             /\ pc' = IF first = Null THEN "post_empty" ELSE "post_tail"
             /\ UNCHANGED <<first, last, chain, heap, ie, caller, request, looping>>

\* MsgQueueFirst=MsgQueueLast=newMessage assigns MsgQueueLast, ...
PostEmpty == /\ pc = "post_empty"
             /\ last' = fresh
             /\ pc' = "post_head"
             /\ UNCHANGED <<first, next, msgid, context, live, chain,
                            heap, ie, posting, looping>>

\* ... then MsgQueueFirst.
PostHead == /\ pc = "post_head"
            /\ first' = fresh
            /\ chain' = Append(chain, fresh)
            /\ pc' = "post_exit"
            /\ UNCHANGED <<last, next, msgid, context, live,
                           heap, ie, posting, looping>>

\* MsgQueueLast->pNextMsg=newMessage
PostTail == /\ pc = "post_tail"
            /\ next' = [next EXCEPT ![last] = fresh]
            /\ pc' = "post_last"
            /\ UNCHANGED <<first, last, msgid, context, live, chain,
                           heap, ie, posting, looping>>

\* MsgQueueLast=newMessage
PostLast == /\ pc = "post_last"
            /\ last' = fresh
            /\ chain' = Append(chain, fresh)
            /\ pc' = "post_exit"
            /\ UNCHANGED <<first, next, msgid, context, live,
                           heap, ie, posting, looping>>

\* Interrupts are enabled, whatever they were when Post was called.
PostExit == /\ pc = "post_exit"
            /\ ie' = TRUE
            /\ pc' = caller
            /\ caller' = "task" /\ request' = NoRequest /\ fresh' = Null
            /\ UNCHANGED <<list, heap, looping>>

\* An interrupt service routine calls Post with MQ_CONTEXT_INTERRUPT: a
\* whole Post, which the main thread cannot interleave with.
IsrReject(req) == /\ ~Accepts(req.id) \/ live = Node
                  /\ UNCHANGED list

IsrAppend(req) == /\ Accepts(req.id)
                  /\ \E n \in Node \ live :
                       /\ New(n, req)
                       /\ IF first = Null
                            THEN /\ first' = n
                                 /\ next' = [next EXCEPT ![n] = Null]
                            ELSE /\ first' = first
                                 /\ next' = [next EXCEPT ![n] = Null, ![last] = n]
                       /\ last' = n
                       /\ chain' = Append(chain, n)

IsrPost(req) == /\ ie
                /\ Allocated(req)
                /\ heap' = HeapWith(req)
                /\ IsrReject(req) \/ IsrAppend(req)
                /\ UNCHANGED <<ie, pc, posting, looping>>

-----------------------------------------------------------------------------
(* MQClass::Loop, called once per iteration of the superloop.              *)

LoopCall == /\ pc = "task"
            /\ budget' = MaxMessages
            /\ pc' = "loop"
            /\ UNCHANGED <<list, heap, ie, posting, msg, cur>>

LoopReturn == /\ pc = "loop" /\ budget = 0
              /\ pc' = "task"
              /\ UNCHANGED <<list, heap, ie, posting, looping>>

\* Mutant: the pop is not masked.
PopEnterUnmasked == /\ pc = "loop" /\ budget > 0
                    /\ pc' = "pop_read"
                    /\ UNCHANGED <<list, heap, ie, posting, looping>>

\* The next turn of the loop masks interrupts.
PopEnter == /\ pc = "loop" /\ budget > 0
            /\ ie' = FALSE
            /\ pc' = "pop_read"
            /\ UNCHANGED <<list, heap, posting, looping>>

\* msg=MsgQueueFirst
PopRead == /\ pc = "pop_read"
           /\ msg' = first
           /\ pc' = IF first = Null THEN "pop_exit" ELSE "pop_unlink"
           /\ UNCHANGED <<list, heap, ie, posting, budget, cur>>

\* MsgQueueFirst=msg->pNextMsg
PopUnlink == /\ pc = "pop_unlink"
             /\ first' = next[msg]
             /\ chain' = Tail(chain)
             /\ pc' = IF next[msg] = Null THEN "pop_clear" ELSE "pop_exit"
             /\ UNCHANGED <<last, next, msgid, context, live,
                            heap, ie, posting, looping>>

\* Mutant: MsgQueueLast keeps pointing at the message that was unlinked.
PopKeepLast == /\ pc = "pop_clear"
               /\ pc' = "pop_exit"
               /\ UNCHANGED <<list, heap, ie, posting, looping>>

\* MsgQueueLast=NULL
PopClear == /\ pc = "pop_clear"
            /\ last' = Null
            /\ pc' = "pop_exit"
            /\ UNCHANGED <<first, next, msgid, context, live, chain,
                           heap, ie, posting, looping>>

\* Mutant: an empty queue goes on to the next turn without sei().
PopExitMasked == /\ pc = "pop_exit"
                 /\ IF msg = Null
                      THEN pc' = "loop" /\ budget' = budget - 1 /\ UNCHANGED ie
                      ELSE pc' = "dispatch" /\ ie' = TRUE /\ UNCHANGED budget
                 /\ UNCHANGED <<list, heap, posting, msg, cur>>

\* Interrupts are enabled; an empty queue still uses up a turn of the loop.
PopExit == /\ pc = "pop_exit"
           /\ ie' = TRUE
           /\ IF msg = Null
                THEN pc' = "loop" /\ budget' = budget - 1
                ELSE pc' = "dispatch" /\ UNCHANGED budget
           /\ UNCHANGED <<list, heap, posting, msg, cur>>

\* Mutants: the context is freed with the first handler's call, and the list
\* of handlers is never walked on.
CallHandlerFreeing == /\ pc = "dispatch" /\ cur < Handlers[msgid[msg]]
                      /\ heap' = heap \ {context[msg]}
                      /\ cur' = cur + 1
                      /\ pc' = "handler"
                      /\ UNCHANGED <<list, ie, posting, msg, budget>>

CallSameHandler == /\ pc = "dispatch" /\ cur < Handlers[msgid[msg]]
                   /\ pc' = "handler"
                   /\ UNCHANGED <<list, heap, ie, posting, looping>>

CallHandler == /\ pc = "dispatch" /\ cur < Handlers[msgid[msg]]
               /\ cur' = cur + 1
               /\ pc' = "handler"
               /\ UNCHANGED <<list, heap, ie, posting, msg, budget>>

HandlerReturn == /\ pc = "handler"
                 /\ pc' = "dispatch"
                 /\ UNCHANGED <<list, heap, ie, posting, looping>>

\* Mutant: dispatch stops before the last handler.
FreeContextEarly == /\ pc = "dispatch" /\ cur + 1 >= Handlers[msgid[msg]]
                    /\ heap' = heap \ {context[msg]}
                    /\ pc' = "delete"
                    /\ UNCHANGED <<list, ie, posting, looping>>

\* delete msg->context, if the queue owns it
FreeContext == /\ pc = "dispatch" /\ cur = Handlers[msgid[msg]]
               /\ heap' = heap \ {context[msg]}
               /\ pc' = "delete"
               /\ UNCHANGED <<list, ie, posting, looping>>

\* Mutant: the message is not deleted.
KeepMessage == /\ pc = "delete"
               /\ msg' = Null /\ cur' = 0
               /\ budget' = budget - 1
               /\ pc' = "loop"
               /\ UNCHANGED <<list, heap, ie, posting>>

\* delete msg
FreeMessage == /\ pc = "delete"
               /\ live' = live \ {msg}
               /\ msg' = Null /\ cur' = 0
               /\ budget' = budget - 1
               /\ pc' = "loop"
               /\ UNCHANGED <<first, last, next, msgid, context, chain,
                              heap, ie, posting>>

-----------------------------------------------------------------------------
PostSteps == PostReject \/ PostAlloc \/ PostEmpty \/ PostHead
               \/ PostTail \/ PostLast \/ PostExit

LoopSteps == LoopReturn \/ PopEnter \/ PopRead \/ PopUnlink \/ PopClear
               \/ PopExit \/ CallHandler \/ FreeContext \/ FreeMessage

Next == \/ EnableInterrupts
        \/ \E req \in Requests(TaskIds) : PostEnter(req)
        \/ \E req \in Requests(IsrIds) : IsrPost(req)
        \/ PostSteps
        \/ LoopCall \/ LoopSteps \/ HandlerReturn

\* The main thread executes at least one instruction between two interrupts,
\* the superloop calls Loop again and again, and a handler, which may post
\* any number of messages, returns.
Fairness == /\ WF_vars(PostSteps \/ LoopSteps)
            /\ SF_vars(LoopCall)
            /\ SF_vars(HandlerReturn)

Spec == Init /\ [][Next]_vars /\ Fairness

-----------------------------------------------------------------------------
(* Properties.                                                             *)

Critical == {"post_alloc", "post_empty", "post_head", "post_tail", "post_last",
             "post_exit", "pop_read", "pop_unlink", "pop_clear", "pop_exit"}
Labels == Critical \cup {"task", "handler", "loop", "dispatch", "delete"}

\* Every variable keeps its type; in particular an id that is queued is an
\* index of QueueBlock, which Loop relies on without checking.
TypeOK ==
  /\ {first, last, fresh, msg} \subseteq Node \cup {Null}
  /\ next \in [Node -> Node \cup {Null}]
  /\ msgid \in [Node -> MsgIds \cup {NoMessage}]
  /\ context \in [Node -> Context \cup {Null}]
  /\ live \subseteq Node /\ heap \subseteq Context
  /\ ie \in BOOLEAN /\ pc \in Labels /\ caller \in {"task", "handler"}
  /\ request \in Requests({id \in Int : id >= NoMessage})
  /\ budget \in 0..MaxMessages /\ cur \in Nat
  /\ chain \in Seq(live)

\* The message Loop has unlinked and not yet deleted, the one Post has
\* allocated and not yet linked.
InHand == IF msg = Null \/ pc = "pop_unlink" THEN {} ELSE {msg}
Unlinked == IF pc \in {"post_empty", "post_head", "post_tail", "post_last"}
              THEN {fresh} ELSE {}
Queued == {chain[i] : i \in 1..Len(chain)}

\* The interrupt mask: wherever the main thread is inside Post or inside the
\* pop of Loop, no ISR can run.
MaskedWhenCritical == pc \in Critical => ~ie

\* The pointers spell the queue: following pNextMsg from MsgQueueFirst visits
\* the messages in the order they were posted, without a cycle, and
\* MsgQueueLast is the end of that list whenever an ISR could append to it.
ListSound ==
  /\ first = IF chain = <<>> THEN Null ELSE chain[1]
  /\ \A i \in 1..(Len(chain) - 1) : next[chain[i]] = chain[i + 1]
  /\ ie => /\ last = IF chain = <<>> THEN Null ELSE chain[Len(chain)]
           /\ chain # <<>> => next[last] = Null
  /\ \A i, j \in 1..Len(chain) : chain[i] = chain[j] => i = j

\* Every allocated MESSAGE is in the queue, in the hand of Loop or in the hand
\* of Post, and in one of these only: none leaks, none is used after delete,
\* none is deleted while an ISR could reach it.
NothingLeaks ==
  /\ live = Queued \cup InHand \cup Unlinked
  /\ InHand \cap Queued = {} /\ Unlinked \cap (Queued \cup InHand) = {}

\* A context handed over to the queue stays allocated until its own message's
\* handlers have all returned, and no two messages hold the same one (it is
\* deleted once).
ContextsAlive ==
  LET Holding == IF pc = "delete" THEN live \ {msg} ELSE live
  IN  /\ \A n \in Holding : context[n] \in heap \cup {Null}
      /\ \A n, m \in Holding : context[n] = context[m] => n = m \/ context[n] = Null

\* What the queue promises: MessageFifo, with the queue read off the list, a
\* message in hand from the moment it is unlinked until it is deleted.
Fifo == INSTANCE MessageFifo WITH
          queue     <- [i \in 1..Len(chain) |-> msgid[chain[i]]],
          inhand    <- IF msg = Null \/ pc = "pop_unlink" THEN NoMessage ELSE msgid[msg],
          delivered <- cur

ImplementsFifo == Fifo!Spec

\* Every message that was queued is dispatched and freed in the end, however
\* often tasks, handlers and ISRs post.
EveryMessageFreed == \A n \in Node : (n \in live) ~> (n \notin live)

\* Interrupts are never masked for good.
InterruptsReturn == []<>ie
=============================================================================
