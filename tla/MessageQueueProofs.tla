------------------------- MODULE MessageQueueProofs -------------------------
(***************************************************************************)
(* MessageQueue: its safety properties and the implementation of           *)
(* MessageFifo, proved for every heap size, message id and handler table.  *)
(***************************************************************************)
EXTENDS MessageQueue, SequenceTheorems, TLAPS

PostLabels == {"post_alloc", "post_empty", "post_head", "post_tail",
               "post_last", "post_exit"}

\* The main thread is between the unlinking and the deletion of a message, or
\* in a Post called by one of its handlers.
Dispatching == \/ pc \in {"pop_clear", "dispatch", "handler", "delete"}
               \/ pc \in PostLabels /\ caller = "handler"
Idle == \/ pc \in {"task", "loop", "pop_read"}
        \/ pc \in PostLabels /\ caller = "task"

\* What the program counter says of the locals of Post and Loop.
Control ==
  /\ pc \in {"post_empty", "post_head", "post_tail", "post_last"} => fresh \in Node
  /\ pc \in {"post_empty", "post_head", "pop_clear"} => chain = <<>>
  /\ pc \in {"post_tail", "post_last"} => chain # <<>>
  /\ pc = "pop_unlink" => chain # <<>> /\ msg = chain[1]
  /\ Dispatching => msg \in Node
  /\ Idle => msg = Null
  /\ pc \in {"loop", "task"} \/ budget > 0 \/ caller = "task"
  /\ pc \in {"pop_read", "pop_unlink", "pop_clear", "pop_exit", "dispatch",
             "handler", "delete"} => budget > 0
  /\ pc = "delete" => cur = Handlers[msgid[msg]]

\* MsgQueueLast and the end of the list, also inside the critical sections.
TailSound ==
  /\ last = CASE pc = "post_head" -> fresh
              [] pc = "pop_clear" -> msg
              [] OTHER -> IF chain = <<>> THEN Null ELSE chain[Len(chain)]
  /\ chain # <<>> => next[chain[Len(chain)]] = IF pc = "post_last" THEN fresh ELSE Null
  /\ pc \in {"post_empty", "post_head", "post_tail", "post_last"} => next[fresh] = Null

\* Ids of allocated messages are valid; a context in the hand of Post is
\* allocated and in no message yet.
PayloadSound ==
  /\ \A n \in live : msgid[n] \in MsgIds
  /\ pc = "post_alloc" =>
       /\ request.context \in heap \cup {Null}
       /\ \A n \in live : context[n] = request.context => request.context = Null

IInv == /\ TypeOK /\ MaskedWhenCritical /\ ListSound /\ NothingLeaks
        /\ ContextsAlive /\ Control /\ TailSound /\ PayloadSound

LEMMA OneOrMore ==
  ASSUME NEW n \in Nat, n >= 1
  PROVE  n = 1 \/ (n > 1 /\ 2 \in 2..n)
  OBVIOUS

LEMMA UpToNext ==
  ASSUME NEW n \in Nat, NEW i \in 1..(n + 1)
  PROVE  i = n + 1 \/ i \in 1..n
  OBVIOUS

LEMMA SeqShrink ==
  ASSUME NEW S, NEW T, NEW s \in Seq(S), \A i \in 1..Len(s) : s[i] \in T
  PROVE  s \in Seq(T)
  BY LenProperties, SeqDef

LEMMA AppendFacts ==
  ASSUME NEW S, NEW s \in Seq(S), NEW e \in S
  PROVE  /\ Append(s, e) \in Seq(S)
         /\ Len(Append(s, e)) = Len(s) + 1
         /\ \A i \in 1..Len(s) : Append(s, e)[i] = s[i]
         /\ Append(s, e)[Len(s) + 1] = e
         /\ Append(s, e) # <<>>
  OBVIOUS

-----------------------------------------------------------------------------
(***************************************************************************)
(* Init, and one lemma per action: each conjunct of IInv in turn.           *)
(***************************************************************************)
LEMMA InitInv == Init => IInv
<1> SUFFICES ASSUME Init PROVE IInv
  OBVIOUS
<1> USE NullAssumption, IdsAssumption, MaxMessagesAssumption DEF Init
<1>1. TypeOK
  <2>1. chain \in Seq(live)
    BY EmptySeq
  <2>2. request \in Requests({id \in Int : id >= NoMessage}) /\ msgid \in [Node -> MsgIds \cup {NoMessage}]
    BY DEF Requests, NoRequest, NoMessage
  <2>3. ie \in BOOLEAN
    OBVIOUS
  <2>4. {first, last, fresh, msg} \subseteq Node \cup {Null}
    OBVIOUS
  <2>5. budget \in 0..MaxMessages /\ pc \in Labels
    BY DEF Labels
  <2> QED  BY <2>1, <2>2, <2>3, <2>4, <2>5 DEF TypeOK
<1>2. MaskedWhenCritical
  BY EmptySeq DEF MaskedWhenCritical, Critical
<1>3. ListSound
  BY EmptySeq DEF ListSound
<1>4. NothingLeaks
  BY EmptySeq DEF NothingLeaks, InHand, Unlinked, Queued
<1>5. ContextsAlive
  BY EmptySeq DEF ContextsAlive
<1>6. Control
  BY EmptySeq DEF Control, Dispatching, Idle, PostLabels
<1>7. TailSound
  BY EmptySeq DEF TailSound
<1>8. PayloadSound
  BY EmptySeq DEF PayloadSound
<1> QED  BY <1>1, <1>2, <1>3, <1>4, <1>5, <1>6, <1>7, <1>8 DEF IInv

LEMMA PostTailInv == IInv /\ PostTail => IInv'
<1> SUFFICES ASSUME IInv, PostTail PROVE IInv'
  OBVIOUS
<1> USE NullAssumption, HandlersAssumption, MaxMessagesAssumption
    DEF IInv, PostTail, list, posting, looping
<1>a. /\ chain \in Seq(live) /\ Len(chain) \in Nat \ {0} /\ last = chain[Len(chain)]
      /\ last \in live /\ fresh \in Node /\ fresh \notin Queued /\ next[fresh] = Null
  BY EmptySeq DEF TypeOK, Control, NothingLeaks, InHand, Unlinked, Queued,
      PayloadSound, TailSound, ListSound
<1>b. \A i \in 1..(Len(chain) - 1) : chain[i] # last
  BY <1>a DEF ListSound
<1>c. \A i \in 1..(Len(chain) - 1) : next'[chain[i]] = next[chain[i]]
  BY <1>a, <1>b DEF TypeOK
<1>d. next'[last] = fresh /\ next'[fresh] = next[fresh]
  BY <1>a DEF TypeOK, Queued
<1>1. TypeOK'
  BY DEF TypeOK, Labels, Critical
<1>2. MaskedWhenCritical'
  BY DEF MaskedWhenCritical, Critical
<1>3. ListSound'
  BY <1>a, <1>b, <1>c DEF ListSound, MaskedWhenCritical, Critical
<1>4. NothingLeaks'
  BY DEF NothingLeaks, InHand, Unlinked, Queued
<1>5. ContextsAlive'
  BY DEF ContextsAlive
<1>6. Control'
  BY DEF Control, Dispatching, Idle, PostLabels
<1>7. TailSound'
  BY <1>a, <1>d DEF TailSound
<1>8. PayloadSound'
  BY DEF PayloadSound
<1> QED  BY <1>1, <1>2, <1>3, <1>4, <1>5, <1>6, <1>7, <1>8 DEF IInv

LEMMA PostLastInv == IInv /\ PostLast => IInv'
<1> SUFFICES ASSUME IInv, PostLast PROVE IInv'
  OBVIOUS
<1> USE NullAssumption, HandlersAssumption, MaxMessagesAssumption
    DEF IInv, PostLast, list, posting, looping
<1>a. /\ chain \in Seq(live) /\ Len(chain) \in Nat \ {0} /\ fresh \in live
  BY EmptySeq DEF TypeOK, Control, NothingLeaks, InHand, Unlinked
<1>b. /\ Len(chain') = Len(chain) + 1 /\ chain'[Len(chain)+1] = fresh /\ chain' # <<>>
      /\ \A i \in 1..Len(chain) : chain'[i] = chain[i]
  BY <1>a
<1>c. /\ next[chain[Len(chain)]] = fresh /\ next[fresh] = Null /\ fresh \notin Queued /\ last' = fresh
  BY DEF TypeOK, Control, NothingLeaks, InHand, Unlinked, Queued, PayloadSound,
      TailSound, ListSound
<1>d. \A i, j \in 1..Len(chain') : chain'[i] = chain'[j] => i = j
  BY <1>a, <1>b, <1>c DEF ListSound, Queued
<1>e. chain'[1] = chain[1]
  BY <1>a, <1>b
<1>f. \A i \in 1..(Len(chain') - 1) : next'[chain'[i]] = chain'[i+1]
  <2> SUFFICES ASSUME NEW i \in 1..(Len(chain') - 1) PROVE next[chain'[i]] = chain'[i+1]
    OBVIOUS
  <2>1. CASE i = Len(chain)
    BY <2>1, <1>a, <1>b, <1>c
  <2>2. CASE i < Len(chain)
    BY <2>2, <1>a, <1>b, <1>c DEF ListSound
  <2> QED  BY <2>1, <2>2, <1>a, <1>b
<1>1. TypeOK'
  BY DEF TypeOK, Labels, Critical, NothingLeaks, InHand, Unlinked
<1>2. MaskedWhenCritical'
  BY DEF MaskedWhenCritical, Critical
<1>3. ListSound'
  BY <1>a, <1>b, <1>c, <1>d, <1>e, <1>f DEF ListSound
<1>4. NothingLeaks'
  BY DEF NothingLeaks, InHand, Unlinked, Queued
<1>5. ContextsAlive'
  BY DEF ContextsAlive
<1>6. Control'
  BY DEF Control, Dispatching, Idle, PostLabels
<1>7. TailSound'
  BY DEF TailSound
<1>8. PayloadSound'
  BY DEF PayloadSound
<1> QED  BY <1>1, <1>2, <1>3, <1>4, <1>5, <1>6, <1>7, <1>8 DEF IInv

LEMMA PopUnlinkInv == IInv /\ PopUnlink => IInv'
<1> SUFFICES ASSUME IInv, PopUnlink PROVE IInv'
  OBVIOUS
<1> USE NullAssumption, HandlersAssumption, MaxMessagesAssumption
    DEF IInv, PopUnlink, list, posting, looping
<1>a. /\ chain \in Seq(live) /\ chain # <<>> /\ Len(chain) \in Nat /\ Len(chain) >= 1 /\ msg = chain[1] /\ msg \in live
  BY EmptySeq DEF TypeOK, Control, Dispatching, Idle, PostLabels
<1>b. /\ chain' \in Seq(live) /\ Len(chain') = Len(chain) - 1
      /\ \A i \in 1..Len(chain') : chain'[i] = chain[i + 1]
  BY <1>a, HeadTailProperties
<1>c. chain' = <<>> <=> Len(chain) = 1
  <2>1. Len(chain') = 0 => chain' = <<>>
    BY <1>b, EmptySeq
  <2>2. chain' = <<>> => Len(chain') = 0
    OBVIOUS
  <2> QED  BY <1>a, <1>b, <2>1, <2>2
<1>d. next[msg] = IF Len(chain) = 1 THEN Null ELSE chain[2]
  <2>1. CASE Len(chain) = 1
    BY <1>a, <2>1 DEF TailSound
  <2>2. CASE Len(chain) > 1
    <3>1. 1 \in 1..(Len(chain) - 1)
      BY <1>a, <2>2
    <3> QED  BY <1>a, <2>2, <3>1 DEF ListSound
  <2>3. Len(chain) = 1 \/ Len(chain) > 1
    BY <1>a, OneOrMore
  <2> HIDE DEF PopUnlink, IInv
  <2> QED  BY <2>1, <2>2, <2>3
<1>e. chain' # <<>> => chain'[Len(chain')] = chain[Len(chain)] /\ chain'[1] = chain[2]
  BY <1>a, <1>b, <1>c
<1>f. \A i \in 2..Len(chain) : chain[i] # msg /\ chain[i] \in Node /\ chain[i] # Null
  BY <1>a DEF ListSound, TypeOK
<1>g. \A x : x \in Queued' <=> x \in Queued /\ x # msg
  <2>1. ASSUME NEW x \in Queued' PROVE x \in Queued /\ x # msg
    <3> PICK i \in 1..Len(chain') : x = chain[i + 1]
      BY <2>1, <1>b DEF Queued
    <3> QED  BY <1>a, <1>b, <1>f DEF Queued
  <2>2. ASSUME NEW x \in Queued, x # msg PROVE x \in Queued'
    <3> PICK i \in 1..Len(chain) : x = chain[i]
      BY <2>2 DEF Queued
    <3>1. i - 1 \in 1..Len(chain') /\ chain'[i - 1] = x
      BY <1>a, <1>b, <2>2
    <3> QED  BY <3>1 DEF Queued
  <2> QED  BY <2>1, <2>2
<1>1. TypeOK'
  BY <1>a, <1>b DEF TypeOK, Labels, Critical
<1>2. MaskedWhenCritical'
  BY DEF MaskedWhenCritical, Critical
<1>3. ListSound'
  <2>1. first' = IF chain' = <<>> THEN Null ELSE chain'[1]
    BY <1>a, <1>c, <1>d, <1>e
  <2>2. \A i \in 1..(Len(chain') - 1) : next'[chain'[i]] = chain'[i+1]
    BY <1>a, <1>b DEF ListSound
  <2>3. \A i, j \in 1..Len(chain') : chain'[i] = chain'[j] => i = j
    BY <1>a, <1>b DEF ListSound
  <2> QED  BY <2>1, <2>2, <2>3 DEF ListSound, MaskedWhenCritical, Critical
<1>4. NothingLeaks'
  <2>1. pc' # "pop_unlink" /\ InHand' = {msg} /\ Unlinked' = {} /\ InHand = {} /\ Unlinked = {}
    BY <1>a, NullAssumption DEF InHand, Unlinked, TypeOK
  <2>2. msg \in Queued
    BY <1>a DEF Queued
  <2> QED  BY <1>g, <2>1, <2>2 DEF NothingLeaks
<1>5. ContextsAlive'
  BY DEF ContextsAlive
<1>6. Control'
  <2>1. /\ pc' = "pop_clear" <=> Len(chain) = 1
        /\ pc' \in {"pop_clear", "pop_exit"}
    <3>1. Len(chain) # 1 => 2 \in 2..Len(chain)
      BY <1>a, OneOrMore
    <3> QED  BY <1>d, <1>f, <3>1
  <2> QED  BY <1>a, <1>c, <2>1 DEF TypeOK, Control, Dispatching, Idle, PostLabels
<1>7. TailSound'
  <2>1. /\ pc' = "pop_clear" <=> Len(chain) = 1
        /\ pc' \in {"pop_clear", "pop_exit"}
    <3>1. Len(chain) # 1 => 2 \in 2..Len(chain)
      BY <1>a, OneOrMore
    <3> QED  BY <1>d, <1>f, <3>1
  <2> QED  BY <1>a, <1>c, <1>e, <2>1 DEF TailSound
<1>8. PayloadSound'
  BY DEF PayloadSound
<1> QED  BY <1>1, <1>2, <1>3, <1>4, <1>5, <1>6, <1>7, <1>8 DEF IInv

LEMMA FreeContextInv == IInv /\ FreeContext => IInv'
<1> SUFFICES ASSUME IInv, FreeContext PROVE IInv'
  OBVIOUS
<1> USE NullAssumption, HandlersAssumption, MaxMessagesAssumption
    DEF IInv, FreeContext, list, posting, looping
<1>1. TypeOK'
  BY DEF TypeOK, Labels, Critical
<1>2. MaskedWhenCritical'
  BY DEF MaskedWhenCritical, Critical
<1>3. ListSound'
  BY DEF ListSound
<1>4. NothingLeaks'
  BY DEF NothingLeaks, InHand, Unlinked, Queued
<1>5. ContextsAlive'
  <2>1. msg \in live
    BY DEF TypeOK, Control, NothingLeaks, InHand, Dispatching
  <2>2. \A n \in live \ {msg} : context[n] \in heap \cup {Null} /\ (context[n] = context[msg] => context[n] = Null)
    BY <2>1 DEF ContextsAlive
  <2>3. \A n \in live \ {msg} : context[n] \in heap' \cup {Null}
    BY <2>1, <2>2
  <2> QED  BY <2>3 DEF ContextsAlive
<1>6. Control'
  BY DEF Control, Dispatching, Idle, PostLabels
<1>7. TailSound'
  BY DEF TailSound
<1>8. PayloadSound'
  BY DEF PayloadSound
<1> QED  BY <1>1, <1>2, <1>3, <1>4, <1>5, <1>6, <1>7, <1>8 DEF IInv

LEMMA FreeMessageInv == IInv /\ FreeMessage => IInv'
<1> SUFFICES ASSUME IInv, FreeMessage PROVE IInv'
  OBVIOUS
<1> USE NullAssumption, HandlersAssumption, MaxMessagesAssumption
    DEF IInv, FreeMessage, list, posting, looping
<1>1. TypeOK'
  <2>1. chain \in Seq(live) /\ msg \notin Queued /\ \A i \in 1..Len(chain) : chain[i] \in live
    BY DEF TypeOK, Control, NothingLeaks, InHand, Unlinked
  <2>2. chain \in Seq(live \ {msg})
    BY <2>1, SeqShrink DEF Queued
  <2> QED  BY <2>1, <2>2 DEF TypeOK, Control, Labels, Critical
<1>2. MaskedWhenCritical'
  BY DEF MaskedWhenCritical, Critical
<1>3. ListSound'
  BY DEF ListSound
<1>4. NothingLeaks'
  BY DEF NothingLeaks, InHand, Unlinked, Queued, TypeOK
<1>5. ContextsAlive'
  BY DEF ContextsAlive
<1>6. Control'
  BY DEF Control, Dispatching, Idle, PostLabels
<1>7. TailSound'
  BY DEF TailSound
<1>8. PayloadSound'
  BY DEF PayloadSound
<1> QED  BY <1>1, <1>2, <1>3, <1>4, <1>5, <1>6, <1>7, <1>8 DEF IInv

LEMMA PostAllocInv == IInv /\ PostAlloc => IInv'
<1> SUFFICES ASSUME IInv, PostAlloc PROVE IInv'
  OBVIOUS
<1> USE NullAssumption, HandlersAssumption, MaxMessagesAssumption
    DEF IInv, PostAlloc, list, posting, looping
<1> PICK n \in Node \ live : New(n, request) /\ next' = [next EXCEPT ![n] = Null] /\ fresh' = n
  OBVIOUS
<1>a. /\ live' = live \cup {n} /\ msgid' = [msgid EXCEPT ![n] = request.id]
      /\ context' = [context EXCEPT ![n] = request.context]
  BY DEF New
<1>b. request.id \in MsgIds /\ request.context \in Context \cup {Null}
  BY IdsAssumption DEF Accepts, TypeOK, Requests, MsgIds, NoMessage
<1>c. chain \in Seq(live) /\ (\A i \in 1..Len(chain) : chain[i] \in live /\ chain[i] # n) /\ chain' = chain
  BY DEF TypeOK
<1>d. chain \in Seq(live')
  BY <1>a, <1>c, SeqMonotonic
<1>e. \A m \in live : m \in Node /\ m # n /\ next'[m] = next[m] /\ msgid'[m] = msgid[m] /\ context'[m] = context[m]
  BY <1>a DEF TypeOK
<1>f. next'[n] = Null /\ msgid'[n] = request.id /\ context'[n] = request.context
  BY <1>a DEF TypeOK
<1>g. live = Queued \cup InHand
  BY DEF NothingLeaks, Unlinked
<1>h. chain # <<>> => Len(chain) \in 1..Len(chain)
  BY <1>c, EmptySeq
<1>i. chain # <<>> => next'[chain[Len(chain)]] = next[chain[Len(chain)]]
  BY <1>c, <1>e, <1>h
<1>j. chain = <<>> <=> first = Null
  BY <1>c, <1>h, NullAssumption DEF ListSound, TypeOK
<1>1. TypeOK'
  BY <1>a, <1>b, <1>d DEF TypeOK, Labels, Critical
<1>2. MaskedWhenCritical'
  BY DEF MaskedWhenCritical, Critical
<1>3. ListSound'
  <2>1. first' = IF chain' = <<>> THEN Null ELSE chain'[1]
    BY <1>c DEF ListSound
  <2>2. \A i \in 1..(Len(chain') - 1) : next'[chain'[i]] = chain'[i+1]
    BY <1>c, <1>e DEF ListSound
  <2> QED  BY <1>c, <2>1, <2>2 DEF ListSound, MaskedWhenCritical, Critical
<1>4. NothingLeaks'
  BY <1>a, <1>c, <1>g DEF NothingLeaks, InHand, Unlinked, Queued
<1>5. ContextsAlive'
  BY <1>a, <1>b, <1>e, <1>f DEF ContextsAlive, TypeOK, Control, NothingLeaks, InHand,
      Unlinked, Queued, PayloadSound, TailSound, ListSound
<1>6. Control'
  BY DEF Control, Dispatching, Idle, PostLabels, TypeOK, TailSound, ListSound
<1>7. TailSound'
  BY <1>c, <1>f, <1>i, <1>j DEF TailSound
<1>8. PayloadSound'
  BY <1>a, <1>b, <1>e, <1>f DEF PayloadSound
<1> QED  BY <1>1, <1>2, <1>3, <1>4, <1>5, <1>6, <1>7, <1>8 DEF IInv

LEMMA EnableInterruptsInv == IInv /\ EnableInterrupts => IInv'
<1> SUFFICES ASSUME IInv, EnableInterrupts PROVE IInv'
  OBVIOUS
<1> USE NullAssumption, HandlersAssumption, MaxMessagesAssumption
    DEF IInv, EnableInterrupts, list, posting, looping
<1>1. TypeOK'
  BY DEF TypeOK, Labels, Critical
<1>2. MaskedWhenCritical'
  BY DEF MaskedWhenCritical, Critical
<1>3. ListSound'
  BY DEF ListSound, TypeOK, Control, TailSound
<1>4. NothingLeaks'
  BY DEF NothingLeaks, InHand, Unlinked, Queued
<1>5. ContextsAlive'
  BY DEF ContextsAlive
<1>6. Control'
  BY DEF Control, Dispatching, Idle, PostLabels
<1>7. TailSound'
  BY DEF TailSound
<1>8. PayloadSound'
  BY DEF PayloadSound
<1> QED  BY <1>1, <1>2, <1>3, <1>4, <1>5, <1>6, <1>7, <1>8 DEF IInv

LEMMA PostRejectInv == IInv /\ PostReject => IInv'
<1> SUFFICES ASSUME IInv, PostReject PROVE IInv'
  OBVIOUS
<1> USE NullAssumption, HandlersAssumption, MaxMessagesAssumption
    DEF IInv, PostReject, list, posting, looping
<1>1. TypeOK'
  BY DEF TypeOK, Labels, Critical
<1>2. MaskedWhenCritical'
  BY DEF MaskedWhenCritical, Critical
<1>3. ListSound'
  BY DEF ListSound
<1>4. NothingLeaks'
  BY DEF NothingLeaks, InHand, Unlinked, Queued
<1>5. ContextsAlive'
  BY DEF ContextsAlive
<1>6. Control'
  BY DEF Control, Dispatching, Idle, PostLabels
<1>7. TailSound'
  BY DEF TailSound
<1>8. PayloadSound'
  BY DEF PayloadSound
<1> QED  BY <1>1, <1>2, <1>3, <1>4, <1>5, <1>6, <1>7, <1>8 DEF IInv

LEMMA PostEmptyInv == IInv /\ PostEmpty => IInv'
<1> SUFFICES ASSUME IInv, PostEmpty PROVE IInv'
  OBVIOUS
<1> USE NullAssumption, HandlersAssumption, MaxMessagesAssumption
    DEF IInv, PostEmpty, list, posting, looping
<1>1. TypeOK'
  BY DEF TypeOK, Labels, Critical
<1>2. MaskedWhenCritical'
  BY DEF MaskedWhenCritical, Critical
<1>3. ListSound'
  BY DEF ListSound, MaskedWhenCritical, Critical
<1>4. NothingLeaks'
  BY DEF NothingLeaks, InHand, Unlinked, Queued
<1>5. ContextsAlive'
  BY DEF ContextsAlive
<1>6. Control'
  BY DEF Control, Dispatching, Idle, PostLabels
<1>7. TailSound'
  BY DEF TailSound
<1>8. PayloadSound'
  BY DEF PayloadSound
<1> QED  BY <1>1, <1>2, <1>3, <1>4, <1>5, <1>6, <1>7, <1>8 DEF IInv

LEMMA PostHeadInv == IInv /\ PostHead => IInv'
<1> SUFFICES ASSUME IInv, PostHead PROVE IInv'
  OBVIOUS
<1> USE NullAssumption, HandlersAssumption, MaxMessagesAssumption
    DEF IInv, PostHead, list, posting, looping
<1>1. TypeOK'
  BY DEF TypeOK, Labels, Critical, NothingLeaks, InHand, Unlinked
<1>2. MaskedWhenCritical'
  BY DEF MaskedWhenCritical, Critical
<1>3. ListSound'
  BY DEF ListSound, TypeOK, Control, TailSound
<1>4. NothingLeaks'
  BY DEF NothingLeaks, InHand, Unlinked, Queued
<1>5. ContextsAlive'
  BY DEF ContextsAlive
<1>6. Control'
  BY DEF Control, Dispatching, Idle, PostLabels
<1>7. TailSound'
  BY DEF TailSound
<1>8. PayloadSound'
  BY DEF PayloadSound
<1> QED  BY <1>1, <1>2, <1>3, <1>4, <1>5, <1>6, <1>7, <1>8 DEF IInv

LEMMA PostExitInv == IInv /\ PostExit => IInv'
<1> SUFFICES ASSUME IInv, PostExit PROVE IInv'
  OBVIOUS
<1> USE NullAssumption, HandlersAssumption, MaxMessagesAssumption
    DEF IInv, PostExit, list, posting, looping
<1>1. TypeOK'
  BY DEF TypeOK, Labels, Critical, Requests, NoRequest, MsgIds, NoMessage
<1>2. MaskedWhenCritical'
  BY DEF MaskedWhenCritical, Critical, TypeOK
<1>3. ListSound'
  BY DEF ListSound, TypeOK, Control, TailSound
<1>4. NothingLeaks'
  BY DEF NothingLeaks, InHand, Unlinked, Queued, TypeOK
<1>5. ContextsAlive'
  BY DEF ContextsAlive
<1>6. Control'
  BY DEF Control, Dispatching, Idle, PostLabels, TypeOK
<1>7. TailSound'
  BY DEF TailSound, TypeOK
<1>8. PayloadSound'
  BY DEF PayloadSound, TypeOK
<1> QED  BY <1>1, <1>2, <1>3, <1>4, <1>5, <1>6, <1>7, <1>8 DEF IInv

LEMMA LoopCallInv == IInv /\ LoopCall => IInv'
<1> SUFFICES ASSUME IInv, LoopCall PROVE IInv'
  OBVIOUS
<1> USE NullAssumption, HandlersAssumption, MaxMessagesAssumption
    DEF IInv, LoopCall, list, posting, looping
<1>1. TypeOK'
  BY DEF TypeOK, Labels, Critical
<1>2. MaskedWhenCritical'
  BY DEF MaskedWhenCritical, Critical
<1>3. ListSound'
  BY DEF ListSound
<1>4. NothingLeaks'
  BY DEF NothingLeaks, InHand, Unlinked, Queued
<1>5. ContextsAlive'
  BY DEF ContextsAlive
<1>6. Control'
  BY DEF Control, Dispatching, Idle, PostLabels
<1>7. TailSound'
  BY DEF TailSound
<1>8. PayloadSound'
  BY DEF PayloadSound
<1> QED  BY <1>1, <1>2, <1>3, <1>4, <1>5, <1>6, <1>7, <1>8 DEF IInv

LEMMA LoopReturnInv == IInv /\ LoopReturn => IInv'
<1> SUFFICES ASSUME IInv, LoopReturn PROVE IInv'
  OBVIOUS
<1> USE NullAssumption, HandlersAssumption, MaxMessagesAssumption
    DEF IInv, LoopReturn, list, posting, looping
<1>1. TypeOK'
  BY DEF TypeOK, Labels, Critical
<1>2. MaskedWhenCritical'
  BY DEF MaskedWhenCritical, Critical
<1>3. ListSound'
  BY DEF ListSound
<1>4. NothingLeaks'
  BY DEF NothingLeaks, InHand, Unlinked, Queued
<1>5. ContextsAlive'
  BY DEF ContextsAlive
<1>6. Control'
  BY DEF Control, Dispatching, Idle, PostLabels
<1>7. TailSound'
  BY DEF TailSound
<1>8. PayloadSound'
  BY DEF PayloadSound
<1> QED  BY <1>1, <1>2, <1>3, <1>4, <1>5, <1>6, <1>7, <1>8 DEF IInv

LEMMA PopEnterInv == IInv /\ PopEnter => IInv'
<1> SUFFICES ASSUME IInv, PopEnter PROVE IInv'
  OBVIOUS
<1> USE NullAssumption, HandlersAssumption, MaxMessagesAssumption
    DEF IInv, PopEnter, list, posting, looping
<1>1. TypeOK'
  BY DEF TypeOK, Labels, Critical
<1>2. MaskedWhenCritical'
  BY DEF MaskedWhenCritical, Critical
<1>3. ListSound'
  BY DEF ListSound
<1>4. NothingLeaks'
  BY DEF NothingLeaks, InHand, Unlinked, Queued
<1>5. ContextsAlive'
  BY DEF ContextsAlive
<1>6. Control'
  BY DEF Control, Dispatching, Idle, PostLabels
<1>7. TailSound'
  BY DEF TailSound
<1>8. PayloadSound'
  BY DEF PayloadSound
<1> QED  BY <1>1, <1>2, <1>3, <1>4, <1>5, <1>6, <1>7, <1>8 DEF IInv

LEMMA PopReadInv == IInv /\ PopRead => IInv'
<1> SUFFICES ASSUME IInv, PopRead PROVE IInv'
  OBVIOUS
<1> USE NullAssumption, HandlersAssumption, MaxMessagesAssumption
    DEF IInv, PopRead, list, posting, looping
<1>1. TypeOK'
  BY DEF TypeOK, Labels, Critical
<1>2. MaskedWhenCritical'
  BY DEF MaskedWhenCritical, Critical
<1>3. ListSound'
  BY DEF ListSound
<1>4. NothingLeaks'
  BY DEF NothingLeaks, InHand, Unlinked, Queued, TypeOK, Control, Dispatching, Idle,
      PostLabels
<1>5. ContextsAlive'
  BY DEF ContextsAlive
<1>6. Control'
  BY DEF Control, Dispatching, Idle, PostLabels, TypeOK, TailSound, ListSound
<1>7. TailSound'
  BY DEF TailSound
<1>8. PayloadSound'
  BY DEF PayloadSound
<1> QED  BY <1>1, <1>2, <1>3, <1>4, <1>5, <1>6, <1>7, <1>8 DEF IInv

LEMMA PopClearInv == IInv /\ PopClear => IInv'
<1> SUFFICES ASSUME IInv, PopClear PROVE IInv'
  OBVIOUS
<1> USE NullAssumption, HandlersAssumption, MaxMessagesAssumption
    DEF IInv, PopClear, list, posting, looping
<1>1. TypeOK'
  BY DEF TypeOK, Labels, Critical
<1>2. MaskedWhenCritical'
  BY DEF MaskedWhenCritical, Critical
<1>3. ListSound'
  BY DEF ListSound, Control
<1>4. NothingLeaks'
  BY DEF NothingLeaks, InHand, Unlinked, Queued
<1>5. ContextsAlive'
  BY DEF ContextsAlive
<1>6. Control'
  BY DEF Control, Dispatching, Idle, PostLabels
<1>7. TailSound'
  BY DEF TailSound, Control
<1>8. PayloadSound'
  BY DEF PayloadSound
<1> QED  BY <1>1, <1>2, <1>3, <1>4, <1>5, <1>6, <1>7, <1>8 DEF IInv

LEMMA PopExitInv == IInv /\ PopExit => IInv'
<1> SUFFICES ASSUME IInv, PopExit PROVE IInv'
  OBVIOUS
<1> USE NullAssumption, HandlersAssumption, MaxMessagesAssumption
    DEF IInv, PopExit, list, posting, looping
<1>1. TypeOK'
  BY DEF TypeOK, Labels, Critical, Control
<1>2. MaskedWhenCritical'
  BY DEF MaskedWhenCritical, Critical
<1>3. ListSound'
  BY DEF ListSound, TypeOK, Control, TailSound
<1>4. NothingLeaks'
  BY DEF NothingLeaks, InHand, Unlinked, Queued
<1>5. ContextsAlive'
  BY DEF ContextsAlive
<1>6. Control'
  BY DEF Control, Dispatching, Idle, PostLabels, TypeOK
<1>7. TailSound'
  BY DEF TailSound
<1>8. PayloadSound'
  BY DEF PayloadSound
<1> QED  BY <1>1, <1>2, <1>3, <1>4, <1>5, <1>6, <1>7, <1>8 DEF IInv

LEMMA CallHandlerInv == IInv /\ CallHandler => IInv'
<1> SUFFICES ASSUME IInv, CallHandler PROVE IInv'
  OBVIOUS
<1> USE NullAssumption, HandlersAssumption, MaxMessagesAssumption
    DEF IInv, CallHandler, list, posting, looping
<1>1. TypeOK'
  BY DEF TypeOK, Labels, Critical
<1>2. MaskedWhenCritical'
  BY DEF MaskedWhenCritical, Critical
<1>3. ListSound'
  BY DEF ListSound
<1>4. NothingLeaks'
  BY DEF NothingLeaks, InHand, Unlinked, Queued
<1>5. ContextsAlive'
  BY DEF ContextsAlive
<1>6. Control'
  BY DEF Control, Dispatching, Idle, PostLabels
<1>7. TailSound'
  BY DEF TailSound
<1>8. PayloadSound'
  BY DEF PayloadSound
<1> QED  BY <1>1, <1>2, <1>3, <1>4, <1>5, <1>6, <1>7, <1>8 DEF IInv

LEMMA HandlerReturnInv == IInv /\ HandlerReturn => IInv'
<1> SUFFICES ASSUME IInv, HandlerReturn PROVE IInv'
  OBVIOUS
<1> USE NullAssumption, HandlersAssumption, MaxMessagesAssumption
    DEF IInv, HandlerReturn, list, posting, looping
<1>1. TypeOK'
  BY DEF TypeOK, Labels, Critical
<1>2. MaskedWhenCritical'
  BY DEF MaskedWhenCritical, Critical
<1>3. ListSound'
  BY DEF ListSound
<1>4. NothingLeaks'
  BY DEF NothingLeaks, InHand, Unlinked, Queued
<1>5. ContextsAlive'
  BY DEF ContextsAlive
<1>6. Control'
  BY DEF Control, Dispatching, Idle, PostLabels
<1>7. TailSound'
  BY DEF TailSound
<1>8. PayloadSound'
  BY DEF PayloadSound
<1> QED  BY <1>1, <1>2, <1>3, <1>4, <1>5, <1>6, <1>7, <1>8 DEF IInv

LEMMA PostEnterInv ==
  ASSUME IInv, NEW req \in Requests(TaskIds), PostEnter(req)
  PROVE  IInv'
<1> USE NullAssumption, HandlersAssumption, MaxMessagesAssumption
    DEF IInv, PostEnter, list, posting, looping
<1>a. req \in Requests({id \in Int : id >= NoMessage}) /\ req.context \in Context \cup {Null}
  BY IdsAssumption DEF Requests
<1>b. /\ heap \subseteq heap' /\ heap' \subseteq Context
      /\ req.context \in heap' \cup {Null}
      /\ \A n \in live : context[n] = req.context => req.context = Null
  BY <1>a DEF Allocated, HeapWith, TypeOK, ContextsAlive, Control, Dispatching, Idle,
       PostLabels
<1>c. live' = live /\ next' = next /\ msgid' = msgid /\ context' = context /\ chain' = chain /\ first' = first /\ last' = last
  OBVIOUS
<1>1. TypeOK'
  <2>1. pc' \in Labels /\ caller' \in {"task", "handler"}
    BY DEF Labels, Critical
  <2>2. ie' \in BOOLEAN /\ budget' \in 0..MaxMessages /\ cur' \in Nat
    BY DEF TypeOK
  <2>3. {first', last', fresh', msg'} \subseteq Node \cup {Null}
    BY DEF TypeOK
  <2> QED  BY <1>a, <1>b, <1>c, <2>1, <2>2, <2>3 DEF TypeOK
<1>2. MaskedWhenCritical'
  BY DEF MaskedWhenCritical, Critical
<1>3. ListSound'
  BY DEF ListSound
<1>4. NothingLeaks'
  BY DEF NothingLeaks, InHand, Unlinked, Queued
<1>5. ContextsAlive'
  <2>1. pc # "delete" /\ pc' # "delete"
    OBVIOUS
  <2>2. /\ \A n \in live : context[n] \in heap \cup {Null}
        /\ \A n, m \in live : context[n] = context[m] => n = m \/ context[n] = Null
    BY <2>1 DEF ContextsAlive
  <2>3. \A n \in live : context[n] \in heap' \cup {Null}
    BY <1>b, <2>2
  <2> QED  BY <1>c, <2>1, <2>2, <2>3 DEF ContextsAlive
<1>6. Control'
  BY DEF Control, Dispatching, Idle, PostLabels
<1>7. TailSound'
  BY DEF TailSound
<1>8. PayloadSound'
  BY <1>b DEF PayloadSound
<1> QED  BY <1>1, <1>2, <1>3, <1>4, <1>5, <1>6, <1>7, <1>8 DEF IInv

LEMMA IsrRejectInv ==
  ASSUME IInv, NEW req \in Requests(IsrIds), IsrPost(req), IsrReject(req)
  PROVE  IInv'
<1> USE NullAssumption, HandlersAssumption, MaxMessagesAssumption
    DEF IInv, IsrPost, IsrReject, list, posting, looping
<1>b. heap \subseteq heap' /\ heap' \subseteq Context /\ pc # "post_alloc"
  BY DEF Requests, HeapWith, TypeOK, MaskedWhenCritical, Critical
<1>1. TypeOK'
  <2>1. {first', last', fresh', msg'} \subseteq Node \cup {Null}
    BY DEF TypeOK
  <2>2. ie' \in BOOLEAN /\ pc' \in Labels
    BY DEF TypeOK
  <2> QED  BY <1>b, <2>1, <2>2 DEF TypeOK
<1>2. MaskedWhenCritical'
  BY DEF MaskedWhenCritical, Critical
<1>3. ListSound'
  BY DEF ListSound
<1>4. NothingLeaks'
  BY DEF NothingLeaks, InHand, Unlinked, Queued
<1>5. ContextsAlive'
  <2> DEFINE Holding == IF pc = "delete" THEN live \ {msg} ELSE live
  <2>1. \A n \in Holding : context[n] \in heap \cup {Null}
    BY DEF ContextsAlive
  <2> HIDE DEF Holding
  <2>2. \A n \in Holding : context[n] \in heap' \cup {Null}
    BY <1>b, <2>1
  <2> QED  BY <2>2 DEF ContextsAlive, Holding
<1>6. Control'
  BY DEF Control, Dispatching, Idle, PostLabels
<1>7. TailSound'
  BY DEF TailSound
<1>8. PayloadSound'
  BY DEF PayloadSound, MaskedWhenCritical, Critical
<1> QED  BY <1>1, <1>2, <1>3, <1>4, <1>5, <1>6, <1>7, <1>8 DEF IInv

LEMMA IsrAppendInv ==
  ASSUME IInv, NEW req \in Requests(IsrIds), IsrPost(req), IsrAppend(req)
  PROVE  IInv'
<1> USE NullAssumption, HandlersAssumption, MaxMessagesAssumption
    DEF IInv, IsrPost, IsrAppend, list, posting, looping
<1>p. pc \in {"task", "handler", "loop", "dispatch", "delete"} /\ InHand' = InHand /\ Unlinked = {} /\ Unlinked' = {}
  BY DEF MaskedWhenCritical, TypeOK, Labels, Critical, Unlinked, InHand
<1> PICK n \in Node \ live :
         /\ New(n, req)
         /\ IF first = Null
              THEN /\ first' = n
                   /\ next' = [next EXCEPT ![n] = Null]
              ELSE /\ first' = first
                   /\ next' = [next EXCEPT ![n] = Null, ![last] = n]
         /\ last' = n
         /\ chain' = Append(chain, n)
  OBVIOUS
<1>a. /\ live' = live \cup {n} /\ msgid' = [msgid EXCEPT ![n] = req.id]
      /\ context' = [context EXCEPT ![n] = req.context]
  BY DEF New
<1>b. /\ req.id \in MsgIds /\ req.context \in Context \cup {Null}
      /\ heap \subseteq heap' /\ heap' \subseteq Context
      /\ req.context \in heap' \cup {Null}
      /\ \A m \in live : context[m] \in heap \cup {Null} => (context[m] = req.context => req.context = Null)
  <2>1. req.id \in Int /\ req.id >= NoMessage /\ req.context \in Context \cup {Null}
    BY IdsAssumption DEF Requests
  <2>2. req.id \in MsgIds
    BY <2>1, IdsAssumption DEF Accepts, MsgIds, NoMessage
  <2>3. heap' = HeapWith(req) /\ heap \subseteq Context /\ (req.context # Null => req.context \notin heap)
    BY DEF Allocated, TypeOK
  <2>4. heap \subseteq heap' /\ heap' \subseteq Context /\ req.context \in heap' \cup {Null}
    BY <2>1, <2>3 DEF HeapWith
  <2> QED  BY <2>1, <2>2, <2>3, <2>4
<1>c. /\ chain \in Seq(live) /\ Len(chain) \in Nat
      /\ \A i \in 1..Len(chain) : chain[i] \in live /\ chain[i] # n
  BY DEF TypeOK
<1>d. chain \in Seq(live')
  BY <1>a, <1>c, SeqMonotonic
<1>e. /\ chain' \in Seq(live') /\ Len(chain') = Len(chain) + 1 /\ chain'[Len(chain) + 1] = n /\ chain' # <<>>
      /\ \A i \in 1..Len(chain) : chain'[i] = chain[i]
  BY <1>a, <1>d, AppendFacts
<1>f. \A m \in live : m \in Node /\ m # n /\ msgid'[m] = msgid[m] /\ context'[m] = context[m]
  BY <1>a DEF TypeOK
<1>g. msgid'[n] = req.id /\ context'[n] = req.context
  BY <1>a DEF TypeOK
<1>h. chain = <<>> <=> first = Null
  BY <1>c, EmptySeq, NullAssumption DEF ListSound, TypeOK
<1>i. chain # <<>> => Len(chain) \in 1..Len(chain) /\ last = chain[Len(chain)] /\ last \in live /\ last # n
  BY <1>c, EmptySeq DEF ListSound
<1>j. next'[n] = Null
  BY <1>h, <1>i DEF TypeOK
<1>k. \A i \in 1..(Len(chain) - 1) : next'[chain[i]] = chain[i + 1]
  <2> SUFFICES ASSUME NEW i \in 1..(Len(chain) - 1) PROVE next'[chain[i]] = chain[i + 1]
    OBVIOUS
  <2>1. chain # <<>> /\ chain[i] # last /\ chain[i] # n /\ chain[i] \in Node
    BY <1>c, <1>f, <1>i DEF ListSound
  <2>2. next'[chain[i]] = next[chain[i]]
    BY <2>1, <1>h DEF TypeOK
  <2> QED  BY <2>2 DEF ListSound
<1>l. chain # <<>> => next'[chain[Len(chain)]] = n
  BY <1>f, <1>h, <1>i DEF TypeOK
<1>m. \A x : x \in Queued' <=> x \in Queued \/ x = n
  <2>1. ASSUME NEW x \in Queued' PROVE x \in Queued \/ x = n
    <3> PICK i \in 1..(Len(chain) + 1) : x = chain'[i]
      BY <1>e, <2>1 DEF Queued
    <3>1. CASE i = Len(chain) + 1
      BY <1>e, <3>1
    <3>2. CASE i \in 1..Len(chain)
      BY <1>e, <3>2 DEF Queued
    <3> QED  BY <1>c, <3>1, <3>2
  <2>2. ASSUME NEW x \in Queued PROVE x \in Queued'
    <3> PICK i \in 1..Len(chain) : x = chain[i]
      BY <2>2 DEF Queued
    <3>1. i \in 1..Len(chain') /\ chain'[i] = x
      BY <1>c, <1>e
    <3> QED  BY <3>1 DEF Queued
  <2>3. n \in Queued'
    BY <1>c, <1>e DEF Queued
  <2> QED  BY <2>1, <2>2, <2>3
<1>1. TypeOK'
  <2>1. next' \in [Node -> Node \cup {Null}]
    BY DEF TypeOK
  <2>2. context' \in [Node -> Context \cup {Null}] /\ msgid' \in [Node -> MsgIds \cup {NoMessage}]
    BY <1>a, <1>b DEF TypeOK
  <2>3. {first', last', fresh', msg'} \subseteq Node \cup {Null}
    BY DEF TypeOK
  <2> QED  BY <1>a, <1>b, <1>e, <2>1, <2>2, <2>3 DEF TypeOK
<1>2. MaskedWhenCritical'
  BY DEF MaskedWhenCritical, Critical
<1>3. ListSound'
  <2>1. first' = chain'[1]
    BY <1>c, <1>e, <1>h, <1>i DEF ListSound
  <2>2. \A i \in 1..(Len(chain') - 1) : next'[chain'[i]] = chain'[i + 1]
    <3> SUFFICES ASSUME NEW i \in 1..Len(chain) PROVE next'[chain'[i]] = chain'[i + 1]
      BY <1>c, <1>e
    <3>1. CASE i = Len(chain)
      BY <1>c, <1>e, <1>i, <1>l, <3>1
    <3>2. CASE i \in 1..(Len(chain) - 1)
      BY <1>c, <1>e, <1>k, <3>2
    <3> QED  BY <1>c, <3>1, <3>2
  <2>3. \A i, j \in 1..Len(chain') : chain'[i] = chain'[j] => i = j
    BY <1>c, <1>e DEF ListSound
  <2>4. last' = chain'[Len(chain')] /\ next'[last'] = Null
    BY <1>c, <1>e, <1>j
  <2> QED  BY <1>e, <2>1, <2>2, <2>3, <2>4 DEF ListSound
<1>4. NothingLeaks'
  <2>1. n \notin InHand
    BY <1>p DEF NothingLeaks
  <2> QED  BY <1>a, <1>m, <1>p, <2>1 DEF NothingLeaks
<1>5. ContextsAlive'
  <2> DEFINE Holding == IF pc = "delete" THEN live \ {msg} ELSE live
  <2>1. /\ Holding' \subseteq Holding \cup {n}
        /\ \A m \in Holding : m \in live /\ context[m] \in heap \cup {Null}
        /\ \A m1, m2 \in Holding : context[m1] = context[m2] => m1 = m2 \/ context[m1] = Null
    BY <1>a DEF ContextsAlive
  <2> HIDE DEF Holding
  <2>2. \A m \in Holding : context'[m] = context[m] /\ context[m] \in heap' \cup {Null} /\ (context[m] = req.context => context[m] = Null)
    BY <1>b, <1>f, <2>1
  <2>3. /\ \A m \in Holding' : context'[m] \in heap' \cup {Null}
        /\ \A m1, m2 \in Holding' : context'[m1] = context'[m2] => m1 = m2 \/ context'[m1] = Null
    BY <1>b, <1>g, <2>1, <2>2
  <2> QED  BY <2>3 DEF ContextsAlive, Holding
<1>6. Control'
  BY <1>e, <1>f, <1>p DEF Control, Dispatching, Idle, PostLabels, NothingLeaks, InHand,
      Unlinked
<1>7. TailSound'
  <2>1. last' = chain'[Len(chain')] /\ next'[chain'[Len(chain')]] = Null
    BY <1>c, <1>e, <1>j
  <2> QED  BY <1>e, <1>p, <2>1 DEF TailSound
<1>8. PayloadSound'
  BY <1>a, <1>b, <1>f, <1>g, <1>p DEF PayloadSound
<1> QED  BY <1>1, <1>2, <1>3, <1>4, <1>5, <1>6, <1>7, <1>8 DEF IInv

LEMMA StutterInv ==
  ASSUME IInv, UNCHANGED vars
  PROVE  IInv'
  BY DEF vars, list, posting, looping, IInv, TypeOK, MaskedWhenCritical, ListSound,
     NothingLeaks, ContextsAlive, Control, TailSound, PayloadSound, InHand,
     Unlinked, Queued, Dispatching, Idle

LEMMA NextInv == IInv /\ [Next]_vars => IInv'
<1> SUFFICES ASSUME IInv, [Next]_vars PROVE IInv'
  OBVIOUS
<1>1. CASE PostSteps
  BY <1>1, PostRejectInv, PostAllocInv, PostEmptyInv, PostHeadInv, PostTailInv,
     PostLastInv, PostExitInv DEF PostSteps
<1>2. CASE LoopSteps
  BY <1>2, LoopReturnInv, PopEnterInv, PopReadInv, PopUnlinkInv, PopClearInv,
     PopExitInv, CallHandlerInv, FreeContextInv, FreeMessageInv DEF LoopSteps
<1>3. CASE EnableInterrupts \/ LoopCall \/ HandlerReturn
  BY <1>3, EnableInterruptsInv, LoopCallInv, HandlerReturnInv
<1>4. ASSUME NEW req \in Requests(TaskIds), PostEnter(req) PROVE IInv'
  BY <1>4, PostEnterInv
<1>5. ASSUME NEW req \in Requests(IsrIds), IsrPost(req) PROVE IInv'
  <2>1. IsrReject(req) \/ IsrAppend(req)
    BY <1>5 DEF IsrPost
  <2> QED  BY <1>5, <2>1, IsrRejectInv, IsrAppendInv
<1>6. CASE UNCHANGED vars
  BY <1>6, StutterInv
<1> QED  BY <1>1, <1>2, <1>3, <1>4, <1>5, <1>6 DEF Next

\* The inductive invariant holds in every state of every behaviour.
THEOREM Invariance == Spec => []IInv
  BY InitInv, NextInv, PTL DEF Spec

-----------------------------------------------------------------------------
\* The queue's variables keep their types; every queued id indexes QueueBlock.
THEOREM TypeCorrect == Spec => []TypeOK
<1>1. IInv => TypeOK
  BY DEF IInv
<1> QED  BY <1>1, Invariance, PTL

\* No interrupt can arrive while the main thread is changing the list.
THEOREM CriticalSectionsMasked == Spec => []MaskedWhenCritical
<1>1. IInv => MaskedWhenCritical
  BY DEF IInv
<1> QED  BY <1>1, Invariance, PTL

\* The pointers always spell the queue in the order of the posts.
THEOREM ListAlwaysSound == Spec => []ListSound
<1>1. IInv => ListSound
  BY DEF IInv
<1> QED  BY <1>1, Invariance, PTL

\* Every MESSAGE is freed exactly once and never reachable after it.
THEOREM NothingEverLeaks == Spec => []NothingLeaks
<1>1. IInv => NothingLeaks
  BY DEF IInv
<1> QED  BY <1>1, Invariance, PTL

\* A context the queue owns lives until its handlers have all returned.
THEOREM ContextsStayAlive == Spec => []ContextsAlive
<1>1. IInv => ContextsAlive
  BY DEF IInv
<1> QED  BY <1>1, Invariance, PTL

-----------------------------------------------------------------------------
(***************************************************************************)
(* The list implements the queue of MessageFifo.                           *)
(***************************************************************************)
Ids == [i \in 1..Len(chain) |-> msgid[chain[i]]]
InHandId == IF msg = Null \/ pc = "pop_unlink" THEN NoMessage ELSE msgid[msg]

LEMMA IdsSeq ==
  ASSUME IInv
  PROVE  Ids \in Seq(MsgIds) /\ Len(Ids) = Len(chain)
<1>1. Len(chain) \in Nat /\ \A i \in 1..Len(chain) : chain[i] \in live
  BY DEF IInv, TypeOK
<1>2. Ids \in [1..Len(chain) -> MsgIds]
  BY <1>1 DEF Ids, IInv, PayloadSound
<1> QED  BY <1>1, <1>2, SeqDef

\* Linking a MESSAGE whose id is set and that was not in the list appends its
\* id; every other id in the list stays what it was.
LEMMA IdsAppend ==
  ASSUME IInv, IInv', NEW n, chain' = Append(chain, n), n \in live',
         \A m \in live : msgid'[m] = msgid[m]
  PROVE  Ids' = Append(Ids, msgid'[n]) /\ msgid'[n] \in MsgIds
<1>1. /\ chain \in Seq(live) /\ Len(chain) \in Nat
      /\ \A i \in 1..Len(chain) : chain[i] \in live
  BY DEF IInv, TypeOK
<1>2. msgid'[n] \in MsgIds
  BY DEF IInv, PayloadSound
<1>3. Ids \in Seq(MsgIds) /\ Len(Ids) = Len(chain)
  BY IdsSeq
<1>4. /\ Append(Ids, msgid'[n]) \in Seq(MsgIds)
      /\ Len(Append(Ids, msgid'[n])) = Len(chain) + 1
      /\ \A i \in 1..Len(chain) : Append(Ids, msgid'[n])[i] = Ids[i]
      /\ Append(Ids, msgid'[n])[Len(chain) + 1] = msgid'[n]
  BY <1>2, <1>3, AppendFacts
<1>5. Ids' \in Seq(MsgIds) /\ Len(Ids') = Len(chain')
  <2>1. Len(chain') \in Nat /\ \A i \in 1..Len(chain') : chain'[i] \in live'
    BY DEF IInv, TypeOK
  <2>2. Ids' \in [1..Len(chain') -> MsgIds]
    BY <2>1 DEF Ids, IInv, PayloadSound
  <2> QED  BY <2>1, <2>2, SeqDef
<1>6. /\ Len(chain') = Len(chain) + 1 /\ chain'[Len(chain) + 1] = n
      /\ \A i \in 1..Len(chain) : chain'[i] = chain[i]
  BY <1>1, AppendFacts, SeqMonotonic
<1>7. \A i \in 1..Len(chain) : Ids'[i] = Ids[i]
  BY <1>1, <1>6 DEF Ids
<1>8. Ids'[Len(chain) + 1] = msgid'[n]
  BY <1>1, <1>6 DEF Ids
<1>9. \A i \in 1..Len(Ids') : Ids'[i] = Append(Ids, msgid'[n])[i]
  <2> SUFFICES ASSUME NEW i \in 1..(Len(chain) + 1)
               PROVE  Ids'[i] = Append(Ids, msgid'[n])[i]
    BY <1>5, <1>6
  <2>1. CASE i = Len(chain) + 1
    BY <1>4, <1>8, <2>1
  <2>2. CASE i \in 1..Len(chain)
    BY <1>4, <1>7, <2>2
  <2> QED  BY <1>1, <2>1, <2>2, UpToNext
<1> QED  BY <1>2, <1>4, <1>5, <1>6, <1>9, SeqEqual

\* Unlinking the first MESSAGE removes its id.
LEMMA IdsTail ==
  ASSUME IInv, chain # <<>>, chain' = Tail(chain), msgid' = msgid
  PROVE  Ids # <<>> /\ Head(Ids) = msgid[chain[1]] /\ Ids' = Tail(Ids)
<1>1. /\ chain \in Seq(live) /\ Len(chain) \in Nat /\ Len(chain) # 0
  BY EmptySeq DEF IInv, TypeOK
<1>2. Ids \in Seq(MsgIds) /\ Len(Ids) = Len(chain) /\ Ids # <<>>
  BY <1>1, IdsSeq
<1>3. /\ Tail(Ids) \in Seq(MsgIds) /\ Len(Tail(Ids)) = Len(chain) - 1
      /\ \A i \in 1..(Len(chain) - 1) : Tail(Ids)[i] = Ids[i + 1]
  BY <1>2, HeadTailProperties
<1>4. /\ Len(chain') = Len(chain) - 1
      /\ \A i \in 1..(Len(chain) - 1) : chain'[i] = chain[i + 1]
  BY <1>1, HeadTailProperties
<1>5. Ids' = [i \in 1..(Len(chain) - 1) |-> Ids[i + 1]]
  BY <1>1, <1>4 DEF Ids
<1>6. Ids' \in Seq(MsgIds) /\ Len(Ids') = Len(chain) - 1
  <2>1. Len(chain) - 1 \in Nat /\ \A i \in 1..(Len(chain) - 1) : Ids[i + 1] \in MsgIds
    BY <1>1, <1>2
  <2>2. Ids' \in [1..(Len(chain) - 1) -> MsgIds]
    BY <1>5, <2>1
  <2> QED  BY <2>1, <2>2, SeqDef
<1>8. \A i \in 1..Len(Ids') : Ids'[i] = Tail(Ids)[i]
  BY <1>3, <1>5, <1>6
<1>7. Head(Ids) = msgid[chain[1]]
  BY <1>1, <1>2 DEF Ids
<1>9. Ids' = Tail(Ids)
  BY <1>3, <1>6, <1>8, SeqEqual
<1> QED  BY <1>2, <1>7, <1>9

LEMMA FifoInit == Init => Fifo!Init
  BY DEF Init, Fifo!Init

\* Each step of the list is one step of the queue, or none.
LEMMA FifoStep ==
  ASSUME IInv, IInv', [Next]_vars
  PROVE  [Fifo!Next]_Fifo!vars
<1> USE NullAssumption
<1>0. /\ Ids = [i \in 1..Len(chain) |-> msgid[chain[i]]]
      /\ InHandId = IF msg = Null \/ pc = "pop_unlink" THEN NoMessage ELSE msgid[msg]
  BY DEF Ids, InHandId
<1> SUFFICES \/ \E id \in MsgIds : Ids' = Append(Ids, id) /\ InHandId' = InHandId /\ cur' = cur
             \/ InHandId = NoMessage /\ Ids # <<>> /\ InHandId' = Head(Ids)
                  /\ Ids' = Tail(Ids) /\ cur' = cur
             \/ InHandId # NoMessage /\ cur < Handlers[InHandId] /\ cur' = cur + 1
                  /\ Ids' = Ids /\ InHandId' = InHandId
             \/ InHandId # NoMessage /\ cur = Handlers[InHandId] /\ cur' = 0
                  /\ InHandId' = NoMessage /\ Ids' = Ids
             \/ Ids' = Ids /\ InHandId' = InHandId /\ cur' = cur
  BY DEF Fifo!Next, Fifo!vars, Fifo!Accept, Fifo!Take, Fifo!Deliver, Fifo!Done, Ids,
      InHandId
<1>a. msg # Null /\ pc # "pop_unlink" => msg \in live /\ InHandId \in MsgIds /\ InHandId # NoMessage
  BY DEF IInv, NothingLeaks, InHand, PayloadSound, InHandId, MsgIds, NoMessage
<1>b. ASSUME chain' = chain, \A m \in live : msgid'[m] = msgid[m]
      PROVE  Ids' = Ids
  BY <1>b DEF Ids, IInv, TypeOK
<1>c. ASSUME chain' = chain, msgid' = msgid, cur' = cur, msg' = msg,
             pc # "pop_unlink", pc' # "pop_unlink"
      PROVE  Ids' = Ids /\ InHandId' = InHandId /\ cur' = cur
  BY <1>c DEF Ids, InHandId
<1>1. CASE EnableInterrupts \/ LoopCall \/ HandlerReturn \/ LoopReturn \/ PopEnter
             \/ PopClear \/ FreeContext
  BY <1>1, <1>c DEF EnableInterrupts, LoopCall, HandlerReturn, LoopReturn, PopEnter,
                    PopClear, FreeContext, list, posting, looping
<1>2. CASE PostReject \/ PostEmpty \/ PostTail
  BY <1>2, <1>c DEF PostReject, PostEmpty, PostTail, list, posting, looping
<1>3. CASE PostExit
  BY <1>3, <1>c DEF PostExit, list, looping, IInv, TypeOK
<1>4. CASE PopExit
  BY <1>4, <1>c DEF PopExit, list, posting
<1>5. ASSUME NEW req \in Requests(TaskIds), PostEnter(req)
      PROVE  Ids' = Ids /\ InHandId' = InHandId /\ cur' = cur
  BY <1>5, <1>c DEF PostEnter, list, looping
<1>6. CASE PostAlloc
  <2>1. PICK n \in Node \ live : New(n, request)
    BY <1>6 DEF PostAlloc
  <2>2. \A m \in live : msgid'[m] = msgid[m]
    BY <2>1 DEF New, IInv, TypeOK
  <2>3. chain' = chain /\ cur' = cur /\ msg' = msg /\ pc # "pop_unlink" /\ pc' # "pop_unlink"
    BY <1>6 DEF PostAlloc, looping
  <2>4. Ids' = Ids
    BY <2>2, <2>3, <1>b
  <2>5. InHandId' = InHandId
    BY <2>2, <2>3, <1>a DEF InHandId
  <2> QED  BY <2>3, <2>4, <2>5
<1>7. CASE PostHead \/ PostLast
  <2>1. /\ chain' = Append(chain, fresh) /\ msgid' = msgid /\ cur' = cur /\ msg' = msg
        /\ live' = live /\ pc # "pop_unlink" /\ pc' # "pop_unlink"
    BY <1>7 DEF PostHead, PostLast, looping
  <2>2. fresh \in live'
    BY <1>7, <2>1 DEF PostHead, PostLast, IInv, NothingLeaks, Unlinked
  <2>3. Ids' = Append(Ids, msgid'[fresh]) /\ msgid'[fresh] \in MsgIds
    BY <2>1, <2>2, IdsAppend
  <2> QED  BY <2>1, <2>3 DEF InHandId
<1>8. ASSUME NEW req \in Requests(IsrIds), IsrPost(req), IsrReject(req)
      PROVE  Ids' = Ids /\ InHandId' = InHandId /\ cur' = cur
  BY <1>8 DEF IsrPost, IsrReject, list, looping, Ids, InHandId
<1>9. ASSUME NEW req \in Requests(IsrIds), IsrPost(req), IsrAppend(req)
      PROVE  \E id \in MsgIds : Ids' = Append(Ids, id) /\ InHandId' = InHandId /\ cur' = cur
  <2>1. PICK n \in Node \ live : New(n, req) /\ chain' = Append(chain, n)
    BY <1>9 DEF IsrAppend
  <2>2. n \in live' /\ \A m \in live : msgid'[m] = msgid[m]
    BY <2>1 DEF New, IInv, TypeOK
  <2>3. Ids' = Append(Ids, msgid'[n]) /\ msgid'[n] \in MsgIds
    BY <2>1, <2>2, IdsAppend
  <2>4. cur' = cur /\ msg' = msg /\ pc' = pc
    BY <1>9 DEF IsrPost, looping
  <2>5. InHandId' = InHandId
    BY <2>2, <2>4, <1>a DEF InHandId
  <2> QED  BY <2>3, <2>4, <2>5
<1>10. CASE PopRead
  <2>1. /\ chain' = chain /\ msgid' = msgid /\ cur' = cur /\ msg = Null
        /\ msg' = Null \/ pc' = "pop_unlink"
    BY <1>10 DEF PopRead, list, IInv, Control, Idle
  <2> QED  BY <2>1 DEF Ids, InHandId
<1>11. CASE PopUnlink
  <2>1. /\ chain # <<>> /\ msg = chain[1] /\ chain' = Tail(chain) /\ msgid' = msgid
        /\ msg' = msg /\ cur' = cur /\ pc = "pop_unlink" /\ pc' # "pop_unlink"
    BY <1>11 DEF PopUnlink, looping, IInv, Control
  <2>2. msg # Null
    <3>1. chain \in Seq(live) /\ Len(chain) \in Nat \ {0}
      BY <2>1, EmptySeq DEF IInv, TypeOK
    <3> QED  BY <2>1, <3>1 DEF IInv, TypeOK
  <2>3. Ids # <<>> /\ Head(Ids) = msgid[msg] /\ Ids' = Tail(Ids)
    BY <2>1, IdsTail
  <2> QED  BY <2>1, <2>2, <2>3 DEF InHandId
<1>12. CASE CallHandler
  <2>1. /\ chain' = chain /\ msgid' = msgid /\ cur' = cur + 1 /\ msg' = msg
        /\ pc = "dispatch" /\ pc' = "handler" /\ cur < Handlers[msgid[msg]]
    BY <1>12 DEF CallHandler, list
  <2>2. msg # Null
    BY <2>1 DEF IInv, Control, Dispatching
  <2> QED  BY <2>1, <2>2, <1>a DEF Ids, InHandId
<1>13. CASE FreeMessage
  <2>1. /\ chain' = chain /\ msgid' = msgid /\ cur' = 0 /\ msg' = Null
        /\ pc = "delete"
    BY <1>13 DEF FreeMessage
  <2>2. msg # Null /\ cur = Handlers[msgid[msg]]
    BY <2>1 DEF IInv, Control, Dispatching
  <2> QED  BY <2>1, <2>2, <1>a DEF Ids, InHandId
<1>14. CASE UNCHANGED vars
  BY <1>14 DEF vars, list, looping, Ids, InHandId
<1>15. ASSUME NEW req \in Requests(IsrIds), IsrPost(req)
       PROVE  IsrReject(req) \/ IsrAppend(req)
  BY <1>15 DEF IsrPost
<1> QED
  BY <1>1, <1>2, <1>3, <1>4, <1>5, <1>6, <1>7, <1>8, <1>9, <1>10, <1>11, <1>12,
     <1>13, <1>14, <1>15 DEF Next, PostSteps, LoopSteps

\* MQClass delivers every accepted message to each of its handlers exactly
\* once, in the order of the posts, whatever tasks, handlers and ISRs post.
THEOREM FifoImplemented == Spec => ImplementsFifo
  BY Invariance, FifoInit, FifoStep, PTL DEF Spec, ImplementsFifo, Fifo!Spec
=============================================================================
