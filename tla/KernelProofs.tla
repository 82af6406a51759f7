---------------------------- MODULE KernelProofs ----------------------------
(***************************************************************************)
(* Two parts of the kernel.  A timer (OSTimer) expires exactly when it     *)
(* should, for a clock that wraps at any modulus.  No registration of the  *)
(* task ring (TaskRing) is overtaken, for every set of tasks and every     *)
(* number of registrations.                                                *)
(*                                                                         *)
(* The argument for the ring.  A round goes down from the head of the      *)
(* list; Below says how far it has come.  A registration above Below has   *)
(* had its turn in this round, or was made during it, and since then only  *)
(* registrations between the two were called.  One that still waits has    *)
(* seen the rest of the round before (which is below it) and this round so *)
(* far.                                                                    *)
(***************************************************************************)
EXTENDS OSTimer, TaskRing, SequenceTheorems, TLAPS

\* The difference of two clock readings, the only thing a timer computes.
Since(t, s) == (t - s) % Modulus

Types == /\ now \in Millis /\ tmr \in Millis /\ freeze \in Millis
         /\ ran \in Millis
         /\ frozen \in BOOLEAN /\ stopped \in BOOLEAN

\* How far a timer has counted: up to now, or to when it was frozen.
Counted == IF stopped THEN frozen /\ Since(freeze, tmr) = ran
                      ELSE Since(now, tmr) = ran

IInv == Types /\ Counted

-----------------------------------------------------------------------------

LEMMA Wrapping ==
  ASSUME NEW x \in Int
  PROVE  /\ x \in 0..(Modulus - 1) => x % Modulus = x
         /\ x \in (-Modulus)..(-1) => x % Modulus = x + Modulus
         /\ x \in Modulus..(2 * Modulus - 1) => x % Modulus = x - Modulus
BY ModulusAssumption

\* Two readings are never more than a period apart.
LEMMA SinceIs ==
  ASSUME NEW t \in Millis, NEW s \in Millis
  PROVE  Since(t, s) = IF s <= t THEN t - s ELSE t - s + Modulus
<1>1. t - s \in Int /\ (s <= t => t - s \in 0..(Modulus - 1))
                    /\ (~(s <= t) => t - s \in (-Modulus)..(-1))
  BY ModulusAssumption DEF Millis
<1> QED BY <1>1, Wrapping DEF Since

LEMMA InitIInv == TimerInit => IInv
<1> SUFFICES ASSUME TimerInit PROVE IInv
  OBVIOUS
<1>1. Types
  <2>1. frozen \in BOOLEAN /\ stopped \in BOOLEAN
    BY DEF TimerInit
  <2>2. freeze \in Millis /\ ran \in Millis
    BY ModulusAssumption DEF TimerInit, Millis
  <2> QED BY <2>1, <2>2 DEF TimerInit, Types
<1>2. Since(now, tmr) = 0
  BY <1>1, SinceIs DEF TimerInit, Types
<1> QED BY <1>1, <1>2 DEF IInv, Counted, TimerInit

LEMMA MillisecondIInv == IInv /\ Millisecond => IInv'
<1> SUFFICES ASSUME IInv, Millisecond PROVE IInv'
  OBVIOUS
<1>1. now' = IF now + 1 = Modulus THEN 0 ELSE now + 1
  <2>1. now + 1 \in Int /\ now + 1 \in 0..Modulus
    BY ModulusAssumption DEF IInv, Types, Millis
  <2> QED BY <2>1, Wrapping, ModulusAssumption DEF Millisecond
<1>2. Types'
  BY <1>1, ModulusAssumption DEF IInv, Types, Millis, Millisecond
<1>3. CASE stopped
  <2>1. frozen /\ Since(freeze, tmr) = ran
    BY <1>3 DEF IInv, Counted
  <2>2. UNCHANGED <<tmr, freeze, frozen, stopped, ran>>
    BY <1>3 DEF Millisecond
  <2>3. Counted'
    BY <1>3, <2>1, <2>2 DEF Counted, Since
  <2> QED BY <1>2, <2>3 DEF IInv
<1>4. CASE ~stopped
  <2>1. Since(now, tmr) = ran /\ ran' = ran + 1 /\ ran + 1 < Modulus /\ tmr' = tmr
    BY <1>4 DEF IInv, Counted, Millisecond
  <2>2. Since(now', tmr) = ran + 1
    <3>1. now' \in Millis /\ tmr \in Millis /\ now \in Millis
      BY <1>2 DEF IInv, Types
    <3>2. Since(now, tmr) = IF tmr <= now THEN now - tmr ELSE now - tmr + Modulus
      BY <3>1, SinceIs
    <3>3. Since(now', tmr) = IF tmr <= now' THEN now' - tmr ELSE now' - tmr + Modulus
      BY <3>1, SinceIs
    <3> QED BY <1>1, <2>1, <3>1, <3>2, <3>3, ModulusAssumption DEF Millis
  <2>3. stopped' = stopped
    BY DEF Millisecond
  <2>4. Counted'
    BY <1>4, <2>1, <2>2, <2>3 DEF Counted, Since
  <2> QED BY <1>2, <2>4 DEF IInv
<1> QED BY <1>2, <1>3, <1>4 DEF IInv

LEMMA RestartIInv == IInv /\ (Restart \/ \E timeout \in Millis : Set(timeout)) => IInv'
<1> SUFFICES ASSUME IInv, Restart \/ \E timeout \in Millis : Set(timeout) PROVE IInv'
  OBVIOUS
<1>1. /\ tmr' = now /\ now' = now /\ ran' = 0 /\ ~stopped
      /\ UNCHANGED <<freeze, frozen, stopped>>
  BY DEF Restart, Set
<1>2. Types'
  BY <1>1, ModulusAssumption DEF IInv, Types, Millis
<1>3. Since(now, now) = 0
  <2>1. now \in Millis
    BY DEF IInv, Types
  <2> QED BY <2>1, SinceIs, ModulusAssumption DEF Millis
<1>4. Counted'
  BY <1>1, <1>3 DEF Counted, Since
<1> QED BY <1>2, <1>4 DEF IInv

LEMMA FreezeIInv == IInv /\ Freeze => IInv'
BY DEF IInv, Types, Counted, Since, Freeze

LEMMA ThawIInv == IInv /\ Thaw => IInv'
<1> SUFFICES ASSUME IInv, Thaw PROVE IInv'
  OBVIOUS
<1> DEFINE thawed == tmr + (now - freeze)
<1>1. /\ stopped /\ frozen /\ Since(freeze, tmr) = ran
      /\ tmr' = thawed % Modulus /\ stopped' = FALSE
      /\ UNCHANGED <<now, freeze, frozen, ran>>
  BY DEF IInv, Counted, Thaw
<1>2. now \in Millis /\ tmr \in Millis /\ freeze \in Millis
  BY DEF IInv, Types
<1>3. tmr' = CASE thawed \in 0..(Modulus - 1) -> thawed
               [] thawed < 0 -> thawed + Modulus
               [] thawed >= Modulus -> thawed - Modulus
  <2>1. thawed \in Int /\ thawed \in (-Modulus)..(2 * Modulus - 1)
    BY <1>2, ModulusAssumption DEF Millis
  <2> HIDE DEF thawed
  <2> QED BY <1>1, <2>1, Wrapping, ModulusAssumption
<1>4. tmr' \in Millis
  BY <1>2, <1>3, ModulusAssumption DEF Millis
<1>5. Since(now, tmr') = Since(freeze, tmr)
  <2>1. Since(freeze, tmr) = IF tmr <= freeze THEN freeze - tmr ELSE freeze - tmr + Modulus
    BY <1>2, SinceIs
  <2>2. Since(now, tmr') = IF tmr' <= now THEN now - tmr' ELSE now - tmr' + Modulus
    BY <1>2, <1>4, SinceIs
  <2> QED BY <1>2, <1>3, <1>4, <2>1, <2>2, ModulusAssumption DEF Millis
<1>6. Types'
  BY <1>1, <1>4 DEF IInv, Types
<1>7. Counted'
  BY <1>1, <1>5 DEF Counted, Since
<1> QED BY <1>6, <1>7 DEF IInv

LEMMA NextIInv == IInv /\ [TimerNext]_timer => IInv'
<1>1. IInv /\ UNCHANGED timer => IInv'
  BY DEF IInv, Types, Counted, Since, timer
<1> QED BY <1>1, MillisecondIInv, RestartIInv, FreezeIInv, ThawIInv DEF TimerNext

-----------------------------------------------------------------------------

\* A timer that is not frozen has expired just if it counted beyond its timeout,
\* across every wrap of the clock and every freeze and thaw.
THEOREM ExpiryAlwaysExact == TimerSpec => []ExpiryExact
<1>1. TimerSpec => []IInv
  BY InitIInv, NextIInv, PTL DEF TimerSpec
<1>2. IInv => ExpiryExact
  BY DEF IInv, Counted, Since, ExpiryExact, isExpired
<1> QED BY <1>1, <1>2, PTL

-----------------------------------------------------------------------------
(* The task ring.                                                          *)

Below == IF running THEN pCur - 1 ELSE pCur

RoundSoFar ==
  \A i \in 1..pHead :
    seen[i] \subseteq IF i > Below THEN (Below + 1)..(i - 1)
                                   ELSE (1..(i - 1)) \cup ((Below + 1)..pHead)

RingInv == TypeOK /\ RoundSoFar

LEMMA RingInit == ASSUME Init PROVE RingInv
<1>1. registered \in Seq(Task) /\ pHead = 0
  BY EmptySeq DEF Init, pHead
<1>2. seen \in [1..0 -> SUBSET (1..0)]
  BY DEF Init
<1>3. TypeOK
  <2>1. pCur = 0 /\ running = FALSE
    BY DEF Init
  <2>2. pHead <= MaxRegistrations /\ pCur \in 0..pHead
    BY <1>1, <2>1, MaxRegistrationsAssumption
  <2>3. seen \in [1..pHead -> SUBSET (1..pHead)]
    BY <1>1, <1>2
  <2> QED  BY <1>1, <2>1, <2>2, <2>3, Zenon DEF TypeOK
<1>4. RoundSoFar
  BY <1>1 DEF RoundSoFar
<1> QED  BY <1>3, <1>4 DEF RingInv

LEMMA RingRegister ==
  ASSUME RingInv, NEW t \in Task, RegisterTaskHandler(t)
  PROVE  RingInv'
<1> USE DEF RingInv
<1> DEFINE n == Len(registered)
<1>1. /\ registered \in Seq(Task) /\ n \in Nat /\ n < MaxRegistrations
      /\ pCur \in 0..n /\ seen \in [1..n -> SUBSET (1..n)]
  BY DEF TypeOK, RegisterTaskHandler, pHead
<1>2. registered' \in Seq(Task) /\ Len(registered') = n + 1
  BY <1>1, AppendProperties DEF RegisterTaskHandler
<1>3. /\ seen' \in [1..(n + 1) -> SUBSET (1..(n + 1))]
      /\ seen'[n + 1] = {}
      /\ \A i \in 1..n : seen'[i] = seen[i]
  <2>1. seen' = Append(seen, {})
    BY DEF RegisterTaskHandler
  <2>2. seen \in Seq(SUBSET (1..n)) /\ Len(seen) = n
    BY <1>1, IsASeq, SeqDef
  <2>3. SUBSET (1..n) \subseteq SUBSET (1..(n + 1))
    BY <1>1
  <2>4. /\ seen' \in Seq(SUBSET (1..n)) /\ Len(seen') = n + 1
        /\ seen'[n + 1] = {}
        /\ \A i \in 1..n : seen'[i] = seen[i]
    BY <2>1, <2>2, AppendProperties
  <2>5. seen' \in [1..(n + 1) -> SUBSET (1..n)]
    BY <2>4, LenProperties
  <2> QED  BY <2>3, <2>4, <2>5
<1>4. TypeOK'
  BY <1>1, <1>2, <1>3, MaxRegistrationsAssumption DEF TypeOK, RegisterTaskHandler, pHead
<1>5. RoundSoFar'
  <2>1. Below' = Below /\ Below \in Int /\ Below < n + 1
    BY <1>1 DEF RegisterTaskHandler, Below, TypeOK
  <2> SUFFICES ASSUME NEW i \in 1..(n + 1)
               PROVE  seen'[i] \subseteq IF i > Below THEN (Below + 1)..(i - 1)
                                    ELSE (1..(i - 1)) \cup ((Below + 1)..(n + 1))
    BY <1>2, <2>1 DEF RoundSoFar, pHead
  <2>2. CASE i = n + 1
    BY <1>3, <2>2
  <2>3. CASE i \in 1..n
    <3>1. seen'[i] \subseteq IF i > Below THEN (Below + 1)..(i - 1)
                                    ELSE (1..(i - 1)) \cup ((Below + 1)..n)
      BY <1>3, <2>3 DEF RoundSoFar, pHead
    <3>2. (Below + 1)..n \subseteq (Below + 1)..(n + 1)
      BY <1>1, <2>1
    <3> QED  BY <3>1, <3>2
  <2> QED  BY <1>1, <2>2, <2>3
<1> QED  BY <1>4, <1>5

LEMMA RingCall ==
  ASSUME RingInv, LoopCall
  PROVE  RingInv' /\ \A i \in 1..pHead : i # Called => Called \notin seen[i]
<1> USE DEF RingInv
<1>1. /\ pHead \in Nat /\ pHead' = pHead /\ pCur \in 0..pHead /\ ~running
      /\ seen \in [1..pHead -> SUBSET (1..pHead)] /\ pHead <= MaxRegistrations
  BY DEF TypeOK, LoopCall, pHead
<1>2. Called \in 1..pHead /\ (Called = pCur \/ (pCur = 0 /\ Called = pHead))
  <2>1. Called # 0
    BY DEF LoopCall
  <2>2. Called = IF pCur = 0 THEN pHead ELSE pCur
    BY DEF Called
  <2> QED  BY <1>1, <2>1, <2>2
<1>3. Below = pCur /\ Below' = Called - 1 /\ pCur' = Called /\ running'
  BY <1>1 DEF Below, LoopCall
<1>4. \A i \in 1..pHead : seen'[i] = IF i = Called THEN {} ELSE seen[i] \cup {Called}
  BY DEF LoopCall
<1>5. \A i \in 1..pHead : i # Called => Called \notin seen[i]
  BY <1>1, <1>2, <1>3 DEF RoundSoFar
<1>6. TypeOK'
  <2>1. seen' \in [1..pHead -> SUBSET (1..pHead)]
    BY <1>1, <1>2 DEF LoopCall
  <2> QED  BY <1>1, <1>2, <1>3, <2>1 DEF TypeOK, LoopCall, pHead
<1>7. RoundSoFar'
  <2> SUFFICES ASSUME NEW i \in 1..pHead
               PROVE  seen'[i] \subseteq IF i > Called - 1 THEN Called..(i - 1)
                                    ELSE (1..(i - 1)) \cup (Called..pHead)
    BY <1>1, <1>2, <1>3 DEF RoundSoFar
  <2>1. CASE i = Called
    BY <1>4, <2>1
  <2>2. CASE i > Called
    <3>1. seen[i] \subseteq (pCur + 1)..(i - 1) /\ Called = pCur
      BY <1>1, <1>2, <1>3, <2>2 DEF RoundSoFar
    <3>2. Called \in Int /\ i > Called - 1 /\ i # Called /\ Called \in Called..(i - 1)
      BY <1>1, <1>2, <2>2
    <3>3. (pCur + 1)..(i - 1) \subseteq Called..(i - 1)
      BY <3>1, <3>2
    <3>4. seen'[i] = seen[i] \cup {Called}
      BY <1>4, <2>2, <3>2
    <3> QED  BY <3>1, <3>2, <3>3, <3>4
  <2>3. CASE i < Called
    <3>1. seen[i] \subseteq IF i > pCur THEN (pCur + 1)..(i - 1)
                                   ELSE (1..(i - 1)) \cup ((pCur + 1)..pHead)
      BY <1>3 DEF RoundSoFar
    <3>2. seen[i] \subseteq (1..(i - 1)) \cup (Called..pHead)
      <4>1. CASE Called = pCur
        BY <1>1, <1>2, <2>3, <3>1, <4>1
      <4>2. CASE pCur = 0 /\ Called = pHead
        <5>1. 0 + 1 = 1 /\ i > 0
          OBVIOUS
        <5> QED  BY <3>1, <4>2, <5>1
      <4> QED  BY <1>2, <4>1, <4>2
    <3>3. Called \in Called..pHead
      BY <1>1, <1>2
    <3>4. ~(i > Called - 1) /\ i # Called
      BY <1>1, <1>2, <2>3
    <3>5. seen'[i] = seen[i] \cup {Called}
      BY <1>4, <3>4
    <3> QED  BY <3>2, <3>3, <3>4, <3>5
  <2> QED  BY <1>2, <2>1, <2>2, <2>3
<1> QED  BY <1>5, <1>6, <1>7

LEMMA RingNext == ASSUME RingInv, [Next]_vars PROVE RingInv'
<1>1. CASE \E t \in Task : RegisterTaskHandler(t)
  BY <1>1, RingRegister
<1>2. CASE LoopCall
  BY <1>2, RingCall
<1>3. CASE LoopReturn
  <2>1. pCur \in 1..pHead /\ pCur' = pCur - 1 /\ running /\ ~running' /\ pHead \in Nat
    BY <1>3 DEF RingInv, TypeOK, LoopReturn, pNext, pHead
  <2>2. Below' = Below
    BY <2>1 DEF Below
  <2>3. TypeOK'
    <3>1. pCur' \in 0..pHead /\ running' = FALSE
      BY <1>3, <2>1 DEF LoopReturn
    <3> QED  BY <1>3, <3>1 DEF RingInv, TypeOK, LoopReturn, pHead
  <2>4. RoundSoFar'
    BY <1>3, <2>2 DEF RingInv, RoundSoFar, LoopReturn, pHead
  <2> QED  BY <2>3, <2>4 DEF RingInv
<1>4. CASE LoopIdle \/ UNCHANGED vars
  BY <1>4 DEF RingInv, TypeOK, RoundSoFar, Below, LoopIdle, vars, pHead
<1> QED  BY <1>1, <1>2, <1>3, <1>4 DEF Next

\* Whatever the tasks register and in whichever order, how far each waiting
\* registration has been passed by stays within one round.
THEOREM Invariance == Spec => []RingInv
<1>1. Init => RingInv
  BY RingInit
<1>2. RingInv /\ [Next]_vars => RingInv'
  BY RingNext
<1> QED  BY <1>1, <1>2, PTL DEF Spec

\* pCur is NULL or a TASKSTATE of the list at every moment, and not NULL while
\* Loop depends on it.
THEOREM TypeCorrect == Spec => []TypeOK
<1>1. RingInv => TypeOK
  BY DEF RingInv
<1> QED  BY <1>1, Invariance, PTL

\* No registration is called twice while another one waits, also when handlers
\* register tasks in the middle of a round.
THEOREM NeverOvertaken == Spec => NoOvertaking
<1>1. RingInv /\ [Next]_vars
        => [LoopCall => \A i \in 1..pHead :
                               i # Called => Called \notin seen[i]]_vars
  BY RingCall
<1> QED  BY <1>1, Invariance, PTL DEF Spec, NoOvertaking
=============================================================================
