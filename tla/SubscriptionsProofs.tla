------------------------ MODULE SubscriptionsProofs ------------------------
(***************************************************************************)
(* That the handler lists stay sound and that each subscriber is called    *)
(* once, whatever the handlers do to the lists meanwhile: for any number   *)
(* of receivers, ids and MESSAGEHANDLERs.                                  *)
(*                                                                         *)
(* The argument.  As long as the walk has not gone astray there is a place *)
(* g of the list of id with which it goes on: the receivers from g on have *)
(* not been called yet, and those before g that were there all the time    *)
(* have been called.  A subscription is put before g.  Taking an entry     *)
(* away moves g at most; if it is the one whose handler runs, the link     *)
(* left in its memory still leads to g.                                    *)
(***************************************************************************)
EXTENDS Subscriptions, SequenceTheorems, FiniteSetTheorems, TLAPS

Types == /\ QueueBlock \in [Id -> Seq(Node)]
         /\ receiver \in [Node -> Receiver \cup {Null}]
         /\ live \subseteq Node
         /\ pc \in {"idle", "walk", "handler", "lost"}
         /\ id \in Id \cup {Null} /\ curHandler \in Node \cup {Null}
         /\ left \in Node \cup {Null} /\ stray \in BOOLEAN
         /\ called \in [Receiver -> 0..Twice] /\ stayed \subseteq Receiver

\* The receiver of the kth MESSAGEHANDLER of i.
At(i, k) == receiver[QueueBlock[i][k]]

\* Every MESSAGEHANDLER that is in a list has a receiver.
Received == \A i \in Id : \A k \in 1..Len(QueueBlock[i]) : At(i, k) \in Receiver

\* What is found at place g of a list, or behind its end.
Entry(list, g) == IF g = Len(list) + 1 THEN Null ELSE list[g]

\* The walk stands before place g, or in the handler of the place before, or in
\* the one of a MESSAGEHANDLER that was there and is deleted.
Links(g) ==
  IF pc = "walk" THEN curHandler = Entry(QueueBlock[id], g)
  ELSE IF curHandler \in live
       THEN g - 1 \in 1..Len(QueueBlock[id]) /\ curHandler = QueueBlock[id][g - 1]
       ELSE left = Entry(QueueBlock[id], g)

\* The walk goes on with place g.
GoesOn(g) ==
  /\ Links(g)
  /\ \A q \in 1..Len(QueueBlock[id]) : g <= q => called[At(id, q)] = 0
  /\ \A q \in 1..Len(QueueBlock[id]) : q < g /\ At(id, q) \in stayed => called[At(id, q)] = 1

Walking ==
  /\ id \in Id
  /\ \A r \in stayed : \E q \in 1..Len(QueueBlock[id]) : At(id, q) = r
  /\ \A r \in Receiver : called[r] <= 1
  /\ \E g \in 1..(Len(QueueBlock[id]) + 1) : GoesOn(g)

Control == /\ pc = "idle" => id = Null /\ curHandler = Null
           /\ pc \in {"idle", "walk"} => left = Null
           /\ pc = "lost" => stray
           /\ ~stray => IF pc = "idle" THEN called = Nobody ELSE Walking

IInv == Types /\ ListsSound /\ Received /\ Control

-----------------------------------------------------------------------------
(* A list.                                                                 *)

LEMMA ListOf ==
  ASSUME Types, NEW i \in Id
  PROVE  /\ QueueBlock[i] \in Seq(Node) /\ Len(QueueBlock[i]) \in Nat
         /\ \A k \in 1..Len(QueueBlock[i]) : QueueBlock[i][k] \in Node
<1>1. QueueBlock[i] \in Seq(Node)
  BY DEF Types
<1> QED BY <1>1, LenProperties, ElementOfSeq

\* No receiver is in two places of a list.
LEMMA Apart ==
  ASSUME ListsSound, NEW i \in Id,
         NEW k \in 1..Len(QueueBlock[i]), NEW l \in 1..Len(QueueBlock[i]), At(i, k) = At(i, l)
  PROVE  k = l
<1>1. QueueBlock[i][k] \in Elements(QueueBlock[i]) /\ QueueBlock[i][l] \in Elements(QueueBlock[i])
  BY DEF Elements
<1>2. QueueBlock[i][k] = QueueBlock[i][l]
  BY <1>1 DEF ListsSound, At
<1> QED BY <1>2 DEF ListsSound

\* A MESSAGEHANDLER is allocated just if it is in a list.
LEMMA LiveIs ==
  ASSUME ListsSound
  PROVE  \A n : n \in live <=> \E i \in Id : \E k \in 1..Len(QueueBlock[i]) : n = QueueBlock[i][k]
  BY DEF ListsSound, Elements

\* A list with one more at its head.
LEMMA Prepended ==
  ASSUME NEW s \in Seq(Node), NEW n \in Node
  PROVE  LET t == <<n>> \o s
         IN  /\ t \in Seq(Node) /\ Len(t) = Len(s) + 1 /\ t[1] = n
             /\ \A k \in 1..Len(s) : k + 1 \in 1..Len(t) /\ t[k + 1] = s[k]
             /\ \A k \in 1..Len(t) : k = 1 \/ (k - 1 \in 1..Len(s) /\ t[k] = s[k - 1])
<1>1. <<n>> \in Seq(Node) /\ Len(<<n>>) = 1 /\ <<n>>[1] = n
  OBVIOUS
<1> DEFINE u == <<n>>
           t == u \o s
<1> HIDE DEF u
<1>2. /\ t \in Seq(Node) /\ Len(t) = 1 + Len(s) /\ Len(s) \in Nat
      /\ \A k \in 1..(1 + Len(s)) : t[k] = IF k <= 1 THEN u[k] ELSE s[k - 1]
  BY <1>1, ConcatProperties, LenProperties DEF u
<1> HIDE DEF t
<1>3. /\ t[1] = n /\ Len(t) = Len(s) + 1
      /\ \A k \in 1..Len(s) : k + 1 \in 1..Len(t) /\ t[k + 1] = s[k]
      /\ \A k \in 1..Len(t) : k = 1 \/ (k - 1 \in 1..Len(s) /\ t[k] = s[k - 1])
  BY <1>1, <1>2 DEF u
<1> QED BY <1>2, <1>3 DEF t, u

\* A list without its place k, and where its other places go; there is no
\* place behind the last one, so that nothing is taken away there.
Spot(q, k) == IF q < k THEN q ELSE q - 1
From(q, k) == IF q < k THEN q ELSE q + 1

Shorter(s, k, t) ==
  /\ k \in 1..(Len(s) + 1)
  /\ t \in Seq(Node)
  /\ Len(t) = IF k <= Len(s) THEN Len(s) - 1 ELSE Len(s)
  /\ \A q \in 1..Len(t) : t[q] = s[From(q, k)]

LEMMA Spots ==
  ASSUME NEW s \in Seq(Node), NEW k, NEW t, Shorter(s, k, t)
  PROVE  /\ \A q \in 1..Len(t) : From(q, k) \in 1..Len(s) /\ From(q, k) # k
         /\ \A q \in 1..Len(s) : q # k => Spot(q, k) \in 1..Len(t) /\ t[Spot(q, k)] = s[q]
         /\ \A q, l \in 1..Len(t) : From(q, k) = From(l, k) => q = l
         /\ \A q \in 1..Len(s), l \in 1..Len(t) : q # k =>
              /\ Spot(q, k) < l => q < From(l, k)
              /\ l < Spot(q, k) => From(l, k) < q
<1>1. Len(s) \in Nat /\ Len(t) \in Nat
  BY LenProperties DEF Shorter
<1>2. k \in Nat /\ Len(t) = IF k <= Len(s) THEN Len(s) - 1 ELSE Len(s)
  BY <1>1 DEF Shorter
<1>3. \A q \in 1..Len(t) : From(q, k) \in 1..Len(s) /\ From(q, k) # k
  BY <1>1, <1>2 DEF From, Shorter
<1>4. \A q \in 1..Len(s) : q # k => Spot(q, k) \in 1..Len(t) /\ From(Spot(q, k), k) = q
  BY <1>1, <1>2 DEF From, Spot, Shorter
<1>5. \A q, l \in 1..Len(t) : From(q, k) = From(l, k) => q = l
  BY <1>1, <1>2 DEF From
<1>6. \A q \in 1..Len(s), l \in 1..Len(t) : q # k =>
        /\ Spot(q, k) < l => q < From(l, k)
        /\ l < Spot(q, k) => From(l, k) < q
  BY <1>1, <1>2 DEF From, Spot
<1> QED BY <1>3, <1>4, <1>5, <1>6 DEF Shorter

\* A list from which nothing is taken.
LEMMA NothingShorter == ASSUME NEW s \in Seq(Node) PROVE Shorter(s, Len(s) + 1, s)
<1>1. Len(s) \in Nat
  BY LenProperties
<1> QED BY <1>1 DEF Shorter, From

\* The place that Without takes away, if the receiver has no two.
LEMMA WithoutIs ==
  ASSUME NEW s \in Seq(Node), NEW r,
         \A k, l \in 1..Len(s) : receiver[s[k]] = receiver[s[l]] => k = l
  PROVE  \E k : /\ Shorter(s, k, Without(s, r))
                /\ k \in 1..Len(s) => receiver[s[k]] = r
                /\ \A q \in 1..Len(s) : receiver[s[q]] = r => q = k
<1> DEFINE at == {k \in 1..Len(s) : receiver[s[k]] = r}
<1>1. Len(s) \in Nat
  BY LenProperties
<1>2. CASE at = {}
  <2>1. Without(s, r) = s
    BY <1>2 DEF Without
  <2>2. Len(s) + 1 \notin 1..Len(s) /\ \A q \in 1..Len(s) : receiver[s[q]] # r
    BY <1>1, <1>2
  <2> QED BY <2>1, <2>2, NothingShorter
<1>3. CASE at # {}
  <2>1. PICK k \in 1..Len(s) : at = {k} /\ receiver[s[k]] = r
    BY <1>3
  <2> DEFINE a == SubSeq(s, 1, k - 1)
             b == SubSeq(s, k + 1, Len(s))
  <2>2. Without(s, r) = a \o b
    <3>1. k = CHOOSE m \in at : \A l \in at : m <= l
      BY <1>1, <2>1
    <3> QED BY <1>3, <3>1 DEF Without
  <2>3. /\ a \in Seq(Node) /\ Len(a) = k - 1
        /\ \A q \in 1..(k - 1) : a[q] = s[q]
    <3>1. \A q \in 1..(k - 1) : s[q] \in Node
      BY <1>1, ElementOfSeq
    <3>2. /\ a \in Seq(Node) /\ Len(a) = IF 1 <= k - 1 THEN (k - 1) - 1 + 1 ELSE 0
          /\ \A q \in 1..((k - 1) - 1 + 1) : a[q] = s[1 + q - 1]
      BY <1>1, <3>1, SubSeqProperties
    <3> QED BY <1>1, <3>2
  <2>4. /\ b \in Seq(Node) /\ Len(b) = Len(s) - k
        /\ \A q \in 1..(Len(s) - k) : b[q] = s[k + q]
    <3>1. \A q \in (k + 1)..Len(s) : s[q] \in Node
      BY <1>1, ElementOfSeq
    <3>2. /\ b \in Seq(Node) /\ Len(b) = IF k + 1 <= Len(s) THEN Len(s) - (k + 1) + 1 ELSE 0
          /\ \A q \in 1..(Len(s) - (k + 1) + 1) : b[q] = s[(k + 1) + q - 1]
      BY <1>1, <3>1, SubSeqProperties
    <3> QED BY <1>1, <3>2
  <2> HIDE DEF a, b
  <2>5. /\ a \o b \in Seq(Node) /\ Len(a \o b) = Len(a) + Len(b)
        /\ \A q \in 1..(Len(a) + Len(b)) : (a \o b)[q] = IF q <= Len(a) THEN a[q] ELSE b[q - Len(a)]
    <3>1. a \in Seq(Node) /\ b \in Seq(Node)
      BY <2>3, <2>4
    <3> QED BY <3>1, ConcatProperties
  <2>6. Len(a \o b) = Len(s) - 1
    BY <1>1, <2>3, <2>4, <2>5
  <2>7. ASSUME NEW q \in 1..(Len(s) - 1) PROVE (a \o b)[q] = s[From(q, k)]
    <3>1. CASE q < k
      <4>1. (a \o b)[q] = a[q] /\ q \in 1..(k - 1)
        BY <1>1, <2>3, <2>4, <2>5, <3>1
      <4> QED BY <2>3, <3>1, <4>1 DEF From
    <3>2. CASE ~(q < k)
      <4>1. (a \o b)[q] = b[q - (k - 1)] /\ q - (k - 1) \in 1..(Len(s) - k)
        BY <1>1, <2>3, <2>4, <2>5, <3>2
      <4>2. k + (q - (k - 1)) = q + 1
        BY <1>1
      <4>3. b[q - (k - 1)] = s[q + 1]
        BY <2>4, <4>1, <4>2
      <4> QED BY <3>2, <4>1, <4>3 DEF From
    <3> QED BY <3>1, <3>2
  <2>8. Shorter(s, k, a \o b)
    <3>1. k \in 1..(Len(s) + 1) /\ k <= Len(s)
      BY <1>1, <2>1
    <3>2. \A q \in 1..Len(a \o b) : (a \o b)[q] = s[From(q, k)]
      BY <2>6, <2>7
    <3> QED BY <2>5, <2>6, <3>1, <3>2 DEF Shorter
  <2> QED BY <2>1, <2>2, <2>8
<1> QED BY <1>2, <1>3
-----------------------------------------------------------------------------
(* The steps.                                                              *)

LEMMA InitInv == Init => IInv
<1> SUFFICES ASSUME Init PROVE IInv
  OBVIOUS
<1>1. <<>> \in Seq(Node) /\ Len(<<>>) = 0
  OBVIOUS
<1>2. \A i \in Id : QueueBlock[i] = <<>> /\ 1..Len(QueueBlock[i]) = {}
  BY <1>1 DEF Init
<1>3. Types
  <2>1. called \in [Receiver -> 0..Twice] /\ receiver \in [Node -> Receiver \cup {Null}]
    BY DEF Init, Nobody, Twice
  <2> QED BY <1>1, <2>1 DEF Init, Types
<1>4. ListsSound /\ Received
  BY <1>2 DEF Init, ListsSound, Elements, Received
<1>5. Control
  BY DEF Init, Control
<1> QED BY <1>3, <1>4, <1>5 DEF IInv

\* What stands at a place.
LEMMA EntryIs ==
  ASSUME Types, NEW i \in Id, NEW g \in 1..(Len(QueueBlock[i]) + 1)
  PROVE  /\ Entry(QueueBlock[i], g) \in Node \cup {Null}
         /\ Entry(QueueBlock[i], g) = Null <=> g = Len(QueueBlock[i]) + 1
         /\ g # Len(QueueBlock[i]) + 1 =>
              g \in 1..Len(QueueBlock[i]) /\ Entry(QueueBlock[i], g) = QueueBlock[i][g]
<1>1. Len(QueueBlock[i]) \in Nat /\ \A k \in 1..Len(QueueBlock[i]) : QueueBlock[i][k] \in Node
  BY ListOf
<1>2. g # Len(QueueBlock[i]) + 1 => g \in 1..Len(QueueBlock[i])
  BY <1>1
<1> QED BY <1>1, <1>2, NullAssumption DEF Entry

\* pNextHandler of the MESSAGEHANDLER before place g.
LEMMA FollowingIs ==
  ASSUME Types, ListsSound, id \in Id, NEW g \in 1..(Len(QueueBlock[id]) + 1),
         g - 1 \in 1..Len(QueueBlock[id]), curHandler = QueueBlock[id][g - 1]
  PROVE  Following = Entry(QueueBlock[id], g)
<1> DEFINE k == CHOOSE k \in 1..Len(QueueBlock[id]) : QueueBlock[id][k] = curHandler
<1>1. k \in 1..Len(QueueBlock[id]) /\ QueueBlock[id][k] = QueueBlock[id][g - 1]
  OBVIOUS
<1>2. k = g - 1
  BY <1>1 DEF ListsSound
<1>3. Following = IF k = Len(QueueBlock[id]) THEN Null ELSE QueueBlock[id][k + 1]
  BY DEF Following
<1> HIDE DEF k
<1>4. Len(QueueBlock[id]) \in Nat
  BY ListOf
<1>5. (k = Len(QueueBlock[id]) <=> g = Len(QueueBlock[id]) + 1) /\ k + 1 = g
  BY <1>2, <1>4
<1> QED BY <1>3, <1>5 DEF Entry

\* What Control asks while a handler runs, and while no message is dispatched.
LEMMA HandlerControl == ASSUME pc' = "handler", Walking' \/ stray' PROVE Control'
<1> QED BY DEF Control

LEMMA IdleControl ==
  ASSUME pc' = "idle", id' = Null, curHandler' = Null, left' = Null, called' = called,
         stray => stray', ~stray => called = Nobody
  PROVE  Control'
<1>1. Nobody' = Nobody
  BY DEF Nobody
<1> QED BY <1>1 DEF Control

\* A subscription: a new one at the head of a list.
LEMMA SubscribeStep ==
  ASSUME IInv, NEW i \in Id, NEW r \in Receiver, Subscribe(i, r)
  PROVE  IInv'
<1> USE DEF IInv
<1> DEFINE New(j, k) == receiver'[QueueBlock'[j][k]]
<1>1. PICK n \in Node \ live :
        /\ live' = live \cup {n}
        /\ receiver' = [receiver EXCEPT ![n] = r]
        /\ QueueBlock' = [QueueBlock EXCEPT ![i] = <<n>> \o @]
        /\ stray' = (stray \/ n = curHandler)
  BY DEF Subscribe
<1>2. /\ pc' = pc /\ id' = id /\ curHandler' = curHandler /\ called' = called /\ stayed' = stayed
      /\ left' = left
      /\ ~Subscribed(i, r) /\ pc \in {"idle", "handler"}
  BY DEF Subscribe, walk, InTask
<1>3. \A j \in Id \ {i} : QueueBlock'[j] = QueueBlock[j]
  BY <1>1 DEF Types
<1>4. /\ QueueBlock'[i] \in Seq(Node) /\ Len(QueueBlock'[i]) = Len(QueueBlock[i]) + 1
      /\ QueueBlock'[i][1] = n
      /\ \A k \in 1..Len(QueueBlock[i]) :
           k + 1 \in 1..Len(QueueBlock'[i]) /\ QueueBlock'[i][k + 1] = QueueBlock[i][k]
      /\ \A k \in 1..Len(QueueBlock'[i]) :
           k = 1 \/ (k - 1 \in 1..Len(QueueBlock[i]) /\ QueueBlock'[i][k] = QueueBlock[i][k - 1])
  <2>1. QueueBlock'[i] = <<n>> \o QueueBlock[i]
    BY <1>1 DEF Types
  <2> QED BY <2>1, ListOf, Prepended
<1>5. Types'
  <2>1. QueueBlock' \in [Id -> Seq(Node)]
    BY <1>1, <1>4 DEF Types
  <2>2. receiver' \in [Node -> Receiver \cup {Null}] /\ live' \subseteq Node
    BY <1>1 DEF Types
  <2>3. stray' \in BOOLEAN
    BY <1>1
  <2> QED BY <1>2, <2>1, <2>2, <2>3 DEF Types
<1>6. /\ \A j \in Id : \A k \in 1..Len(QueueBlock[j]) :
           QueueBlock[j][k] # n /\ receiver'[QueueBlock[j][k]] = At(j, k) /\ At(j, k) \in Receiver
      /\ receiver'[n] = r
      /\ \A k \in 1..Len(QueueBlock[i]) : At(i, k) # r
  <2>1. \A j \in Id : \A k \in 1..Len(QueueBlock[j]) : QueueBlock[j][k] # n /\ QueueBlock[j][k] \in Node
    BY LiveIs, ListOf
  <2>2. receiver'[n] = r /\ \A m \in Node : m # n => receiver'[m] = receiver[m]
    BY <1>1 DEF Types
  <2>3. \A k \in 1..Len(QueueBlock[i]) : At(i, k) # r
    BY <1>2 DEF Subscribed, Elements, At
  <2> QED BY <2>1, <2>2, <2>3 DEF Received, At
<1>7. Len(QueueBlock[i]) \in Nat /\ 1 \in 1..Len(QueueBlock'[i])
  BY <1>4, ListOf
\* What stands in the lists now.
<1>8. ASSUME NEW j \in Id, NEW k \in 1..Len(QueueBlock'[j])
      PROVE  \/ j = i /\ k = 1 /\ QueueBlock'[j][k] = n /\ New(j, k) = r
             \/ \E l \in 1..Len(QueueBlock[j]) :
                  /\ k = (IF j = i THEN l + 1 ELSE l)
                  /\ QueueBlock'[j][k] = QueueBlock[j][l]
                  /\ New(j, k) = At(j, l)
  <2>1. CASE j # i
    BY <1>3, <1>6, <2>1 DEF At
  <2>2. CASE j = i /\ k = 1
    BY <1>4, <1>6, <2>2 DEF At
  <2>3. CASE j = i /\ k # 1
    <3>1. k - 1 \in 1..Len(QueueBlock[j]) /\ QueueBlock'[j][k] = QueueBlock[j][k - 1]
      BY <1>4, <2>3
    <3>2. k = (k - 1) + 1
      BY <1>4, <1>7, <2>3
    <3>3. New(j, k) = At(j, k - 1)
      BY <1>6, <3>1 DEF At
    <3> QED BY <2>3, <3>1, <3>2, <3>3
  <2> QED BY <2>1, <2>2, <2>3
<1>9. ASSUME NEW j \in Id, NEW l \in 1..Len(QueueBlock[j])
      PROVE  \E k \in 1..Len(QueueBlock'[j]) :
               /\ k = (IF j = i THEN l + 1 ELSE l)
               /\ QueueBlock'[j][k] = QueueBlock[j][l] /\ New(j, k) = At(j, l)
  <2>1. CASE j # i
    BY <1>3, <1>6, <2>1 DEF At
  <2>2. CASE j = i
    BY <1>4, <1>6, <2>2 DEF At
  <2> QED BY <2>1, <2>2
<1>10. Received'
  BY <1>6, <1>8 DEF Received, At
<1>11. ListsSound'
  <2>1. \A m : m \in live' <=> \E j \in Id : \E k \in 1..Len(QueueBlock'[j]) : m = QueueBlock'[j][k]
    <3>1. ASSUME NEW m \in live'
          PROVE  \E j \in Id : \E k \in 1..Len(QueueBlock'[j]) : m = QueueBlock'[j][k]
      <4>1. CASE m = n
        BY <1>4, <1>7, <4>1
      <4>2. CASE m # n
        <5>1. PICK j \in Id : \E l \in 1..Len(QueueBlock[j]) : m = QueueBlock[j][l]
          BY <1>1, <4>2, LiveIs
        <5> QED BY <1>9, <5>1
      <4> QED BY <4>1, <4>2
    <3>2. ASSUME NEW j \in Id, NEW k \in 1..Len(QueueBlock'[j]) PROVE QueueBlock'[j][k] \in live'
      <4>1. QueueBlock'[j][k] = n \/ \E l \in 1..Len(QueueBlock[j]) : QueueBlock'[j][k] = QueueBlock[j][l]
        BY <1>8
      <4> QED BY <1>1, <4>1, LiveIs
    <3> QED BY <3>1, <3>2
  <2>2. ASSUME NEW j \in Id, NEW h \in Id,
               NEW k \in 1..Len(QueueBlock'[j]), NEW l \in 1..Len(QueueBlock'[h]),
               QueueBlock'[j][k] = QueueBlock'[h][l]
        PROVE  j = h /\ k = l
    <3>1. CASE j = i /\ k = 1 /\ QueueBlock'[j][k] = n
      BY <1>6, <1>8, <2>2, <3>1
    <3>2. CASE h = i /\ l = 1 /\ QueueBlock'[h][l] = n
      BY <1>6, <1>8, <2>2, <3>2
    <3>3. CASE /\ ~(j = i /\ k = 1 /\ QueueBlock'[j][k] = n)
               /\ ~(h = i /\ l = 1 /\ QueueBlock'[h][l] = n)
      <4>1. PICK a \in 1..Len(QueueBlock[j]) :
              k = (IF j = i THEN a + 1 ELSE a) /\ QueueBlock'[j][k] = QueueBlock[j][a]
        BY <1>8, <3>3
      <4>2. PICK b \in 1..Len(QueueBlock[h]) :
              l = (IF h = i THEN b + 1 ELSE b) /\ QueueBlock'[h][l] = QueueBlock[h][b]
        BY <1>8, <3>3
      <4>3. j = h /\ a = b
        BY <2>2, <4>1, <4>2 DEF ListsSound
      <4> QED BY <4>1, <4>2, <4>3
    <3> QED BY <3>1, <3>2, <3>3
  <2>3. ASSUME NEW j \in Id, NEW k \in 1..Len(QueueBlock'[j]), NEW l \in 1..Len(QueueBlock'[j]),
               New(j, k) = New(j, l)
        PROVE  k = l
    <3>1. CASE j = i /\ k = 1 /\ New(j, k) = r
      BY <1>6, <1>8, <2>3, <3>1
    <3>2. CASE j = i /\ l = 1 /\ New(j, l) = r
      BY <1>6, <1>8, <2>3, <3>2
    <3>3. CASE ~(j = i /\ k = 1 /\ New(j, k) = r) /\ ~(j = i /\ l = 1 /\ New(j, l) = r)
      <4>1. PICK a \in 1..Len(QueueBlock[j]) :
              k = (IF j = i THEN a + 1 ELSE a) /\ New(j, k) = At(j, a)
        BY <1>8, <3>3
      <4>2. PICK b \in 1..Len(QueueBlock[j]) :
              l = (IF j = i THEN b + 1 ELSE b) /\ New(j, l) = At(j, b)
        BY <1>8, <3>3
      <4>3. a = b
        BY <2>3, <4>1, <4>2, Apart
      <4> QED BY <4>1, <4>2, <4>3
    <3> QED BY <3>1, <3>2, <3>3
  <2>4. live' = UNION {Elements(QueueBlock'[j]) : j \in Id}
    BY <2>1 DEF Elements
  <2>5. ASSUME NEW j \in Id, NEW m \in Elements(QueueBlock'[j]), NEW o \in Elements(QueueBlock'[j]),
               receiver'[m] = receiver'[o]
        PROVE  m = o
    <3>1. PICK k \in 1..Len(QueueBlock'[j]) : m = QueueBlock'[j][k]
      BY DEF Elements
    <3>2. PICK l \in 1..Len(QueueBlock'[j]) : o = QueueBlock'[j][l]
      BY DEF Elements
    <3> QED BY <2>3, <2>5, <3>1, <3>2
  <2> QED BY <2>2, <2>4, <2>5 DEF ListsSound
<1>12. ASSUME pc = "handler", ~stray' PROVE Control'
  <2>1. id \in Id /\ Walking /\ ~stray /\ n # curHandler
    BY <1>1, <1>12 DEF Control, Walking
  <2>2. \A s \in stayed' : \E q \in 1..Len(QueueBlock'[id']) : New(id', q) = s
    BY <1>2, <1>9, <2>1 DEF Walking
  <2>3. PICK g \in 1..(Len(QueueBlock[id]) + 1) : GoesOn(g)
    BY <2>1 DEF Walking
  <2>4. Len(QueueBlock[id]) \in Nat /\ Len(QueueBlock'[id]) = (IF id = i THEN Len(QueueBlock[id]) + 1 ELSE Len(QueueBlock[id]))
    BY <1>3, <1>4, <2>1, ListOf
  <2>15. PICK t : t = IF id = i THEN g + 1 ELSE g
    OBVIOUS
  <2>5. t \in 1..(Len(QueueBlock'[id]) + 1)
    BY <2>3, <2>4, <2>15
  <2>6. Entry(QueueBlock'[id], t) = Entry(QueueBlock[id], g)
    <3>1. CASE g = Len(QueueBlock[id]) + 1
      <4>1. t = Len(QueueBlock'[id]) + 1
        BY <2>4, <2>15, <3>1
      <4> QED BY <3>1, <4>1 DEF Entry
    <3>2. CASE g # Len(QueueBlock[id]) + 1
      <4>1. g \in 1..Len(QueueBlock[id]) /\ t # Len(QueueBlock'[id]) + 1
        BY <2>3, <2>4, <2>15, <3>2
      <4>2. QueueBlock'[id][t] = QueueBlock[id][g]
        BY <1>3, <1>4, <2>1, <2>15, <4>1
      <4> QED BY <3>2, <4>1, <4>2 DEF Entry
    <3> QED BY <3>1, <3>2
  <2>7. Links(t)'
    <3>1. CASE curHandler \in live
      <4>1. g - 1 \in 1..Len(QueueBlock[id]) /\ curHandler = QueueBlock[id][g - 1]
        BY <1>12, <2>3, <3>1 DEF GoesOn, Links
      <4>2. t - 1 = (IF id = i THEN (g - 1) + 1 ELSE g - 1)
        BY <2>3, <2>4, <2>15
      <4>3. t - 1 \in 1..Len(QueueBlock'[id]) /\ QueueBlock'[id][t - 1] = QueueBlock[id][g - 1]
        BY <1>3, <1>4, <2>1, <4>1, <4>2
      <4>4. curHandler \in live'
        BY <1>1, <3>1
      <4> QED BY <1>2, <1>12, <4>1, <4>3, <4>4 DEF Links
    <3>2. CASE curHandler \notin live
      <4>1. left = Entry(QueueBlock[id], g)
        BY <1>12, <2>3, <3>2 DEF GoesOn, Links
      <4>2. curHandler \notin live'
        BY <1>1, <2>1, <3>2
      <4> QED BY <1>2, <1>12, <2>6, <4>1, <4>2 DEF Links
    <3> QED BY <3>1, <3>2
  <2>8. ASSUME NEW q \in 1..Len(QueueBlock'[id]), t <= q PROVE called[New(id, q)] = 0
    <3>1. PICK l \in 1..Len(QueueBlock[id]) :
            q = (IF id = i THEN l + 1 ELSE l) /\ New(id, q) = At(id, l)
      BY <1>8, <2>1, <2>3, <2>8, <2>15
    <3>2. g <= l
      BY <2>3, <2>4, <2>8, <2>15, <3>1
    <3> QED BY <2>3, <3>1, <3>2 DEF GoesOn
  <2>9. ASSUME NEW q \in 1..Len(QueueBlock'[id]), q < t, New(id, q) \in stayed
        PROVE  called[New(id, q)] = 1
    <3>1. r \notin stayed \/ id # i
      BY <1>6, <2>1 DEF Walking
    <3>2. PICK l \in 1..Len(QueueBlock[id]) :
            q = (IF id = i THEN l + 1 ELSE l) /\ New(id, q) = At(id, l)
      BY <1>8, <2>1, <2>9, <2>15, <3>1
    <3>3. l < g
      BY <2>3, <2>4, <2>9, <2>15, <3>2
    <3> QED BY <2>3, <2>9, <3>2, <3>3 DEF GoesOn
  <2>10. GoesOn(t)'
    BY <1>2, <2>7, <2>8, <2>9 DEF GoesOn, At
  <2>11. Walking'
    <3>1. /\ id' \in Id /\ t \in 1..(Len(QueueBlock'[id']) + 1)
          /\ \A s \in stayed' : \E q \in 1..Len(QueueBlock'[id']) : receiver'[QueueBlock'[id'][q]] = s
          /\ \A s \in Receiver : called'[s] <= 1
      BY <1>2, <2>1, <2>2, <2>5 DEF Walking
    <3> QED BY <2>10, <3>1 DEF Walking, At
  <2>12. pc' = "handler"
    BY <1>2, <1>12
  <2> QED BY <2>11, <2>12, HandlerControl
<1>13. ASSUME pc = "idle" \/ stray' PROVE Control'
  <2>1. CASE pc = "idle"
    <3>1. curHandler = Null /\ n # Null /\ id = Null /\ left = Null
      BY <1>1, <2>1, NullAssumption DEF Control
    <3>3. stray => stray'
      BY <1>1
    <3>4. ~stray => called = Nobody
      BY <2>1 DEF Control
    <3>5. pc' = "idle" /\ curHandler' = Null /\ id' = Null /\ left' = Null /\ called' = called
      BY <1>2, <2>1, <3>1
    <3> QED BY <3>3, <3>4, <3>5, IdleControl
  <2>2. CASE pc = "handler" /\ stray'
    <3>1. pc' = "handler"
      BY <1>2, <2>2
    <3> QED BY <2>2, <3>1, HandlerControl
  <2> QED BY <1>2, <1>13, <2>1, <2>2
<1>14. Control'
  BY <1>2, <1>12, <1>13
<1> QED BY <1>5, <1>10, <1>11, <1>14

\* Where the lists are cut by Detach(ids, r).
LEMMA Cut ==
  ASSUME IInv, NEW ids \in SUBSET Id, NEW r \in Receiver, Detach(ids, r)
  PROVE  \E cut : \A i \in Id :
           /\ Shorter(QueueBlock[i], cut[i], QueueBlock'[i])
           /\ cut[i] \in 1..Len(QueueBlock[i]) => i \in ids /\ At(i, cut[i]) = r
           /\ i \in ids => \A q \in 1..Len(QueueBlock[i]) : At(i, q) = r => q = cut[i]
<1> DEFINE Fits(i, k) ==
             /\ Shorter(QueueBlock[i], k, QueueBlock'[i])
             /\ k \in 1..Len(QueueBlock[i]) => i \in ids /\ At(i, k) = r
             /\ i \in ids => \A q \in 1..Len(QueueBlock[i]) : At(i, q) = r => q = k
<1>1. ASSUME NEW i \in Id PROVE \E k : Fits(i, k)
  <2>1. QueueBlock[i] \in Seq(Node) /\ Len(QueueBlock[i]) \in Nat
    BY ListOf DEF IInv
  <2>2. CASE i \in ids
    <3>1. QueueBlock'[i] = Without(QueueBlock[i], r)
      BY <2>2 DEF Detach
    <3>2. \A k, l \in 1..Len(QueueBlock[i]) :
            receiver[QueueBlock[i][k]] = receiver[QueueBlock[i][l]] => k = l
      BY Apart DEF IInv, At
    <3>3. PICK k : /\ Shorter(QueueBlock[i], k, Without(QueueBlock[i], r))
                   /\ k \in 1..Len(QueueBlock[i]) => receiver[QueueBlock[i][k]] = r
                   /\ \A q \in 1..Len(QueueBlock[i]) : receiver[QueueBlock[i][q]] = r => q = k
      BY <2>1, <3>2, WithoutIs
    <3> QED BY <2>2, <3>1, <3>3 DEF At
  <2>3. CASE i \notin ids
    <3>1. QueueBlock'[i] = QueueBlock[i]
      BY <2>3 DEF Detach
    <3>2. Shorter(QueueBlock[i], Len(QueueBlock[i]) + 1, QueueBlock'[i])
      BY <2>1, <3>1, NothingShorter
    <3>3. Len(QueueBlock[i]) + 1 \notin 1..Len(QueueBlock[i])
      BY <2>1
    <3> QED BY <2>3, <3>2, <3>3
  <2> QED BY <2>2, <2>3
<1> DEFINE cut == [i \in Id |-> CHOOSE k : Fits(i, k)]
<1>2. ASSUME NEW i \in Id PROVE Fits(i, cut[i])
  BY <1>1
<1> QED BY <1>2

\* Unsubscribe and UnsubscribeAllIDs: one receiver out of some of the lists.
LEMMA DetachStep ==
  ASSUME IInv, NEW ids \in SUBSET Id, NEW r \in Receiver, Detach(ids, r)
  PROVE  IInv'
<1> USE DEF IInv
<1> DEFINE New(j, k) == receiver'[QueueBlock'[j][k]]
<1> DEFINE gone == {m \in UNION {Elements(QueueBlock[i]) : i \in ids} : receiver[m] = r}
<1>1. /\ pc' = pc /\ id' = id /\ curHandler' = curHandler /\ called' = called
      /\ receiver' = [m \in Node |-> IF m \in gone THEN Null ELSE receiver[m]]
      /\ live' = live \ gone
      /\ left' = LinkLeft(gone) /\ stray' = (stray \/ left \in gone)
      /\ pc \in {"idle", "handler"}
      /\ stayed' = IF id \in ids THEN stayed \ {r} ELSE stayed
  BY DEF Detach, InTask
<1> HIDE DEF gone
<1>2. PICK cut : \A i \in Id :
        /\ Shorter(QueueBlock[i], cut[i], QueueBlock'[i])
        /\ cut[i] \in 1..Len(QueueBlock[i]) => i \in ids /\ At(i, cut[i]) = r
        /\ i \in ids => \A q \in 1..Len(QueueBlock[i]) : At(i, q) = r => q = cut[i]
  BY Cut
\* What is deleted.
<1>20. ASSUME NEW j \in Id, NEW q \in 1..Len(QueueBlock[j])
       PROVE  QueueBlock[j][q] \in gone <=> q = cut[j]
  <2>1. q = cut[j] <=> j \in ids /\ At(j, q) = r
    BY <1>2
  <2>2. ASSUME QueueBlock[j][q] \in gone PROVE j \in ids /\ At(j, q) = r
    <3>1. PICK h \in ids : QueueBlock[j][q] \in Elements(QueueBlock[h]) /\ receiver[QueueBlock[j][q]] = r
      BY <2>2 DEF gone
    <3>2. PICK k \in 1..Len(QueueBlock[h]) : QueueBlock[j][q] = QueueBlock[h][k]
      BY <3>1 DEF Elements
    <3>3. j = h
      BY <3>2 DEF ListsSound
    <3> QED BY <3>1, <3>3 DEF At
  <2>3. ASSUME j \in ids, At(j, q) = r PROVE QueueBlock[j][q] \in gone
    BY <2>3 DEF gone, Elements, At
  <2> QED BY <2>1, <2>2, <2>3
\* A place that is left keeps its receiver.
<1>21. ASSUME NEW j \in Id, NEW q \in 1..Len(QueueBlock[j]), q # cut[j]
       PROVE  receiver'[QueueBlock[j][q]] = At(j, q)
  <2>1. QueueBlock[j][q] \in Node
    BY ListOf
  <2> QED BY <1>1, <1>20, <1>21, <2>1 DEF At
\* Where a place of a list was before.
<1>3. ASSUME NEW j \in Id, NEW q \in 1..Len(QueueBlock'[j])
      PROVE  /\ From(q, cut[j]) \in 1..Len(QueueBlock[j]) /\ From(q, cut[j]) # cut[j]
             /\ QueueBlock'[j][q] = QueueBlock[j][From(q, cut[j])]
             /\ New(j, q) = At(j, From(q, cut[j]))
  <2>1. QueueBlock[j] \in Seq(Node) /\ Shorter(QueueBlock[j], cut[j], QueueBlock'[j])
    BY <1>2, ListOf
  <2>2. From(q, cut[j]) \in 1..Len(QueueBlock[j]) /\ From(q, cut[j]) # cut[j]
    BY <2>1, Spots
  <2>3. QueueBlock'[j][q] = QueueBlock[j][From(q, cut[j])]
    BY <2>1 DEF Shorter
  <2> QED BY <1>21, <2>2, <2>3
\* Where a place that is left goes.
<1>4. ASSUME NEW j \in Id, NEW q \in 1..Len(QueueBlock[j]), q # cut[j]
      PROVE  /\ Spot(q, cut[j]) \in 1..Len(QueueBlock'[j])
             /\ QueueBlock'[j][Spot(q, cut[j])] = QueueBlock[j][q]
             /\ New(j, Spot(q, cut[j])) = At(j, q)
  <2>1. QueueBlock[j] \in Seq(Node) /\ Shorter(QueueBlock[j], cut[j], QueueBlock'[j])
    BY <1>2, ListOf
  <2>2. /\ Spot(q, cut[j]) \in 1..Len(QueueBlock'[j])
        /\ QueueBlock'[j][Spot(q, cut[j])] = QueueBlock[j][q]
    BY <1>4, <2>1, Spots
  <2> QED BY <1>4, <1>21, <2>2
<1>5. ASSUME NEW j \in Id, NEW q \in 1..Len(QueueBlock'[j]), NEW l \in 1..Len(QueueBlock'[j]),
             From(q, cut[j]) = From(l, cut[j])
      PROVE  q = l
  <2>1. QueueBlock[j] \in Seq(Node) /\ Shorter(QueueBlock[j], cut[j], QueueBlock'[j])
    BY <1>2, ListOf
  <2> QED BY <1>5, <2>1, Spots
\* What is not detached.
<1>6. ASSUME NEW j \in Id, NEW q \in 1..Len(QueueBlock[j])
      PROVE  q # cut[j] <=> j \notin ids \/ At(j, q) # r
  BY <1>2
<1>7. Types'
  <2>1. QueueBlock' = [j \in Id |-> QueueBlock'[j]]
    BY DEF Detach
  <2>2. \A j \in Id : QueueBlock'[j] \in Seq(Node)
    BY <1>2 DEF Shorter
  <2>3. QueueBlock' \in [Id -> Seq(Node)]
    BY <2>1, <2>2
  <2>4. live' \subseteq Node /\ receiver' \in [Node -> Receiver \cup {Null}] /\ stayed' \subseteq Receiver
    BY <1>1 DEF Types
  <2>5. left' \in Node \cup {Null}
    <3>1. CASE curHandler \in gone /\ ~stray
      <4>1. pc = "handler" /\ Walking /\ curHandler \in live
        <5>1. curHandler \in live
          BY <3>1 DEF gone, ListsSound
        <5> QED BY <1>1, <3>1, <5>1, NullAssumption DEF Control, Types
      <4>2. PICK g \in 1..(Len(QueueBlock[id]) + 1) : GoesOn(g)
        BY <4>1 DEF Walking
      <4>3. Following = Entry(QueueBlock[id], g)
        BY <4>1, <4>2, FollowingIs DEF GoesOn, Links, Walking
      <4> QED BY <1>1, <3>1, <4>1, <4>3, EntryIs DEF LinkLeft, Walking
    <3>2. CASE ~(curHandler \in gone /\ ~stray)
      BY <1>1, <3>2 DEF LinkLeft, Types
    <3> QED BY <3>1, <3>2
  <2>6. stray' \in BOOLEAN
    BY <1>1
  <2> QED BY <1>1, <2>3, <2>4, <2>5, <2>6 DEF Types
<1>8. Received'
  BY <1>3 DEF Received, At
<1>9. ListsSound'
  <2>1. ASSUME NEW m \in live' PROVE \E j \in Id : \E q \in 1..Len(QueueBlock'[j]) : m = QueueBlock'[j][q]
    <3>1. m \in live /\ m \notin gone
      BY <1>1, <2>1
    <3>2. PICK j \in Id : \E q \in 1..Len(QueueBlock[j]) : m = QueueBlock[j][q]
      BY <3>1, LiveIs
    <3>3. PICK q \in 1..Len(QueueBlock[j]) : m = QueueBlock[j][q]
      BY <3>2
    <3> QED BY <1>4, <1>20, <3>1, <3>3
  <2>2. ASSUME NEW j \in Id, NEW q \in 1..Len(QueueBlock'[j]) PROVE QueueBlock'[j][q] \in live'
    <3> DEFINE l == From(q, cut[j])
    <3>1. l \in 1..Len(QueueBlock[j]) /\ l # cut[j] /\ QueueBlock'[j][q] = QueueBlock[j][l]
      BY <1>3
    <3> HIDE DEF l
    <3>2. QueueBlock[j][l] \in live /\ QueueBlock[j][l] \notin gone
      BY <1>20, <3>1, LiveIs
    <3> QED BY <1>1, <3>1, <3>2
  <2>3. live' = UNION {Elements(QueueBlock'[j]) : j \in Id}
    BY <2>1, <2>2 DEF Elements
  <2>4. ASSUME NEW j \in Id, NEW h \in Id,
               NEW q \in 1..Len(QueueBlock'[j]), NEW l \in 1..Len(QueueBlock'[h]),
               QueueBlock'[j][q] = QueueBlock'[h][l]
        PROVE  j = h /\ q = l
    <3> DEFINE a == From(q, cut[j])
               b == From(l, cut[h])
    <3>1. /\ a \in 1..Len(QueueBlock[j]) /\ b \in 1..Len(QueueBlock[h])
          /\ QueueBlock[j][a] = QueueBlock[h][b]
      BY <1>3, <2>4
    <3> HIDE DEF a, b
    <3>2. j = h /\ a = b
      BY <3>1 DEF ListsSound
    <3> QED BY <1>5, <3>2 DEF a, b
  <2>5. ASSUME NEW j \in Id, NEW m \in Elements(QueueBlock'[j]), NEW o \in Elements(QueueBlock'[j]),
               receiver'[m] = receiver'[o]
        PROVE  m = o
    <3>1. PICK q \in 1..Len(QueueBlock'[j]) : m = QueueBlock'[j][q]
      BY DEF Elements
    <3>2. PICK l \in 1..Len(QueueBlock'[j]) : o = QueueBlock'[j][l]
      BY DEF Elements
    <3>3. At(j, From(q, cut[j])) = At(j, From(l, cut[j]))
      BY <1>3, <2>5, <3>1, <3>2
    <3>4. From(q, cut[j]) = From(l, cut[j])
      BY <1>3, <3>3, Apart
    <3> QED BY <1>5, <3>1, <3>2, <3>4
  <2> QED BY <2>3, <2>4, <2>5 DEF ListsSound
<1>10. ASSUME pc = "handler", ~stray' PROVE Control'
  <2>1. id \in Id /\ Walking /\ ~stray /\ left \notin gone
    BY <1>1, <1>10 DEF Control, Walking
  <2>2. PICK g \in 1..(Len(QueueBlock[id]) + 1) : GoesOn(g)
    BY <2>1 DEF Walking
  <2> DEFINE c == cut[id]
             old == QueueBlock[id]
             new == QueueBlock'[id]
  <2>3. /\ Len(old) \in Nat /\ c \in 1..(Len(old) + 1)
        /\ Len(new) = IF c <= Len(old) THEN Len(old) - 1 ELSE Len(old)
        /\ \A l \in 1..Len(new) : new[l] = old[From(l, c)]
    BY <1>2, <2>1, ListOf DEF Shorter
  <2>4. /\ \A l \in 1..Len(new) : From(l, c) \in 1..Len(old) /\ New(id, l) = At(id, From(l, c))
        /\ \A l \in 1..Len(old) : old[l] \in gone <=> l = c
    BY <1>3, <1>20, <2>1
  <2> HIDE DEF c
  <2>15. PICK t : t = IF c < g THEN g - 1 ELSE g
    OBVIOUS
  <2>5. t \in 1..(Len(new) + 1)
    BY <2>2, <2>3, <2>15
  <2>6. \A l \in 1..Len(new) : /\ (t <= l => g <= From(l, c))
                                /\ (l < t => From(l, c) < g)
    BY <2>2, <2>3, <2>15 DEF From
  \* What stood at g stands at t, unless it was taken away.
  <2>7. ASSUME c # g \/ g = Len(old) + 1 PROVE Entry(new, t) = Entry(old, g)
    <3>1. CASE g = Len(old) + 1
      <4>1. t = Len(new) + 1
        BY <2>3, <2>15, <3>1
      <4> QED BY <3>1, <4>1 DEF Entry
    <3>2. CASE g # Len(old) + 1
      <4>1. t # Len(new) + 1 /\ t \in 1..Len(new) /\ From(t, c) = g
        BY <2>2, <2>3, <2>7, <2>15, <3>2 DEF From
      <4>2. new[t] = old[g]
        BY <2>3, <4>1
      <4> QED BY <3>2, <4>1, <4>2 DEF Entry
    <3> QED BY <3>1, <3>2
  <2>8. Links(t)'
    <3>1. CASE curHandler \in live
      <4>1. g - 1 \in 1..Len(old) /\ curHandler = old[g - 1]
        BY <1>10, <2>2, <3>1 DEF GoesOn, Links
      <4>2. CASE c # g - 1
        <5>1. t - 1 \in 1..Len(new) /\ From(t - 1, c) = g - 1
          BY <2>2, <2>3, <2>15, <4>1, <4>2 DEF From
        <5>2. new[t - 1] = curHandler
          BY <2>3, <4>1, <5>1
        <5>3. curHandler \in live'
          BY <1>1, <2>4, <3>1, <4>1, <4>2
        <5> QED BY <1>1, <1>10, <5>1, <5>2, <5>3 DEF Links
      <4>3. CASE c = g - 1
        <5>1. curHandler \in gone
          BY <2>4, <4>1, <4>3
        <5>2. left' = Following
          BY <1>1, <2>1, <5>1 DEF LinkLeft
        <5>3. Following = Entry(old, g)
          BY <2>1, <2>2, <4>1, FollowingIs
        <5>4. Entry(new, t) = Entry(old, g)
          BY <2>3, <2>7, <4>3
        <5>5. curHandler \notin live'
          BY <1>1, <5>1
        <5> QED BY <1>1, <1>10, <5>2, <5>3, <5>4, <5>5 DEF Links
      <4> QED BY <4>2, <4>3
    <3>2. CASE curHandler \notin live
      <4>1. left = Entry(old, g)
        BY <1>10, <2>2, <3>2 DEF GoesOn, Links
      <4>2. curHandler \notin gone /\ curHandler \notin live'
        BY <1>1, <3>2 DEF gone, ListsSound
      <4>3. left' = left
        BY <1>1, <4>2 DEF LinkLeft
      <4>4. c # g \/ g = Len(old) + 1
        <5>1. ASSUME g # Len(old) + 1 PROVE c # g
          <6>1. g \in 1..Len(old)
            BY <2>2, <2>3, <5>1
          <6>2. left = old[g]
            BY <4>1, <5>1 DEF Entry
          <6> QED BY <2>1, <2>4, <6>1, <6>2
        <5> QED BY <5>1
      <4>5. Entry(new, t) = Entry(old, g)
        BY <2>7, <4>4
      <4> QED BY <1>1, <1>10, <4>1, <4>2, <4>3, <4>5 DEF Links
    <3> QED BY <3>1, <3>2
  <2>9. GoesOn(t)'
    <3>1. ASSUME NEW q \in 1..Len(new), t <= q PROVE called[New(id, q)] = 0
      BY <2>2, <2>4, <2>6, <3>1 DEF GoesOn
    <3>2. stayed' \subseteq stayed
      BY <1>1
    <3>3. ASSUME NEW q \in 1..Len(new), q < t, New(id, q) \in stayed' PROVE called[New(id, q)] = 1
      BY <2>2, <2>4, <2>6, <3>2, <3>3 DEF GoesOn
    <3>4. id' = id /\ called' = called
      BY <1>1
    <3> QED BY <2>8, <3>1, <3>3, <3>4 DEF GoesOn, At
  <2>10. ASSUME NEW u \in stayed' PROVE \E q \in 1..Len(new) : New(id, q) = u
    <3>1. u \in stayed /\ (id \notin ids \/ u # r)
      BY <1>1
    <3>2. PICK q \in 1..Len(QueueBlock[id]) : At(id, q) = u
      BY <2>1, <3>1 DEF Walking
    <3>3. q # cut[id]
      BY <1>6, <2>1, <3>1, <3>2
    <3> QED BY <1>4, <2>1, <3>2, <3>3
  <2>11. Walking'
    <3>1. /\ id' \in Id /\ t \in 1..(Len(QueueBlock'[id']) + 1)
          /\ \A u \in stayed' : \E q \in 1..Len(QueueBlock'[id']) : receiver'[QueueBlock'[id'][q]] = u
          /\ \A u \in Receiver : called'[u] <= 1
      BY <1>1, <2>1, <2>5, <2>10 DEF Walking
    <3> QED BY <2>9, <3>1 DEF Walking, At
  <2>12. pc' = "handler"
    BY <1>1, <1>10
  <2> QED BY <2>11, <2>12, HandlerControl
<1>11. ASSUME pc = "idle" PROVE Control'
  <2>1. curHandler = Null /\ left = Null /\ id = Null
    BY <1>11 DEF Control
  <2>2. \A m \in gone : m \in Node
    BY DEF gone, ListsSound, Types
  <2>3. left' = left
    BY <1>1, <2>1, <2>2, NullAssumption DEF LinkLeft
  <2>4. stray => stray'
    BY <1>1
  <2>5. ~stray => called = Nobody
    BY <1>11 DEF Control
  <2>6. pc' = "idle" /\ curHandler' = Null /\ id' = Null /\ left' = Null /\ called' = called
    BY <1>1, <1>11, <2>1, <2>3
  <2> QED BY <2>4, <2>5, <2>6, IdleControl
<1>12. ASSUME pc = "handler", stray' PROVE Control'
  BY <1>1, <1>12, HandlerControl
<1>13. Control'
  <2>1. pc = "handler" \/ pc = "idle"
    BY <1>1
  <2> QED BY <1>10, <1>11, <1>12, <2>1
<1> QED BY <1>7, <1>8, <1>9, <1>13

\* The lists do not change.
LEMMA SameLists ==
  ASSUME IInv, UNCHANGED lists
  PROVE  /\ ListsSound' /\ Received'
         /\ QueueBlock' = QueueBlock /\ receiver' = receiver /\ live' = live
<1>1. QueueBlock' = QueueBlock /\ receiver' = receiver /\ live' = live
  BY DEF lists
<1> QED BY <1>1 DEF IInv, ListsSound, Received, At

\* The walk begins: nobody has been called, and all there are stay.
LEMMA DispatchStep ==
  ASSUME IInv, NEW i \in Id, Dispatch(i)
  PROVE  IInv'
<1>1. /\ pc = "idle" /\ pc' = "walk" /\ id' = i /\ curHandler' = First(i) /\ called' = Nobody
      /\ stayed' = Subscribers(i) /\ left' = left /\ stray' = stray
      /\ ListsSound' /\ Received'
      /\ QueueBlock' = QueueBlock /\ receiver' = receiver /\ live' = live
  BY SameLists DEF Dispatch
<1>2. QueueBlock[i] \in Seq(Node) /\ Len(QueueBlock[i]) \in Nat
      /\ \A k \in 1..Len(QueueBlock[i]) : QueueBlock[i][k] \in Node /\ At(i, k) \in Receiver
  BY ListOf DEF IInv, Received
<1>3. \A u \in stayed' : u \in Receiver /\ \E q \in 1..Len(QueueBlock[i]) : At(i, q) = u
  <2>1. ASSUME NEW u \in stayed' PROVE u \in Receiver /\ \E q \in 1..Len(QueueBlock[i]) : At(i, q) = u
    <3>1. PICK n \in Elements(QueueBlock[i]) : u = receiver[n]
      BY <1>1 DEF Subscribers
    <3>2. PICK q \in 1..Len(QueueBlock[i]) : n = QueueBlock[i][q]
      BY DEF Elements
    <3> QED BY <1>2, <3>1, <3>2 DEF At
  <2> QED BY <2>1
<1>4. /\ \A u \in Receiver : called'[u] = 0
      /\ called' \in [Receiver -> 0..Twice]
  BY <1>1 DEF Nobody, Twice
<1>5. curHandler' = Entry(QueueBlock[i], 1) /\ 1 \in 1..(Len(QueueBlock[i]) + 1)
  <2>1. QueueBlock[i] = <<>> <=> 1 = Len(QueueBlock[i]) + 1
    BY <1>2, EmptySeq
  <2> QED BY <1>1, <1>2, <2>1 DEF First, Entry
<1>6. GoesOn(1)'
  BY <1>1, <1>2, <1>4, <1>5 DEF GoesOn, Links, At
<1>7. Walking'
  BY <1>1, <1>3, <1>4, <1>5, <1>6 DEF Walking, At
<1>8. Types'
  BY <1>1, <1>3, <1>4, <1>5, EntryIs DEF IInv, Types
<1>9. Control'
  BY <1>1, <1>7 DEF IInv, Control
<1> QED BY <1>1, <1>8, <1>9 DEF IInv

\* The handler at g is called, for the first time.
LEMMA CallStep ==
  ASSUME IInv, Call
  PROVE  IInv'
<1>1. /\ pc = "walk" /\ pc' = "handler" /\ curHandler # Null
      /\ called' = [called EXCEPT ![receiver[curHandler]] = IF @ < Twice THEN @ + 1 ELSE @]
      /\ id' = id /\ curHandler' = curHandler /\ stayed' = stayed
      /\ left' = left /\ stray' = stray
      /\ ListsSound' /\ Received'
      /\ QueueBlock' = QueueBlock /\ receiver' = receiver /\ live' = live
  BY SameLists DEF Call
<1>2. called' \in [Receiver -> 0..Twice]
  <2>1. \A u \in Receiver : called[u] \in 0..Twice
    BY DEF IInv, Types
  <2>2. \A u \in Receiver : (IF called[u] < Twice THEN called[u] + 1 ELSE called[u]) \in 0..Twice
    BY <2>1 DEF Twice
  <2> QED BY <1>1, <2>1, <2>2 DEF IInv, Types
<1>3. Types'
  BY <1>1, <1>2 DEF IInv, Types
<1>4. ASSUME ~stray PROVE Walking'
  <2>1. Walking /\ id \in Id
    BY <1>1, <1>4 DEF IInv, Control, Walking
  <2>2. PICK g \in 1..(Len(QueueBlock[id]) + 1) : GoesOn(g)
    BY <2>1 DEF Walking
  <2>3. g \in 1..Len(QueueBlock[id]) /\ curHandler = QueueBlock[id][g]
    BY <1>1, <2>1, <2>2, EntryIs DEF GoesOn, Links, IInv
  <2>4. Len(QueueBlock[id]) \in Nat /\ curHandler \in live
    BY <2>1, <2>3, ListOf, LiveIs DEF IInv
  <2>5. At(id, g) = receiver[curHandler] /\ At(id, g) \in Receiver /\ called[At(id, g)] = 0
    BY <2>1, <2>2, <2>3, <2>4 DEF GoesOn, At, IInv, Received
  <2>6. called'[At(id, g)] = 1 /\ \A u \in Receiver : u # At(id, g) => called'[u] = called[u]
    BY <1>1, <2>5 DEF IInv, Types, Twice
  <2>7. \A q \in 1..Len(QueueBlock[id]) : q # g =>
          At(id, q) \in Receiver /\ called'[At(id, q)] = called[At(id, q)]
    BY <2>1, <2>3, <2>6, Apart DEF IInv, Received
  <2>8. (g + 1) - 1 = g /\ g + 1 \in 1..(Len(QueueBlock[id]) + 1)
    BY <2>3, <2>4
  <2> DEFINE h == g + 1
  <2>9. Links(h)'
    BY <1>1, <2>3, <2>4, <2>8 DEF Links
  <2>10. ASSUME NEW q \in 1..Len(QueueBlock[id]), h <= q PROVE called'[At(id, q)] = 0
    <3>1. q # g /\ g <= q
      BY <2>3, <2>4, <2>10
    <3> QED BY <2>2, <2>7, <3>1 DEF GoesOn
  <2>11. ASSUME NEW q \in 1..Len(QueueBlock[id]), q < h, At(id, q) \in stayed PROVE called'[At(id, q)] = 1
    <3>1. CASE q = g
      BY <2>6, <3>1
    <3>2. CASE q # g
      <4>1. q < g
        BY <2>3, <2>4, <2>11, <3>2
      <4> QED BY <2>2, <2>7, <2>11, <3>2, <4>1 DEF GoesOn
    <3> QED BY <3>1, <3>2
  <2> HIDE DEF h
  <2>12. GoesOn(h)'
    BY <1>1, <2>9, <2>10, <2>11 DEF GoesOn, At
  <2>13. \A u \in Receiver : called'[u] <= 1
    BY <2>1, <2>6 DEF Walking
  <2> QED BY <1>1, <2>1, <2>8, <2>12, <2>13 DEF Walking, At, h
<1>5. Control'
  BY <1>1, <1>4 DEF IInv, Control
<1> QED BY <1>1, <1>3, <1>5 DEF IInv

\* The walk goes on to place g of the list as it is now, or ends.
LEMMA ReturnStep ==
  ASSUME IInv, Return
  PROVE  IInv'
<1>1. /\ pc = "handler" /\ pc' = "walk" /\ left' = Null /\ ~stray
      /\ curHandler' = IF curHandler \in live THEN Following ELSE left
      /\ id' = id /\ called' = called /\ stayed' = stayed /\ stray' = stray
      /\ ListsSound' /\ Received'
      /\ QueueBlock' = QueueBlock /\ receiver' = receiver /\ live' = live
  BY SameLists DEF Return
<1>2. Walking /\ id \in Id
  BY <1>1 DEF IInv, Control, Walking
<1>3. PICK g \in 1..(Len(QueueBlock[id]) + 1) : GoesOn(g)
  BY <1>2 DEF Walking
<1>4. curHandler' = Entry(QueueBlock[id], g)
  <2>1. curHandler \in live => Following = Entry(QueueBlock[id], g)
    BY <1>1, <1>2, <1>3, FollowingIs DEF GoesOn, Links, IInv
  <2> QED BY <1>1, <1>3, <2>1 DEF GoesOn, Links
<1>5. GoesOn(g)'
  BY <1>1, <1>3, <1>4 DEF GoesOn, Links, At
<1>6. Walking'
  BY <1>1, <1>2, <1>5 DEF Walking, At
<1>7. Types'
  BY <1>1, <1>2, <1>4, EntryIs DEF IInv, Types
<1>8. Control'
  BY <1>1, <1>6 DEF Control
<1> QED BY <1>1, <1>7, <1>8 DEF IInv

LEMMA ReuseStep ==
  ASSUME IInv, Reuse
  PROVE  IInv'
<1>1. /\ pc = "handler" /\ stray' = TRUE /\ stayed' = stayed
      /\ pc' = pc /\ id' = id /\ curHandler' = curHandler /\ left' = left /\ called' = called
      /\ ListsSound' /\ Received'
      /\ QueueBlock' = QueueBlock /\ receiver' = receiver /\ live' = live
  BY SameLists DEF Reuse, walk
<1> QED BY <1>1 DEF IInv, Types, Control

LEMMA AstrayStep ==
  ASSUME IInv, ReturnAstray
  PROVE  IInv'
<1>1. /\ pc' \in {"walk", "lost"} /\ left' = Null /\ stray /\ stray' = stray
      /\ curHandler' \in Node \cup {Null}
      /\ id' = id /\ called' = called /\ stayed' = stayed
      /\ ListsSound' /\ Received'
      /\ QueueBlock' = QueueBlock /\ receiver' = receiver /\ live' = live
  BY SameLists DEF ReturnAstray, IInv, Types
<1> QED BY <1>1 DEF IInv, Types, Control

LEMMA FinishStep ==
  ASSUME IInv, Finish
  PROVE  IInv'
<1>1. /\ pc = "walk" /\ curHandler = Null
      /\ pc' = "idle" /\ id' = Null /\ called' = Nobody /\ stayed' = {} /\ curHandler' = curHandler
      /\ stray' = FALSE /\ left' = left
      /\ ListsSound' /\ Received'
      /\ QueueBlock' = QueueBlock /\ receiver' = receiver /\ live' = live
  BY SameLists DEF Finish
<1>2. called' \in [Receiver -> 0..Twice]
  BY <1>1 DEF Nobody, Twice
<1>3. Nobody' = Nobody
  BY DEF Nobody
<1> QED BY <1>1, <1>2, <1>3 DEF IInv, Types, Control

\* A step in which nothing changes.
LEMMA Stutter == ASSUME IInv, UNCHANGED vars PROVE IInv'
<1>1. ListsSound' /\ Received' /\ QueueBlock' = QueueBlock /\ receiver' = receiver /\ live' = live
  BY SameLists DEF vars
<1>2. /\ pc' = pc /\ id' = id /\ curHandler' = curHandler /\ left' = left /\ called' = called
      /\ stray' = stray /\ stayed' = stayed /\ Nobody' = Nobody
  BY DEF vars, walk, Nobody
<1>3. Types'
  BY <1>1, <1>2 DEF IInv, Types
<1>4. Control'
  <2>1. Walking => Walking'
    BY <1>1, <1>2 DEF Walking, GoesOn, Links, At
  <2> QED BY <1>2, <2>1 DEF IInv, Control
<1> QED BY <1>1, <1>3, <1>4 DEF IInv

LEMMA NextInv == IInv /\ [Next]_vars => IInv'
<1> SUFFICES ASSUME IInv, [Next]_vars PROVE IInv'
  OBVIOUS
<1>1. ASSUME NEW i \in Id, NEW r \in Receiver, Subscribe(i, r) PROVE IInv'
  BY <1>1, SubscribeStep
<1>2. ASSUME NEW i \in Id, NEW r \in Receiver, SubscribeFails(i, r) PROVE IInv'
  BY <1>2, Stutter DEF SubscribeFails
<1>3. ASSUME NEW i \in Id, NEW r \in Receiver, Unsubscribe(i, r) PROVE IInv'
  <2>1. {i} \in SUBSET Id
    OBVIOUS
  <2> QED BY <1>3, <2>1, DetachStep DEF Unsubscribe
<1>4. ASSUME NEW r \in Receiver, UnsubscribeAllIDs(r) PROVE IInv'
  <2>1. Id \in SUBSET Id
    OBVIOUS
  <2> QED BY <1>4, <2>1, DetachStep DEF UnsubscribeAllIDs
<1>5. ASSUME NEW i \in Id, Dispatch(i) PROVE IInv'
  BY <1>5, DispatchStep
<1>6. CASE Call
  BY <1>6, CallStep
<1>7. CASE Return
  BY <1>7, ReturnStep
<1>8. CASE Finish
  BY <1>8, FinishStep
<1>9. CASE ReturnAstray
  BY <1>9, AstrayStep
<1>10. CASE Lost
  BY <1>10, Stutter DEF Lost
<1>11. CASE Reuse
  BY <1>11, ReuseStep
<1>12. CASE UNCHANGED vars
  BY <1>12, Stutter
<1> QED BY <1>1, <1>2, <1>3, <1>4, <1>5, <1>6, <1>7, <1>8, <1>9, <1>10, <1>11, <1>12 DEF Next

LEMMA Inductive == Spec => []IInv
<1> QED BY InitInv, NextInv, PTL DEF Spec

-----------------------------------------------------------------------------
(* The theorems.                                                           *)

\* The MESSAGEHANDLERs in the lists are the allocated ones, each in one place
\* of one list, and no receiver is twice in a list, whatever the tasks and
\* the handlers subscribe and unsubscribe (MQClass::Subscribe, Unsubscribe,
\* UnsubscribeAllIDs).
THEOREM ListsStaySound == Spec => []ListsSound
<1>1. IInv => ListsSound
  BY DEF IInv
<1> QED BY <1>1, Inductive, PTL

LEMMA Once == ASSUME IInv PROVE EachCalledOnce
<1> SUFFICES ASSUME ~stray
             PROVE  /\ \A r \in Receiver : called[r] <= 1
                    /\ pc = "walk" /\ curHandler = Null => \A r \in stayed : called[r] = 1
  BY DEF EachCalledOnce
<1>1. \A r \in Receiver : called[r] <= 1
  BY DEF IInv, Control, Walking, Nobody
<1>2. ASSUME pc = "walk", curHandler = Null, NEW r \in stayed PROVE called[r] = 1
  <2>1. Walking /\ id \in Id
    BY <1>2 DEF IInv, Control, Walking
  <2>2. PICK g \in 1..(Len(QueueBlock[id]) + 1) : GoesOn(g)
    BY <2>1 DEF Walking
  <2>3. g = Len(QueueBlock[id]) + 1 /\ Len(QueueBlock[id]) \in Nat
    BY <1>2, <2>1, <2>2, EntryIs, ListOf DEF GoesOn, Links, IInv
  <2>4. PICK q \in 1..Len(QueueBlock[id]) : At(id, q) = r
    BY <2>1 DEF Walking
  <2> QED BY <2>2, <2>3, <2>4 DEF GoesOn
<1> QED BY <1>1, <1>2

\* MQClass::Loop calls nobody twice for a message, and passes over nobody who
\* is subscribed while it is dispatched, although the handlers change the
\* list on which it walks and take away the entry at which it stands, as long as
\* the link left in that entry is not written over and leads to no deleted one.
THEOREM CalledOnce == Spec => []EachCalledOnce
<1>1. IInv => EachCalledOnce
  BY Once
<1> QED BY <1>1, Inductive, PTL

\* No list is longer than there are receivers.
LEMMA Bounded == ASSUME IsFiniteSet(Receiver), IInv PROVE TypeOK
<1>1. ASSUME NEW i \in Id PROVE Len(QueueBlock[i]) <= Cardinality(Receiver)
  <2> DEFINE n == Len(QueueBlock[i])
             f == [k \in 1..n |-> At(i, k)]
  <2>1. n \in Nat
    BY ListOf DEF IInv
  <2>2. f \in Injection(1..n, Receiver)
    <3>1. f \in [1..n -> Receiver]
      BY DEF IInv, Received
    <3>2. \A k, l \in 1..n : f[k] = f[l] => k = l
      BY Apart DEF IInv
    <3> QED BY <3>1, <3>2 DEF Injection, IsInjective
  <2>3. Cardinality(1..n) <= Cardinality(Receiver)
    BY <2>2, FS_Injection
  <2>4. Cardinality(1..n) = n
    BY <2>1, FS_Interval
  <2> QED BY <2>3, <2>4
<1> QED BY <1>1 DEF IInv, Types, TypeOK

\* Every variable keeps its type, and no list outgrows the receivers there
\* are: the MESSAGEHANDLERs that Subscribe allocates are bounded.
THEOREM TypeCorrect ==
  ASSUME IsFiniteSet(Receiver)
  PROVE  Spec => []TypeOK
<1>1. IInv => TypeOK
  BY Bounded
<1> QED BY <1>1, Inductive, PTL
=============================================================================
