----------------------------- MODULE TaskRing -----------------------------
(***************************************************************************)
(* Kernel::TaskRing (kernel/taskring.cpp), the cooperative scheduler: each *)
(* iteration of the superloop calls one task handler to completion.        *)
(*                                                                         *)
(* The ring is a list of TASKSTATEs that registration prepends to and      *)
(* nothing is ever removed from, so the TASKSTATE of the i-th registration *)
(* is the number i, its pNext is i - 1, NULL is 0 and pHead is the number  *)
(* of registrations.                                                       *)
(***************************************************************************)
EXTENDS Integers, Sequences

CONSTANTS Task,              \* the Task objects
          MaxRegistrations   \* bound: room for TASKSTATEs on the heap

ASSUME MaxRegistrationsAssumption == MaxRegistrations \in Nat

VARIABLES registered,  \* registered[i]: the task of the i-th registration
          pCur,
          running,     \* whether pCur's handler has been called and not returned
          seen         \* auxiliary. seen[i]: the registrations called since i
                       \* was called last (or was made)

vars == <<registered, pCur, running, seen>>

pHead == Len(registered)
pNext(i) == i - 1

Init == /\ registered = <<>>
        /\ pCur = 0
        /\ running = FALSE
        /\ seen = <<>>

\* Mutant: a registration makes Loop start again from the head.
RegisterAndRestart(t) ==
  /\ pHead < MaxRegistrations
  /\ registered' = Append(registered, t)
  /\ seen' = Append(seen, {})
  /\ pCur' = IF running THEN pCur ELSE 0
  /\ UNCHANGED running

\* RegisterTaskHandler, from the main thread: a constructor, setup(), or a
\* handler that is running. Nothing keeps a task from being registered twice.
RegisterTaskHandler(t) ==
  /\ pHead < MaxRegistrations
  /\ registered' = Append(registered, t)
  /\ seen' = Append(seen, {})
  /\ UNCHANGED <<pCur, running>>

\* Loop, up to the call of the handler: at the end of the list it starts again
\* from the head.
Called == IF pCur = 0 THEN pHead ELSE pCur

\* Mutant: an empty list is not noticed.
LoopCallUnchecked == /\ ~running
                     /\ pCur' = Called
                     /\ running' = TRUE
                     /\ seen' = [i \in 1..pHead |->
                                   IF i = Called THEN {} ELSE seen[i] \cup {Called}]
                     /\ UNCHANGED registered

LoopCall == /\ ~running
            /\ Called # 0
            /\ pCur' = Called
            /\ running' = TRUE
            /\ seen' = [i \in 1..pHead |->
                          IF i = Called THEN {} ELSE seen[i] \cup {Called}]
            /\ UNCHANGED registered

\* With no task registered, Loop does nothing.
LoopIdle == /\ ~running
            /\ Called = 0
            /\ UNCHANGED vars

\* Mutant: Loop starts from the head every time.
LoopReturnToHead == /\ running
                    /\ pCur' = 0
                    /\ running' = FALSE
                    /\ UNCHANGED <<registered, seen>>

\* The handler returns; Loop moves on.
LoopReturn == /\ running
              /\ pCur' = pNext(pCur)
              /\ running' = FALSE
              /\ UNCHANGED <<registered, seen>>

Next == \/ \E t \in Task : RegisterTaskHandler(t)
        \/ LoopCall \/ LoopIdle \/ LoopReturn

\* The superloop calls Loop for ever, and every handler returns.
Spec == Init /\ [][Next]_vars /\ WF_vars(LoopCall) /\ WF_vars(LoopReturn)

-----------------------------------------------------------------------------
(* Properties.                                                             *)

\* Types; in particular pCur is always NULL or a TASKSTATE of the list, and is
\* not NULL when Loop dereferences it after the handler has returned.
TypeOK == /\ registered \in Seq(Task)
          /\ pHead <= MaxRegistrations
          /\ pCur \in 0..pHead
          /\ running \in BOOLEAN /\ (running => pCur # 0)
          /\ seen \in [1..pHead -> SUBSET (1..pHead)]

\* No registration gets a second turn while another one waits for its first,
\* also when handlers register tasks in the middle of a round.
NoOvertaking ==
  [][LoopCall => \A i \in 1..pHead : i # Called => Called \notin seen[i]]_vars

\* Every registration is called again and again, however many are added.
NoStarvation ==
  \A i \in 1..MaxRegistrations :
    (i <= pHead) ~> (running /\ pCur = i)
=============================================================================
