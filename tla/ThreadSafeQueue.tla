---------------------------- MODULE ThreadSafeQueue ----------------------------
(* core/threadsafequeue.h: the bounded FIFO queue through which the program's   *)
(* threads hand each other work and output.  A method holds the mutex from end  *)
(* to end except where it waits, so a method is one action, or the actions on   *)
(* either side of its wait; a thread waiting on a condition variable is parked  *)
(* until it is notified or wakes spuriously, and then looks again.              *)
EXTENDS Integers, Sequences

CONSTANTS
  Producers,   \* threads that push
  Consumers,   \* threads that pop, in a loop
  MaxSize,     \* the constructor's maxSz
  MaxPushes    \* bound: elements pushed over a behaviour

ASSUME QueueAssumption ==
  /\ Producers \cap Consumers = {}
  /\ MaxSize \in Nat \ {0}
  /\ MaxPushes \in Nat

VARIABLES
  elts,       \* the vector, of which the first headIdx entries are popped already
  headIdx,
  closed,
  readOnly,
  pc,         \* where each thread is in its call
  pushed,     \* history: the elements pushed, in order: the i-th is i
  popped      \* history: the elements popped, in order

queue == <<elts, headIdx, closed, readOnly, pc, pushed, popped>>

Callers == Producers \cup Consumers

QueueTypeOK ==
  /\ elts \in Seq(1..MaxPushes)
  /\ headIdx \in Nat
  /\ closed \in BOOLEAN
  /\ readOnly \in BOOLEAN
  /\ pc \in [Callers -> {"idle", "waitPush", "waitPop", "parked"}]
  /\ pushed \in Seq(1..MaxPushes)
  /\ popped \in Seq(1..MaxPushes)

QueueInit ==
  /\ elts = <<>>
  /\ headIdx = 0
  /\ closed = FALSE
  /\ readOnly = FALSE
  /\ pc = [t \in Callers |-> "idle"]
  /\ pushed = <<>>
  /\ popped = <<>>

(* sizeUnsynchronized, which asserts that it is not negative.                   *)
Size == Len(elts) - headIdx

(* What is in the queue; close leaves nothing, whatever headIdx is.             *)
Contents == IF closed THEN <<>> ELSE SubSeq(elts, headIdx + 1, Len(elts))

(* Mutant: only one of the waiting threads is notified.                         *)
Mutant_NotifyOne(T, f) ==
  IF \E t \in T : f[t] = "parked"
    THEN [f EXCEPT ![CHOOSE t \in T : f[t] = "parked"] =
            IF T \subseteq Producers THEN "waitPush" ELSE "waitPop"]
    ELSE f

(* Consumers park on notEmptyCondVar only, producers on notFullCondVar only:    *)
(* notify_all on the condition variables of the threads in T, seen from f.      *)
NotifyAll(T, f) ==
  [t \in Callers |->
     IF t \in T /\ f[t] = "parked"
       THEN IF t \in Producers THEN "waitPush" ELSE "waitPop"
       ELSE f[t]]

-------------------------------------------------------------------------------
CallWaitPush(p) ==
  /\ pc[p] = "idle"
  /\ Len(pushed) < MaxPushes
  /\ pc' = [pc EXCEPT ![p] = "waitPush"]
  /\ UNCHANGED <<elts, headIdx, closed, readOnly, pushed, popped>>

WaitNotFull(p) ==
  /\ pc[p] = "waitPush"
  /\ ~closed /\ ~readOnly
  /\ Size >= MaxSize
  /\ pc' = [pc EXCEPT ![p] = "parked"]
  /\ UNCHANGED <<elts, headIdx, closed, readOnly, pushed, popped>>

(* pushUnsynchronized and the notification that follows it.                     *)
Push(p) ==
  /\ Len(pushed) < MaxPushes
  /\ elts' = Append(elts, Len(pushed) + 1)
  /\ pushed' = Append(pushed, Len(pushed) + 1)
  /\ LET returned == [pc EXCEPT ![p] = "idle"]
     IN  pc' = IF Len(elts') - headIdx = 1 THEN NotifyAll(Consumers, returned)
                                            ELSE returned
  /\ UNCHANGED <<headIdx, closed, readOnly, popped>>

WaitPushSucceeds(p) ==
  /\ pc[p] = "waitPush"
  /\ ~closed /\ ~readOnly
  /\ Size < MaxSize
  /\ Push(p)

(* forcePush never waits and ignores maxSize.                                   *)
ForcePush(p) ==
  /\ pc[p] = "idle"
  /\ ~closed /\ ~readOnly
  /\ Push(p)

WaitPushFails(p) ==
  /\ pc[p] = "waitPush"
  /\ closed \/ readOnly
  /\ pc' = [pc EXCEPT ![p] = "idle"]
  /\ UNCHANGED <<elts, headIdx, closed, readOnly, pushed, popped>>

-------------------------------------------------------------------------------
CallWaitPop(c) ==
  /\ pc[c] = "idle"
  /\ pc' = [pc EXCEPT ![c] = "waitPop"]
  /\ UNCHANGED <<elts, headIdx, closed, readOnly, pushed, popped>>

WaitNotEmpty(c) ==
  /\ pc[c] = "waitPop"
  /\ ~closed /\ ~readOnly
  /\ Size <= 0
  /\ pc' = [pc EXCEPT ![c] = "parked"]
  /\ UNCHANGED <<elts, headIdx, closed, readOnly, pushed, popped>>

(* Mutant: headIdx is not reset by the shift.                                   *)
Mutant_PopKeepsHead ==
  /\ popped' = Append(popped, elts[headIdx + 1])
  /\ elts' = IF headIdx + 1 > Len(elts) \div 2
               THEN SubSeq(elts, headIdx + 2, Len(elts))
               ELSE elts
  /\ headIdx' = headIdx + 1

(* popUnsynchronized: take the element at headIdx, and shift the rest down once *)
(* more than half of the vector is popped.                                      *)
PopElement ==
  /\ popped' = Append(popped, elts[headIdx + 1])
  /\ IF headIdx + 1 > Len(elts) \div 2
       THEN /\ elts' = SubSeq(elts, headIdx + 2, Len(elts))
            /\ headIdx' = 0
       ELSE /\ elts' = elts
            /\ headIdx' = headIdx + 1

(* The notification comes first: a queue exactly at maxSize gets room.          *)
Pop(c) ==
  /\ ~closed
  /\ Size > 0
  /\ LET returned == [pc EXCEPT ![c] = "idle"]
     IN  pc' = IF Size = MaxSize THEN NotifyAll(Producers, returned) ELSE returned
  /\ PopElement
  /\ UNCHANGED <<closed, readOnly, pushed>>

WaitPopSucceeds(c) == pc[c] = "waitPop" /\ Pop(c)

(* tryPop never waits; it fails, without effect, on an empty or closed queue.   *)
TryPop(c) == pc[c] = "idle" /\ Pop(c)

WaitPopFails(c) ==
  /\ pc[c] = "waitPop"
  /\ closed \/ (readOnly /\ Size <= 0)
  /\ pc' = [pc EXCEPT ![c] = "idle"]
  /\ UNCHANGED <<elts, headIdx, closed, readOnly, pushed, popped>>

-------------------------------------------------------------------------------
(* Mutant: close forgets the threads waiting to push.                           *)
Mutant_CloseWakesConsumers ==
  /\ closed' = TRUE
  /\ elts' = <<>>
  /\ pc' = NotifyAll(Consumers, pc)
  /\ UNCHANGED <<headIdx, readOnly, pushed, popped>>

(* close drops the elements (clearUnsynchronized empties the vector and leaves  *)
(* headIdx) and wakes everyone.                                                 *)
Close ==
  /\ closed' = TRUE
  /\ elts' = <<>>
  /\ pc' = NotifyAll(Callers, pc)
  /\ UNCHANGED <<headIdx, readOnly, pushed, popped>>

SetReadOnly ==
  /\ readOnly' = TRUE
  /\ pc' = NotifyAll(Callers, pc)
  /\ UNCHANGED <<elts, headIdx, closed, pushed, popped>>

SpuriousWakeup(t) ==
  /\ pc[t] = "parked"
  /\ pc' = NotifyAll({t}, pc)
  /\ UNCHANGED <<elts, headIdx, closed, readOnly, pushed, popped>>

-------------------------------------------------------------------------------
(* A thread inside waitPush or waitPop goes on with it.                         *)
ProducerContinues(p) == WaitNotFull(p) \/ WaitPushSucceeds(p) \/ WaitPushFails(p)
ConsumerContinues(c) == WaitNotEmpty(c) \/ WaitPopSucceeds(c) \/ WaitPopFails(c)

QueueNext ==
  \/ \E p \in Producers : CallWaitPush(p) \/ ForcePush(p) \/ ProducerContinues(p)
  \/ \E c \in Consumers : CallWaitPop(c) \/ TryPop(c) \/ ConsumerContinues(c)
  \/ \E t \in Callers : SpuriousWakeup(t)
  \/ Close
  \/ SetReadOnly

QueueSpec == QueueInit /\ [][QueueNext]_queue

(* Threads inside a method go on, and every consumer pops in a loop, as the     *)
(* write loops, the analysis loops and the search threads do.                   *)
QueueFairness ==
  /\ \A p \in Producers : WF_queue(ProducerContinues(p))
  /\ \A c \in Consumers : WF_queue(CallWaitPop(c)) /\ WF_queue(ConsumerContinues(c))

QueueFairSpec == QueueSpec /\ QueueFairness

-------------------------------------------------------------------------------
(* No wakeup is lost, although a push only notifies a queue that was empty and a *)
(* pop only one exactly at maxSize, which forcePush can overshoot: a thread is    *)
(* parked only while there is nothing for it to do.                               *)
NoMissedWakeup ==
  \A t \in Callers : pc[t] = "parked" =>
    /\ ~closed /\ ~readOnly
    /\ IF t \in Producers THEN Size >= MaxSize ELSE Size = 0

(* First in, first out, nothing lost and nothing twice, through every shift of    *)
(* the vector, until close drops what is left; and never anything after it.       *)
FirstInFirstOut ==
  /\ ~closed => popped \o Contents = pushed
  /\ closed  => popped = SubSeq(pushed, 1, Len(popped))

(* Closing, or making read-only, unblocks every thread: waitPush returns, and so  *)
(* does the waitPop of a consumer.  Set read-only, the queue still gives out what *)
(* it holds: every element pushed is popped unless the queue is closed.           *)
EveryoneReleased ==
  /\ \A t \in Callers :
       (closed \/ readOnly) /\ pc[t] # "idle" ~> pc[t] = "idle"
  /\ \A e \in 1..MaxPushes : Len(pushed) >= e ~> Len(popped) >= e \/ closed

===============================================================================
