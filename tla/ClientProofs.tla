---------------------------- MODULE ClientProofs ----------------------------
(***************************************************************************)
(* Proofs about the two mechanisms a client's calls go through.  Of the    *)
(* RetryScheduler, for every retry count, timeout/limit configuration and  *)
(* set of cancelers; of the connection pool, CCPool, for every set of      *)
(* requests and of connections: the single flight has one leader, no       *)
(* connection is lost, and a connection that was never ready is not        *)
(* replaced before redialInterval.  They share no state.                   *)
(***************************************************************************)
EXTENDS RetryScheduler, CCPool, TLAPS

(* What the properties need beside TypeOK to be inductive. *)

\* An attempt that is being added is one the policy has already admitted.
AdmittedInv ==
    /\ nextId <= retryNum + 1
    /\ waiter \in {"invoke", "add"} =>
         nextId <= retryNum /\ (nextId = 0 \/ RetryPolicy(retryNum))

\* An attempt that lost its validity was cancelled in the same step.
QueueInv ==
    /\ valid \subseteq 1..nextId
    /\ 1..nextId \subseteq valid \cup cancelled

\* Only the newest attempt can be valid in a serial scheduler, and only the
\* newest one can have been added after the queue was closed.
NewestInv ==
    /\ Serial => valid \subseteq {nextId}
    /\ closed => valid \subseteq {nextId}
    /\ closed /\ waiter = "add" => valid = {}

\* Nothing of an attempt runs before it is added, and what is valid in a closed
\* queue was added after the close: its callback and its timer are ignored.
Deaf(i) == task[i] \in {"sleep", "run", "exit"} /\ timer[i] \in {"off", "armed", "exit"}

DeafInv ==
    /\ \A i \in Ids : i > nextId => task[i] = "idle" /\ timer[i] = "off"
    /\ closed => \A i \in valid : Deaf(i)

Recorded == result \/ err # "nil"

\* Whoever runs Finish has already sent an outcome, or recorded it; a Quit can
\* only enter the channel once the outcome before it has left it.
OutcomeInFlight ==
    Recorded \/ signalChan \in {"Done", "Error", "Canceled"}

OutcomeInv ==
    /\ waiter \in FinishPC => Recorded
    /\ limiter \in FinishPC => OutcomeInFlight
    /\ \A i \in Ids : task[i] \in FinishPC => OutcomeInFlight
    /\ \A c \in Cancelers : canceler[c] \in FinishPC => OutcomeInFlight
    /\ signalChan = "Quit" => Recorded
    /\ OutcomeOnReturn

IndInv == TypeOK /\ AdmittedInv /\ QueueInv /\ NewestInv /\ DeafInv /\ OutcomeInv

\* At least one attempt is allowed.
LEMMA MaxAttemptsNat == MaxAttempts \in Nat \ {0}
BY RetryTimesAssumption DEF MaxAttempts

\* The id of an attempt about to be added is one of the allowed ids.
LEMMA AddInRange ==
    ASSUME TypeOK, AdmittedInv, waiter \in {"invoke", "add"}
    PROVE  nextId + 1 \in Ids
<1>1. nextId \in Nat /\ retryNum \in Nat
  BY MaxAttemptsNat DEF TypeOK
<1>2. CASE nextId = 0
  BY <1>2, MaxAttemptsNat DEF Ids
<1>3. CASE RetryPolicy(retryNum)
  BY <1>1, <1>3, RetryTimesAssumption DEF AdmittedInv, RetryPolicy, Ids, MaxAttempts
<1> QED
  BY <1>2, <1>3 DEF AdmittedInv

\* Every step keeps the types; AdmittedInv bounds the id InvokeAdd takes.
LEMMA TypeStep == TypeOK /\ AdmittedInv /\ [Next]_vars => TypeOK'
<1> SUFFICES ASSUME TypeOK, AdmittedInv, [Next]_vars PROVE TypeOK'
  OBVIOUS
<1> USE DEF TypeOK, FinishPC, WaiterPC, TaskPC, TimerPC, LimiterPC, CancelerPC, SignalType, Empty, FinishCap, queueVars, chanVars, outcomeVars
<1>1. CASE InvokeCheck
  BY <1>1 DEF InvokeCheck
<1>2. CASE InvokeAdd
  <2>1. nextId + 1 \in Ids
    BY <1>2, AddInRange DEF InvokeAdd
  <2>2. nextId' \in 0..MaxAttempts
    BY <1>2, <2>1, MaxAttemptsNat DEF InvokeAdd, Ids
  <2>3. valid' \subseteq Ids /\ cancelled' \subseteq Ids /\ closed' \in BOOLEAN
    BY <1>2, <2>1 DEF InvokeAdd, AddTask, OldestValid
  <2>4. QED
    BY <1>2, <2>1, <2>2, <2>3 DEF InvokeAdd
<1>3. CASE Wait
  BY <1>3 DEF Wait
<1>4. CASE Retry
  BY <1>4 DEF Retry
<1>5. CASE WaiterFinish
  <2>1. valid' \subseteq Ids /\ cancelled' \subseteq Ids /\ closed' \in BOOLEAN
    BY <1>5 DEF WaiterFinish, FinishStep, CloseQueue
  <2>2. signalChan' \in SignalType \cup {Empty} /\ finishChan' \in 0..FinishCap
    BY <1>5 DEF WaiterFinish, FinishStep, Send
  <2>3. waiter' \in WaiterPC
    BY <1>5 DEF WaiterFinish, FinishStep
  <2>4. QED
    BY <1>5, <2>1, <2>2, <2>3 DEF WaiterFinish
<1>6. CASE Unlock
  BY <1>6 DEF Unlock
<1>7. ASSUME NEW i \in Ids, TaskStart(i) PROVE TypeOK'
  BY <1>7 DEF TaskStart
<1>8. ASSUME NEW i \in Ids, NEW s \in {"Done", "Error", "Retry"}, TaskCallback(i, s)
       PROVE TypeOK'
  BY <1>8 DEF TaskCallback, IsTaskValid
<1>9. ASSUME NEW i \in Ids, TaskCtxDone(i) PROVE TypeOK'
  BY <1>9 DEF TaskCtxDone
<1>10. ASSUME NEW i \in Ids, TaskSend(i) PROVE TypeOK'
  BY <1>10 DEF TaskSend, Send
<1>11. ASSUME NEW i \in Ids, TaskRemove(i) PROVE TypeOK'
  BY <1>11 DEF TaskRemove, RemoveTask
<1>12. ASSUME NEW i \in Ids, TaskFinish(i) PROVE TypeOK'
  <2>1. valid' \subseteq Ids /\ cancelled' \subseteq Ids /\ closed' \in BOOLEAN
    BY <1>12 DEF TaskFinish, FinishStep, CloseQueue
  <2>2. signalChan' \in SignalType \cup {Empty} /\ finishChan' \in 0..FinishCap
    BY <1>12 DEF TaskFinish, FinishStep, Send
  <2>3. task' \in [Ids -> TaskPC]
    BY <1>12 DEF TaskFinish, FinishStep
  <2>4. QED
    BY <1>12, <2>1, <2>2, <2>3 DEF TaskFinish
<1>13. ASSUME NEW i \in Ids, TimerFire(i) PROVE TypeOK'
  BY <1>13 DEF TimerFire, IsTaskValid
<1>14. ASSUME NEW i \in Ids, TimerCtxDone(i) PROVE TypeOK'
  BY <1>14 DEF TimerCtxDone
<1>15. ASSUME NEW i \in Ids, TimerSend(i) PROVE TypeOK'
  BY <1>15 DEF TimerSend, Send
<1>16. CASE LimiterFire
  BY <1>16 DEF LimiterFire
<1>17. CASE LimiterStop
  BY <1>17 DEF LimiterStop
<1>18. CASE LimiterSend
  BY <1>18 DEF LimiterSend, Send
<1>19. CASE LimiterFinish
  <2>1. valid' \subseteq Ids /\ cancelled' \subseteq Ids /\ closed' \in BOOLEAN
    BY <1>19 DEF LimiterFinish, FinishStep, CloseQueue
  <2>2. signalChan' \in SignalType \cup {Empty} /\ finishChan' \in 0..FinishCap
    BY <1>19 DEF LimiterFinish, FinishStep, Send
  <2>3. limiter' \in LimiterPC
    BY <1>19 DEF LimiterFinish, FinishStep
  <2>4. QED
    BY <1>19, <2>1, <2>2, <2>3 DEF LimiterFinish
<1>20. ASSUME NEW c \in Cancelers, CancelTask(c) PROVE TypeOK'
  BY <1>20 DEF CancelTask
<1>21. ASSUME NEW c \in Cancelers, Cancel(c) PROVE TypeOK'
  BY <1>21 DEF Cancel
<1>22. ASSUME NEW c \in Cancelers, CancelSend(c) PROVE TypeOK'
  BY <1>22 DEF CancelSend, Send
<1>23. ASSUME NEW c \in Cancelers, CancelFinish(c) PROVE TypeOK'
  <2>1. valid' \subseteq Ids /\ cancelled' \subseteq Ids /\ closed' \in BOOLEAN
    BY <1>23 DEF CancelFinish, FinishStep, CloseQueue
  <2>2. signalChan' \in SignalType \cup {Empty} /\ finishChan' \in 0..FinishCap
    BY <1>23 DEF CancelFinish, FinishStep, Send
  <2>3. canceler' \in [Cancelers -> CancelerPC]
    BY <1>23 DEF CancelFinish, FinishStep
  <2>4. QED
    BY <1>23, <2>1, <2>2, <2>3 DEF CancelFinish
<1>24. CASE UNCHANGED vars
  BY <1>24 DEF vars, procVars
<1> HIDE DEF TypeOK, FinishPC, WaiterPC, TaskPC, TimerPC, LimiterPC, CancelerPC, SignalType, Empty, FinishCap
<1> QED
  BY <1>1, <1>2, <1>3, <1>4, <1>5, <1>6, <1>7, <1>8, <1>9, <1>10, <1>11, <1>12, <1>13, <1>14, <1>15, <1>16, <1>17, <1>18, <1>19, <1>20, <1>21, <1>22, <1>23, <1>24
  DEF Next, WaiterNext, TaskNext, TimerNext, LimiterNext, CancelerNext, Terminated

\* Retry counts before it asks the policy.
LEMMA AdmittedStep == TypeOK /\ AdmittedInv /\ [Next]_vars => AdmittedInv'
<1> SUFFICES ASSUME TypeOK, AdmittedInv, [Next]_vars PROVE AdmittedInv'
  OBVIOUS
<1> USE DEF TypeOK, AdmittedInv, FinishPC, queueVars, chanVars, outcomeVars
<1>1. CASE InvokeCheck
  BY <1>1 DEF InvokeCheck
<1>2. CASE InvokeAdd
  BY <1>2 DEF InvokeAdd, AddTask, OldestValid, Ids
<1>3. CASE Wait
  BY <1>3 DEF Wait
<1>4. CASE Retry
  BY <1>4 DEF Retry, RetryPolicy
<1>5. CASE WaiterFinish
  BY <1>5 DEF WaiterFinish, FinishStep, CloseQueue, FinishPC, Send
<1>6. CASE Unlock
  BY <1>6 DEF Unlock
<1>7. ASSUME NEW i \in Ids, TaskStart(i) PROVE AdmittedInv'
  BY <1>7 DEF TaskStart
<1>8. ASSUME NEW i \in Ids, NEW s \in {"Done", "Error", "Retry"}, TaskCallback(i, s)
       PROVE AdmittedInv'
  BY <1>8 DEF TaskCallback, IsTaskValid
<1>9. ASSUME NEW i \in Ids, TaskCtxDone(i) PROVE AdmittedInv'
  BY <1>9 DEF TaskCtxDone
<1>10. ASSUME NEW i \in Ids, TaskSend(i) PROVE AdmittedInv'
  BY <1>10 DEF TaskSend, Send
<1>11. ASSUME NEW i \in Ids, TaskRemove(i) PROVE AdmittedInv'
  BY <1>11 DEF TaskRemove, RemoveTask
<1>12. ASSUME NEW i \in Ids, TaskFinish(i) PROVE AdmittedInv'
  BY <1>12 DEF TaskFinish, FinishStep, CloseQueue, FinishPC, Send, TaskPC
<1>13. ASSUME NEW i \in Ids, TimerFire(i) PROVE AdmittedInv'
  BY <1>13 DEF TimerFire, IsTaskValid
<1>14. ASSUME NEW i \in Ids, TimerCtxDone(i) PROVE AdmittedInv'
  BY <1>14 DEF TimerCtxDone
<1>15. ASSUME NEW i \in Ids, TimerSend(i) PROVE AdmittedInv'
  BY <1>15 DEF TimerSend, Send
<1>16. CASE LimiterFire
  BY <1>16 DEF LimiterFire
<1>17. CASE LimiterStop
  BY <1>17 DEF LimiterStop
<1>18. CASE LimiterSend
  BY <1>18 DEF LimiterSend, Send
<1>19. CASE LimiterFinish
  BY <1>19 DEF LimiterFinish, FinishStep, CloseQueue, FinishPC, Send
<1>20. ASSUME NEW c \in Cancelers, CancelTask(c) PROVE AdmittedInv'
  BY <1>20 DEF CancelTask
<1>21. ASSUME NEW c \in Cancelers, Cancel(c) PROVE AdmittedInv'
  BY <1>21 DEF Cancel
<1>22. ASSUME NEW c \in Cancelers, CancelSend(c) PROVE AdmittedInv'
  BY <1>22 DEF CancelSend, Send
<1>23. ASSUME NEW c \in Cancelers, CancelFinish(c) PROVE AdmittedInv'
  BY <1>23 DEF CancelFinish, FinishStep, CloseQueue, FinishPC, Send, CancelerPC
<1>24. CASE UNCHANGED vars
  BY <1>24 DEF vars, procVars
<1> HIDE DEF TypeOK, AdmittedInv, FinishPC
<1> QED
  BY <1>1, <1>2, <1>3, <1>4, <1>5, <1>6, <1>7, <1>8, <1>9, <1>10, <1>11, <1>12, <1>13, <1>14, <1>15, <1>16, <1>17, <1>18, <1>19, <1>20, <1>21, <1>22, <1>23, <1>24
  DEF Next, WaiterNext, TaskNext, TimerNext, LimiterNext, CancelerNext, Terminated

\* An entry leaves valid only by being cancelled.
LEMMA QueueStep == TypeOK /\ QueueInv /\ NewestInv /\ [Next]_vars => (QueueInv /\ NewestInv)'
<1> SUFFICES ASSUME TypeOK, QueueInv, NewestInv, [Next]_vars PROVE (QueueInv /\ NewestInv)'
  OBVIOUS
<1> USE DEF TypeOK, QueueInv, NewestInv, queueVars, chanVars, outcomeVars
<1>1. CASE InvokeCheck
  BY <1>1 DEF InvokeCheck
<1>2. CASE InvokeAdd
  <2>1. OldestValid \subseteq valid /\ (valid \subseteq {nextId} => OldestValid = valid)
    <3>1. \A i \in valid : i \in Int
      BY DEF Ids
    <3>2. ASSUME valid \subseteq {nextId}, NEW i \in valid, NEW j \in valid PROVE i <= j
      <4>1. i = nextId /\ j = nextId
        BY <3>2
      <4>2. QED
        BY <3>1, <4>1
    <3>3. QED
      BY <3>2 DEF OldestValid
  <2>2. QueueInv'
    BY <1>2, <2>1 DEF InvokeAdd, AddTask
  <2>3. Serial => valid' \subseteq {nextId'}
    BY <1>2, <2>1 DEF InvokeAdd, AddTask
  <2>4. closed' => valid' \subseteq {nextId'}
    BY <1>2, <2>1 DEF InvokeAdd, AddTask
  <2>5. QED
    BY <1>2, <2>2, <2>3, <2>4 DEF InvokeAdd, AddTask
<1>3. CASE Wait
  BY <1>3 DEF Wait
<1>4. CASE Retry
  BY <1>4 DEF Retry
<1>5. CASE WaiterFinish
  <2>1. CASE UNCHANGED queueVars
    BY <1>5, <2>1 DEF WaiterFinish, FinishStep
  <2>2. CASE CloseQueue
    BY <1>5, <2>2 DEF WaiterFinish, FinishStep, CloseQueue
  <2>3. QED
    BY <1>5, <2>1, <2>2 DEF WaiterFinish, FinishStep
<1>6. CASE Unlock
  BY <1>6 DEF Unlock
<1>7. ASSUME NEW i \in Ids, TaskStart(i) PROVE (QueueInv /\ NewestInv)'
  BY <1>7 DEF TaskStart
<1>8. ASSUME NEW i \in Ids, NEW s \in {"Done", "Error", "Retry"}, TaskCallback(i, s)
       PROVE (QueueInv /\ NewestInv)'
  BY <1>8 DEF TaskCallback, IsTaskValid
<1>9. ASSUME NEW i \in Ids, TaskCtxDone(i) PROVE (QueueInv /\ NewestInv)'
  BY <1>9 DEF TaskCtxDone
<1>10. ASSUME NEW i \in Ids, TaskSend(i) PROVE (QueueInv /\ NewestInv)'
  BY <1>10 DEF TaskSend, Send
<1>11. ASSUME NEW i \in Ids, TaskRemove(i) PROVE (QueueInv /\ NewestInv)'
  BY <1>11 DEF TaskRemove, RemoveTask
<1>12. ASSUME NEW i \in Ids, TaskFinish(i) PROVE (QueueInv /\ NewestInv)'
  <2>1. CASE UNCHANGED queueVars
    BY <1>12, <2>1 DEF TaskFinish
  <2>2. CASE CloseQueue
    BY <1>12, <2>2 DEF TaskFinish, CloseQueue
  <2>3. QED
    BY <1>12, <2>1, <2>2 DEF TaskFinish, FinishStep
<1>13. ASSUME NEW i \in Ids, TimerFire(i) PROVE (QueueInv /\ NewestInv)'
  BY <1>13 DEF TimerFire, IsTaskValid
<1>14. ASSUME NEW i \in Ids, TimerCtxDone(i) PROVE (QueueInv /\ NewestInv)'
  BY <1>14 DEF TimerCtxDone
<1>15. ASSUME NEW i \in Ids, TimerSend(i) PROVE (QueueInv /\ NewestInv)'
  BY <1>15 DEF TimerSend, Send
<1>16. CASE LimiterFire
  BY <1>16 DEF LimiterFire
<1>17. CASE LimiterStop
  BY <1>17 DEF LimiterStop
<1>18. CASE LimiterSend
  BY <1>18 DEF LimiterSend, Send
<1>19. CASE LimiterFinish
  <2>1. CASE UNCHANGED queueVars
    BY <1>19, <2>1 DEF LimiterFinish
  <2>2. CASE CloseQueue
    BY <1>19, <2>2 DEF LimiterFinish, CloseQueue
  <2>3. QED
    BY <1>19, <2>1, <2>2 DEF LimiterFinish, FinishStep
<1>20. ASSUME NEW c \in Cancelers, CancelTask(c) PROVE (QueueInv /\ NewestInv)'
  BY <1>20 DEF CancelTask
<1>21. ASSUME NEW c \in Cancelers, Cancel(c) PROVE (QueueInv /\ NewestInv)'
  BY <1>21 DEF Cancel
<1>22. ASSUME NEW c \in Cancelers, CancelSend(c) PROVE (QueueInv /\ NewestInv)'
  BY <1>22 DEF CancelSend, Send
<1>23. ASSUME NEW c \in Cancelers, CancelFinish(c) PROVE (QueueInv /\ NewestInv)'
  <2>1. CASE UNCHANGED queueVars
    BY <1>23, <2>1 DEF CancelFinish
  <2>2. CASE CloseQueue
    BY <1>23, <2>2 DEF CancelFinish, CloseQueue
  <2>3. QED
    BY <1>23, <2>1, <2>2 DEF CancelFinish, FinishStep
<1>24. CASE UNCHANGED vars
  BY <1>24 DEF vars, procVars
<1> HIDE DEF TypeOK, QueueInv, NewestInv
<1> QED
  BY <1>1, <1>2, <1>3, <1>4, <1>5, <1>6, <1>7, <1>8, <1>9, <1>10, <1>11, <1>12, <1>13, <1>14, <1>15, <1>16, <1>17, <1>18, <1>19, <1>20, <1>21, <1>22, <1>23, <1>24
  DEF Next, WaiterNext, TaskNext, TimerNext, LimiterNext, CancelerNext, Terminated

\* An attempt added to a closed queue never gets as far as a signal.
LEMMA DeafStep ==
    ASSUME TypeOK, AdmittedInv, QueueInv, NewestInv, DeafInv, [Next]_vars
    PROVE  DeafInv'
<1> USE DEF queueVars, chanVars, outcomeVars
<1>1. ASSUME UNCHANGED <<valid, closed, nextId, task, timer>> PROVE DeafInv'
  BY <1>1 DEF DeafInv, Deaf
<1>2. CASE InvokeCheck \/ Wait \/ Retry \/ Unlock
  BY <1>1, <1>2 DEF InvokeCheck, Wait, Retry, Unlock
<1>3. CASE InvokeAdd
  <2>1. /\ nextId' = nextId + 1 /\ closed' = closed /\ timer' = timer
        /\ task' = [task EXCEPT ![nextId + 1] = "sleep"]
        /\ closed => valid' = {nextId + 1}
    BY <1>3 DEF InvokeAdd, AddTask, NewestInv
  <2>2. nextId + 1 \in Ids /\ nextId \in Nat /\ \A i \in Ids : i \in Nat
    BY <1>3, AddInRange, MaxAttemptsNat DEF InvokeAdd, TypeOK, Ids
  <2>3. \A i \in Ids : i > nextId' => task'[i] = "idle" /\ timer'[i] = "off"
    BY <2>1, <2>2 DEF DeafInv, TypeOK
  <2>4. task'[nextId + 1] = "sleep" /\ timer'[nextId + 1] = "off"
    BY <2>1, <2>2 DEF DeafInv, TypeOK
  <2> QED
    BY <2>1, <2>3, <2>4 DEF DeafInv, Deaf
<1>4. ASSUME CloseQueue, UNCHANGED <<nextId, timer>>,
             \A i \in Ids : task[i] = "idle" => task'[i] = "idle"
      PROVE  DeafInv'
  BY <1>4 DEF CloseQueue, DeafInv
<1>5. CASE WaiterFinish \/ LimiterFinish \/ \E c \in Cancelers : CancelFinish(c)
  <2>1. UNCHANGED <<nextId, task, timer>> /\ (UNCHANGED <<valid, closed>> \/ CloseQueue)
    BY <1>5 DEF WaiterFinish, LimiterFinish, CancelFinish, FinishStep
  <2> QED
    BY <1>1, <1>4, <2>1
<1>6. CASE LimiterFire \/ LimiterStop \/ LimiterSend
           \/ \E c \in Cancelers : CancelTask(c) \/ Cancel(c) \/ CancelSend(c)
  BY <1>1, <1>6 DEF LimiterFire, LimiterStop, LimiterSend, CancelTask, Cancel, CancelSend
<1>7. ASSUME NEW i \in Ids, TaskNext(i) PROVE DeafInv'
  <2>1. /\ UNCHANGED nextId
        /\ \A j \in Ids \ {i} : task'[j] = task[j] /\ timer'[j] = timer[j]
        /\ task[i] # "idle"
        /\ timer'[i] \in {timer[i], "armed"}
    BY <1>7 DEF TaskNext, TaskStart, TaskCallback, TaskCtxDone, TaskSend, TaskRemove, TaskFinish, FinishStep, TypeOK
  <2>2. ~(i > nextId)
    BY <2>1 DEF DeafInv
  <2>3. CASE UNCHANGED <<valid, closed>>
    <3>1. closed /\ i \in valid => task'[i] \in {"run", "exit"}
      BY <1>7, <2>3 DEF DeafInv, Deaf, TaskNext, TaskStart, TaskCallback, IsTaskValid, TaskCtxDone, TaskSend,
                        TaskRemove, TaskFinish, FinishStep, TypeOK
    <3> QED
      BY <2>1, <2>2, <2>3, <3>1 DEF DeafInv, Deaf, TypeOK
  <2>4. CASE TaskRemove(i)
    <3>1. valid' = valid \ {i} /\ closed' = closed
      BY <2>4 DEF TaskRemove, RemoveTask
    <3> QED
      BY <2>1, <2>2, <3>1 DEF DeafInv, Deaf, TypeOK
  <2>5. CASE CloseQueue
    BY <2>1, <2>2, <2>5 DEF CloseQueue, DeafInv
  <2> QED
    BY <1>7, <2>3, <2>4, <2>5 DEF TaskNext, TaskStart, TaskCallback, TaskCtxDone, TaskSend, TaskFinish, FinishStep
<1>8. ASSUME NEW i \in Ids, TimerNext(i) PROVE DeafInv'
  <2>1. /\ UNCHANGED <<valid, closed, nextId, task>>
        /\ \A j \in Ids \ {i} : timer'[j] = timer[j]
        /\ timer[i] # "off"
    BY <1>8 DEF TimerNext, TimerFire, TimerCtxDone, TimerSend, TypeOK
  <2>2. closed /\ i \in valid => timer'[i] = "exit"
    BY <1>8 DEF DeafInv, Deaf, TimerNext, TimerFire, TimerCtxDone, TimerSend, IsTaskValid, TypeOK
  <2> QED
    BY <2>1, <2>2 DEF DeafInv, Deaf, TypeOK
<1>9. CASE UNCHANGED vars
  BY <1>1, <1>9 DEF vars, procVars
<1> QED
  BY <1>2, <1>3, <1>5, <1>6, <1>7, <1>8, <1>9 DEF Next, WaiterNext, LimiterNext, CancelerNext, Terminated

\* A Quit follows an outcome through the channel.
LEMMA OutcomeStep == TypeOK /\ OutcomeInv /\ [Next]_vars => OutcomeInv'
<1> SUFFICES ASSUME TypeOK, OutcomeInv, [Next]_vars PROVE OutcomeInv'
  OBVIOUS
<1> USE DEF OutcomeInv, OutcomeInFlight, Recorded, OutcomeOnReturn, TypeOK, FinishPC, SignalType, Empty, queueVars, chanVars, outcomeVars
<1>1. CASE InvokeCheck
  BY <1>1 DEF InvokeCheck
<1>2. CASE InvokeAdd
  BY <1>2 DEF InvokeAdd, AddTask, OldestValid, Ids
<1>3. CASE Wait
  BY <1>3 DEF Wait
<1>4. CASE Retry
  BY <1>4 DEF Retry
<1>5. CASE WaiterFinish
  BY <1>5 DEF WaiterFinish, FinishStep, CloseQueue, FinishPC, Send
<1>6. CASE Unlock
  BY <1>6 DEF Unlock
<1>7. ASSUME NEW i \in Ids, TaskStart(i) PROVE OutcomeInv'
  BY <1>7 DEF TaskStart
<1>8. ASSUME NEW i \in Ids, NEW s \in {"Done", "Error", "Retry"}, TaskCallback(i, s)
       PROVE OutcomeInv'
  BY <1>8 DEF TaskCallback, IsTaskValid
<1>9. ASSUME NEW i \in Ids, TaskCtxDone(i) PROVE OutcomeInv'
  BY <1>9 DEF TaskCtxDone
<1>10. ASSUME NEW i \in Ids, TaskSend(i) PROVE OutcomeInv'
  BY <1>10 DEF TaskSend, Send
<1>11. ASSUME NEW i \in Ids, TaskRemove(i) PROVE OutcomeInv'
  BY <1>11 DEF TaskRemove, RemoveTask
<1>12. ASSUME NEW i \in Ids, TaskFinish(i) PROVE OutcomeInv'
  BY <1>12 DEF TaskFinish, FinishStep, CloseQueue, FinishPC, Send, TaskPC
<1>13. ASSUME NEW i \in Ids, TimerFire(i) PROVE OutcomeInv'
  BY <1>13 DEF TimerFire, IsTaskValid
<1>14. ASSUME NEW i \in Ids, TimerCtxDone(i) PROVE OutcomeInv'
  BY <1>14 DEF TimerCtxDone
<1>15. ASSUME NEW i \in Ids, TimerSend(i) PROVE OutcomeInv'
  BY <1>15 DEF TimerSend, Send
<1>16. CASE LimiterFire
  BY <1>16 DEF LimiterFire
<1>17. CASE LimiterStop
  BY <1>17 DEF LimiterStop
<1>18. CASE LimiterSend
  BY <1>18 DEF LimiterSend, Send
<1>19. CASE LimiterFinish
  BY <1>19 DEF LimiterFinish, FinishStep, CloseQueue, FinishPC, Send
<1>20. ASSUME NEW c \in Cancelers, CancelTask(c) PROVE OutcomeInv'
  BY <1>20 DEF CancelTask
<1>21. ASSUME NEW c \in Cancelers, Cancel(c) PROVE OutcomeInv'
  BY <1>21 DEF Cancel
<1>22. ASSUME NEW c \in Cancelers, CancelSend(c) PROVE OutcomeInv'
  BY <1>22 DEF CancelSend, Send
<1>23. ASSUME NEW c \in Cancelers, CancelFinish(c) PROVE OutcomeInv'
  BY <1>23 DEF CancelFinish, FinishStep, CloseQueue, FinishPC, Send, CancelerPC
<1>24. CASE UNCHANGED vars
  BY <1>24 DEF vars, procVars
<1> HIDE DEF OutcomeInv, OutcomeInFlight, Recorded, OutcomeOnReturn, TypeOK, FinishPC, SignalType, Empty
<1> QED
  BY <1>1, <1>2, <1>3, <1>4, <1>5, <1>6, <1>7, <1>8, <1>9, <1>10, <1>11, <1>12, <1>13, <1>14, <1>15, <1>16, <1>17, <1>18, <1>19, <1>20, <1>21, <1>22, <1>23, <1>24
  DEF Next, WaiterNext, TaskNext, TimerNext, LimiterNext, CancelerNext, Terminated

\* The initial state satisfies the inductive invariant.
LEMMA InitInd == Init => IndInv
<1> SUFFICES ASSUME Init PROVE IndInv
  OBVIOUS
<1>1. TypeOK
  <2>1. nextId \in 0..MaxAttempts /\ retryNum \in Nat /\ finishChan \in 0..FinishCap
    BY MaxAttemptsNat DEF Init, FinishCap
  <2>2. /\ waiter \in WaiterPC /\ limiter \in LimiterPC
        /\ task \in [Ids -> TaskPC] /\ timer \in [Ids -> TimerPC]
        /\ canceler \in [Cancelers -> CancelerPC]
    BY DEF Init, WaiterPC, TaskPC, TimerPC, LimiterPC, CancelerPC
  <2>3. QED
    BY <2>1, <2>2 DEF Init, TypeOK, Empty
<1>2. AdmittedInv /\ QueueInv /\ NewestInv /\ DeafInv
  BY DEF Init, AdmittedInv, QueueInv, NewestInv, DeafInv
<1>3. OutcomeInv
  BY DEF Init, OutcomeInv, OutcomeOnReturn, FinishPC, Empty
<1>4. QED
  BY <1>1, <1>2, <1>3 DEF IndInv

\* The inductive invariant holds in every reachable state.
LEMMA Invariance == Spec => []IndInv
<1>1. IndInv /\ [Next]_vars => IndInv'
  BY TypeStep, AdmittedStep, QueueStep, DeafStep, OutcomeStep DEF IndInv
<1>2. QED
  BY <1>1, InitInd, PTL DEF Spec

\* All variables keep their types; in particular the ids of the attempts stay
\* within the policy's bound and both channels within their capacity.
THEOREM TypeCorrect == Spec => []TypeOK
<1>1. IndInv => TypeOK
  BY DEF IndInv
<1>2. QED
  BY <1>1, Invariance, PTL

\* However many Retry and Timeout signals arrive, the scheduler starts at most
\* MaxAttempts attempts: retryTimes + 1 under the policy of retry/retry.go, and
\* retryTimes (one when that is 0) under that of internal/retry.
THEOREM AttemptsBoundedThm == Spec => []AttemptsBounded
<1>1. IndInv => AttemptsBounded
  BY MaxAttemptsNat DEF IndInv, TypeOK, AdmittedInv, AttemptsBounded
<1>2. QED
  BY <1>1, Invariance, PTL

\* With NeverConcurrencyPolicy at most the newest attempt has a live context.
THEOREM SerialExclusionThm == Spec => []SerialExclusion
<1>1. IndInv => SerialExclusion
  BY MaxAttemptsNat DEF IndInv, TypeOK, QueueInv, NewestInv, SerialExclusion
<1>2. QED
  BY <1>1, Invariance, PTL

\* After the queue is closed only the newest attempt can have a live context,
\* and neither its callback nor its timer reaches the waiter.
THEOREM OrphanIsolatedThm == Spec => []OrphanIsolated
<1>1. IndInv => OrphanIsolated
  <2> SUFFICES ASSUME IndInv, closed, NEW i \in 1..nextId, i \notin cancelled
               PROVE  i = nextId /\ Deaf(i)
    BY DEF OrphanIsolated, Deaf
  <2>1. i \in valid
    BY DEF IndInv, QueueInv
  <2> QED
    BY <2>1 DEF IndInv, NewestInv, DeafInv
<1>2. QED
  BY <1>1, Invariance, PTL

\* Invoke never returns without a result and without an error.
THEOREM OutcomeOnReturnThm == Spec => []OutcomeOnReturn
<1>1. IndInv => OutcomeOnReturn
  BY DEF IndInv, OutcomeInv
<1>2. QED
  BY <1>1, Invariance, PTL
-----------------------------------------------------------------------------
(* One outcome.  With timers, a limit or cancellers two goroutines may each *)
(* have passed their validity check and both record an outcome; without     *)
(* them the right to do so is handed on like a baton.                       *)

Undisturbed == ~HasTimeout /\ ~HasLimit /\ Cancelers = {}

\* The three places the baton can be: with an attempt that may still call
\* back, in signalChan, or with the waiter that starts the next attempt.
Sending(i) == task[i] \in {"sleep", "run", "Done", "Error", "Retry"}
WithTask == \E i \in Ids : Sending(i)
WithSignal == signalChan \in {"Done", "Error", "Retry"}
WithWaiter == waiter \in {"invoke", "add", "retry"}

BatonInv ==
    /\ limiter \in {"select", "exit"}
    /\ \A i \in Ids : timer[i] = "off"
    /\ signalChan \in {"Done", "Error", "Retry", "Quit", Empty}
    /\ \A i, j \in Ids : Sending(i) /\ Sending(j) => i = j
    /\ ~(WithTask /\ WithSignal) /\ ~(WithTask /\ WithWaiter) /\ ~(WithSignal /\ WithWaiter)
    /\ WithTask \/ WithSignal \/ WithWaiter => ~Recorded
    /\ ResultXorErr

\* Every step keeps the baton, hands it on or, with a recorded outcome, ends it.
LEMMA BatonStep ==
    ASSUME Undisturbed, TypeOK, BatonInv, [Next]_vars
    PROVE  BatonInv'
<1> USE DEF Undisturbed
<1>1. CASE InvokeCheck \/ Retry
  <2>1. /\ UNCHANGED <<limiter, timer, signalChan, task, result>>
        /\ WithWaiter
        /\ waiter' \in {"invoke", "add"} => UNCHANGED err
        /\ waiter' \in {"invoke", "add", "wait", "finish"}
    BY <1>1 DEF InvokeCheck, Retry, WithWaiter, outcomeVars, chanVars
  <2>2. WithTask' <=> WithTask
    BY <2>1 DEF WithTask, Sending
  <2>3. ~WithTask /\ ~WithSignal /\ ~Recorded
    BY <2>1 DEF BatonInv
  <2> QED
    BY <2>1, <2>2, <2>3 DEF BatonInv, Sending, WithTask, WithSignal, WithWaiter, Recorded, ResultXorErr
<1>2. CASE InvokeAdd
  <2>1. /\ UNCHANGED <<limiter, timer, signalChan, result, err>>
        /\ task' = [task EXCEPT ![nextId + 1] = "sleep"]
        /\ WithWaiter /\ waiter' = "wait"
    BY <1>2 DEF InvokeAdd, WithWaiter, chanVars
  <2>2. ~WithTask /\ ~WithSignal /\ ~Recorded
    BY <2>1 DEF BatonInv
  <2>3. \A i \in Ids : Sending(i)' => i = nextId + 1
    BY <2>1, <2>2 DEF TypeOK, Sending, WithTask
  <2> QED
    BY <2>1, <2>2, <2>3 DEF BatonInv, WithTask, WithSignal, WithWaiter, Recorded, ResultXorErr
<1>3. CASE Wait
  <2>1. /\ UNCHANGED <<limiter, timer, task>>
        /\ signalChan' = Empty /\ signalChan # Empty
        /\ waiter = "wait"
        /\ \/ signalChan = "Done" /\ result' = TRUE /\ UNCHANGED <<err, waiter>>
           \/ signalChan \in {"Error", "Canceled"} /\ UNCHANGED <<result, waiter>>
           \/ signalChan \in {"Retry", "Timeout"} /\ waiter' = "retry" /\ UNCHANGED <<result, err>>
           \/ signalChan = "Quit" /\ waiter' = "unlock" /\ UNCHANGED <<result, err>>
    BY <1>3 DEF Wait
  <2>2. (WithTask' <=> WithTask) /\ \A i \in Ids : Sending(i)' <=> Sending(i)
    BY <2>1 DEF WithTask, Sending
  <2>3. ~WithSignal'
    BY <2>1 DEF WithSignal, Empty
  <2>4. CASE signalChan = "Quit"
    BY <2>1, <2>2, <2>3, <2>4 DEF BatonInv, WithWaiter, Recorded, ResultXorErr
  <2>5. CASE WithSignal
    BY <2>1, <2>2, <2>3, <2>5 DEF BatonInv, WithSignal, WithWaiter, Recorded, ResultXorErr
  <2> QED
    BY <2>1, <2>4, <2>5 DEF BatonInv, WithSignal
<1>4. CASE WaiterFinish \/ LimiterFinish \/ Unlock \/ LimiterStop
  <2>1. /\ UNCHANGED <<timer, task, result, err>>
        /\ limiter' \in {"select", "exit"}
        /\ signalChan' \in {signalChan, "Quit"}
        /\ waiter' = waiter \/ waiter' \in FinishPC \cup {"wait", "returned"}
    BY <1>4 DEF BatonInv, WaiterFinish, LimiterFinish, Unlock, LimiterStop, FinishStep, Send,
                FinishPC, outcomeVars, chanVars
  <2>2. (WithTask' <=> WithTask) /\ \A i \in Ids : Sending(i)' <=> Sending(i)
    BY <2>1 DEF WithTask, Sending
  <2>3. (WithSignal' => WithSignal) /\ (WithWaiter' => WithWaiter)
    BY <2>1 DEF WithSignal, WithWaiter, FinishPC
  <2> QED
    BY <2>1, <2>2, <2>3 DEF BatonInv, Recorded, ResultXorErr
<1>5. ASSUME NEW i \in Ids, TaskStart(i) \/ TaskCtxDone(i) \/ TaskRemove(i) \/ TaskFinish(i)
                            \/ \E s \in {"Done", "Error", "Retry"} : TaskCallback(i, s)
      PROVE  BatonInv'
  <2>1. /\ UNCHANGED <<timer, limiter, waiter, result, err>>
        /\ signalChan' \in {signalChan, "Quit"}
    BY <1>5 DEF TaskStart, TaskCtxDone, TaskRemove, TaskFinish, TaskCallback, FinishStep, Send,
                outcomeVars, chanVars
  <2>2. \A j \in Ids : Sending(j)' => Sending(j)
    <3>1. \A j \in Ids \ {i} : task'[j] = task[j]
      BY <1>5 DEF TypeOK, TaskStart, TaskCtxDone, TaskRemove, TaskFinish, TaskCallback
    <3>2. Sending(i)' => Sending(i)
      BY <1>5 DEF TypeOK, Sending, TaskStart, TaskCtxDone, TaskRemove, TaskFinish, TaskCallback, FinishStep
    <3> QED
      BY <3>1, <3>2 DEF Sending
  <2>3. WithTask' => WithTask
    BY <2>2 DEF WithTask
  <2>4. (WithSignal' => WithSignal) /\ (WithWaiter' <=> WithWaiter)
    BY <2>1 DEF WithSignal, WithWaiter
  <2> QED
    BY <2>1, <2>2, <2>3, <2>4 DEF BatonInv, Recorded, ResultXorErr
<1>6. ASSUME NEW i \in Ids, TaskSend(i) PROVE BatonInv'
  <2>1. /\ UNCHANGED <<timer, limiter, waiter, result, err>>
        /\ Sending(i) /\ signalChan' \in {"Done", "Error", "Retry"}
        /\ task' = [task EXCEPT ![i] = IF @ = "Retry" THEN "remove" ELSE "finish"]
    BY <1>6 DEF TaskSend, Send, Sending, outcomeVars
  <2>2. WithTask /\ ~WithWaiter /\ ~Recorded
    BY <2>1 DEF BatonInv, WithTask
  <2>3. ~Sending(i)' /\ \A j \in Ids \ {i} : Sending(j)' <=> Sending(j)
    BY <2>1 DEF TypeOK, Sending
  <2>4. ~WithTask'
    BY <2>1, <2>3 DEF BatonInv, WithTask
  <2>5. ~WithWaiter' /\ ~Recorded'
    BY <2>1, <2>2 DEF WithWaiter, Recorded
  <2> QED
    BY <2>1, <2>4, <2>5 DEF BatonInv, WithTask, ResultXorErr, Recorded
<1>7. CASE UNCHANGED vars
  BY <1>7 DEF vars, procVars, chanVars, outcomeVars, BatonInv, Sending, WithTask, WithSignal, WithWaiter,
              Recorded, ResultXorErr
<1>8. ~LimiterFire /\ ~LimiterSend /\ \A i \in Ids : ~TimerNext(i)
  BY DEF BatonInv, LimiterFire, LimiterSend, TimerNext, TimerFire, TimerCtxDone, TimerSend
<1> QED
  BY <1>1, <1>2, <1>3, <1>4, <1>5, <1>6, <1>7, <1>8
     DEF Next, WaiterNext, TaskNext, LimiterNext, Terminated

\* If only the attempts themselves decide (no attempt timeout, no total limit,
\* no CancelTask), Invoke has a result or an error and never both: OnSuccess
\* and OnError of two attempts cannot both be taken, also where attempts may
\* overlap.
THEOREM ResultXorErrThm == Undisturbed => (Spec => []ResultXorErr)
<1> SUFFICES ASSUME Undisturbed PROVE Spec => []ResultXorErr
  OBVIOUS
<1>1. Init => BatonInv
  BY DEF Init, BatonInv, Sending, WithTask, WithSignal, WithWaiter, Recorded, ResultXorErr, Empty
<1>2. IndInv /\ BatonInv /\ [Next]_vars => BatonInv'
  BY BatonStep DEF IndInv
<1>3. BatonInv => ResultXorErr
  BY DEF BatonInv
<1> QED
  BY <1>1, <1>2, <1>3, Invariance, PTL DEF Spec

-----------------------------------------------------------------------------
(* The connection pool. *)

\* The leader waits for a connection only while there is one in the slot, and
\* dials only when there is none.
SlotInv ==
    \A r \in Requests :
        /\ pc[r] \in {"look", "watch", "decide"} => slot # None
        /\ pc[r] = "dial" => slot = None

\* Between two flights a connection that was never ready has a failure noted.
PacedInv ==
    /\ \A c \in Conns : conn[c] = "ready" => c \in wasReady
    /\ fresh => \E r \in Requests : pc[r] \in {"look", "watch"}
    /\ slot # None /\ ~fresh => slot \in wasReady \/ lastFail # "zero"

PoolInv == PoolTypeOK /\ NoLeak /\ SlotInv /\ PacedInv

\* Initially nothing is dialled and nobody dials.
LEMMA PoolInitInd == PoolInit => PoolInv
BY NoneAssumption DEF PoolInit, PoolInv, PoolTypeOK, NoLeak, SlotInv, PacedInv, Open, Leading

\* The single flight has one leader: PoolTypeOK's last two parts, element-wise.
LEMMA OneLeader ==
    ASSUME PoolTypeOK, NEW r \in Requests, pc[r] \in Leading
    PROVE  flight = r /\ \A o \in Requests : pc[o] \in Leading => o = r
BY DEF PoolTypeOK

\* When the flight ends nobody leads and nobody follows.
LEMMA ReturnEnds ==
    ASSUME PoolTypeOK, NEW r \in Requests, pc[r] \in Leading,
           NEW c \in Conns \cup {None}, Return(r, c)
    PROVE  /\ flight' = None /\ fresh' = FALSE
           /\ pc' \in [Requests -> Leading \cup {"idle", "load", "enter", "follow", "done"}]
           /\ got' \in [Requests -> Conns \cup {None}]
           /\ \A o \in Requests : pc'[o] \notin Leading \cup {"follow"}
<1>1. \A o \in Requests : pc'[o] = IF o = r \/ pc[o] = "follow" THEN "done" ELSE pc[o]
  BY DEF Return
<1>2. \A o \in Requests : pc'[o] \notin Leading \cup {"follow"}
  BY <1>1, OneLeader DEF Leading
<1>3. pc' \in [Requests -> Leading \cup {"idle", "load", "enter", "follow", "done"}]
  BY DEF Return, PoolTypeOK
<1>4. got' \in [Requests -> Conns \cup {None}]
  BY DEF Return, PoolTypeOK
<1> QED
  BY <1>2, <1>3, <1>4 DEF Return

\* Leaving checkConnState without a ready connection keeps the invariant.
LEMMA NotReadyKeeps ==
    ASSUME PoolInv, NEW r \in Requests, pc[r] \in {"look", "watch"}, NotReady(r),
           UNCHANGED <<slot, connVars, expired, cleared>>
    PROVE  PoolInv'
<1> USE NoneAssumption DEF PoolInv, PoolTypeOK, NoLeak, SlotInv, PacedInv, Open, Leading, connVars
<1>1. CASE fresh /\ ReturnError(r)
  <2>1. Return(r, None) /\ lastFail' = FailedAt(lastFail)
    BY <1>1 DEF ReturnError
  <2>2. /\ flight' = None /\ fresh' = FALSE
        /\ pc' \in [Requests -> Leading \cup {"idle", "load", "enter", "follow", "done"}]
        /\ got' \in [Requests -> Conns \cup {None}]
        /\ \A o \in Requests : pc'[o] \notin Leading \cup {"follow"}
    BY <2>1, ReturnEnds
  <2>3. lastFail' \in {"recent", "old"}
    BY <2>1 DEF FailedAt
  <2> QED
    BY <2>2, <2>3
<1>2. CASE ~fresh /\ pc' = [pc EXCEPT ![r] = "decide"] /\ UNCHANGED <<lastFail, flight, fresh, got>>
  <2>1. flight = r /\ \A o \in Requests : pc[o] \in Leading => o = r
    BY OneLeader
  <2> QED
    BY <1>2, <2>1
<1> QED
  BY <1>1, <1>2 DEF NotReady

\* Every step keeps the inductive invariant.
LEMMA PoolStepInd == PoolInv /\ [PoolNext]_poolVars => PoolInv'
<1> SUFFICES ASSUME PoolInv, [PoolNext]_poolVars PROVE PoolInv'
  OBVIOUS
<1> USE NoneAssumption DEF PoolInv, PoolTypeOK, NoLeak, SlotInv, PacedInv, Open, Leading, connVars
<1>1. ASSUME NEW r \in Requests, WithPool(r) PROVE PoolInv'
  BY <1>1 DEF WithPool
<1>2. ASSUME NEW r \in Requests, Load(r) PROVE PoolInv'
  BY <1>2 DEF Load
<1>3. ASSUME NEW r \in Requests, Enter(r) PROVE PoolInv'
  BY <1>3 DEF Enter
<1>4. ASSUME NEW r \in Requests, Check(r) PROVE PoolInv'
  BY <1>4 DEF Check
<1>5. ASSUME NEW r \in Requests, Look(r) PROVE PoolInv'
  <2>1. CASE conn[slot] = "ready" /\ Return(r, slot) /\ UNCHANGED lastFail
    <3>1. slot \in Conns /\ slot \in wasReady
      BY <1>5, <2>1 DEF Look
    <3>2. /\ flight' = None /\ fresh' = FALSE
          /\ pc' \in [Requests -> Leading \cup {"idle", "load", "enter", "follow", "done"}]
          /\ got' \in [Requests -> Conns \cup {None}]
          /\ \A o \in Requests : pc'[o] \notin Leading \cup {"follow"}
      BY <1>5, <2>1, <3>1, ReturnEnds DEF Look
    <3> QED
      BY <1>5, <2>1, <3>1, <3>2 DEF Look
  <2>2. CASE conn[slot] = "shutdown" /\ NotReady(r)
    BY <1>5, <2>2, NotReadyKeeps DEF Look
  <2>3. CASE pc' = [pc EXCEPT ![r] = "watch"] /\ UNCHANGED <<lastFail, flight, fresh, got>>
    <3>1. flight = r /\ \A o \in Requests : pc[o] \in Leading => o = r
      BY <1>5, OneLeader DEF Look
    <3> QED
      BY <1>5, <2>3, <3>1 DEF Look
  <2> QED
    BY <1>5, <2>1, <2>2, <2>3 DEF Look
<1>6. ASSUME NEW r \in Requests, Watch(r) PROVE PoolInv'
  <2>1. CASE NotReady(r)
    BY <1>6, <2>1, NotReadyKeeps DEF Watch
  <2>2. CASE pc' = [pc EXCEPT ![r] = "look"] /\ UNCHANGED <<lastFail, flight, fresh, got>>
    <3>1. flight = r /\ \A o \in Requests : pc[o] \in Leading => o = r
      BY <1>6, OneLeader DEF Watch
    <3> QED
      BY <1>6, <2>2, <3>1 DEF Watch
  <2> QED
    BY <1>6, <2>1, <2>2 DEF Watch
<1>7. ASSUME NEW r \in Requests, Decide(r) PROVE PoolInv'
  <2>1. flight = r /\ (\A o \in Requests : pc[o] \in Leading => o = r) /\ slot \in Conns /\ ~fresh
    BY <1>7, OneLeader DEF Decide
  <2>2. CASE lastFail # "recent"
    BY <1>7, <2>1, <2>2 DEF Decide, Close
  <2>3. CASE lastFail = "recent"
    <3>1. Return(r, None) /\ lastFail' = "recent" /\ UNCHANGED <<slot, connVars, expired, cleared>>
      BY <1>7, <2>3 DEF Decide, ReturnError, FailedAt
    <3>2. /\ flight' = None /\ fresh' = FALSE
          /\ pc' \in [Requests -> Leading \cup {"idle", "load", "enter", "follow", "done"}]
          /\ got' \in [Requests -> Conns \cup {None}]
          /\ \A o \in Requests : pc'[o] \notin Leading \cup {"follow"}
      BY <1>7, <3>1, ReturnEnds DEF Decide
    <3> QED
      BY <3>1, <3>2
  <2> QED
    BY <2>2, <2>3
<1>8. ASSUME NEW r \in Requests, Dial(r) PROVE PoolInv'
  <2>1. flight = r /\ (\A o \in Requests : pc[o] \in Leading => o = r) /\ slot = None
    BY <1>8, OneLeader DEF Dial
  <2>2. ASSUME NEW c \in Free,
               slot' = c /\ conn' = [conn EXCEPT ![c] = "connecting"] /\ wasReady' = wasReady \ {c},
               lastFail' = "zero" /\ fresh' = TRUE /\ pc' = [pc EXCEPT ![r] = "look"],
               UNCHANGED <<flight, got, expired, cleared>>
        PROVE  PoolInv'
    BY <2>1, <2>2 DEF Free
  <2>3. CASE Return(r, None) /\ lastFail' = FailedAt("zero") /\ UNCHANGED <<slot, connVars>>
    <3>1. /\ flight' = None /\ fresh' = FALSE
          /\ pc' \in [Requests -> Leading \cup {"idle", "load", "enter", "follow", "done"}]
          /\ got' \in [Requests -> Conns \cup {None}]
          /\ \A o \in Requests : pc'[o] \notin Leading \cup {"follow"}
      BY <1>8, <2>3, ReturnEnds DEF Dial
    <3> QED
      BY <1>8, <2>1, <2>3, <3>1 DEF Dial, FailedAt
  <2> QED
    BY <1>8, <2>2, <2>3 DEF Dial
<1>9. ASSUME NEW r \in Requests, Done(r) PROVE PoolInv'
  BY <1>9 DEF Done
<1>10. ASSUME NEW r \in Requests, Expire(r) PROVE PoolInv'
  BY <1>10 DEF Expire
<1>11. ASSUME NEW c \in Conns, Connect(c) PROVE PoolInv'
  BY <1>11 DEF Connect
<1>12. CASE Age
  BY <1>12 DEF Age
<1>13. CASE Clear
  BY <1>13 DEF Clear, Close
<1>14. CASE UNCHANGED poolVars
  BY <1>14 DEF poolVars
<1> HIDE DEF PoolInv
<1> QED
  BY <1>1, <1>2, <1>3, <1>4, <1>5, <1>6, <1>7, <1>8, <1>9, <1>10, <1>11, <1>12, <1>13, <1>14 DEF PoolNext, Step

\* The inductive invariant holds in every reachable state.
THEOREM PoolInvHolds == PoolSpec => []PoolInv
BY PoolInitInd, PoolStepInd, PTL DEF PoolSpec

\* Types, and one leader per flight, for any number of callers of Dial.
THEOREM PoolTypeCorrect == PoolSpec => []PoolTypeOK
<1>1. PoolInv => PoolTypeOK
  BY DEF PoolInv
<1> QED
  BY PoolInvHolds, <1>1, PTL

\* The pool loses no connection (ccPool.Dial, Clear).
THEOREM NoLeakThm == PoolSpec => []NoLeak
<1>1. PoolInv => NoLeak
  BY DEF PoolInv
<1> QED
  BY PoolInvHolds, <1>1, PTL

\* A connection that was never ready is replaced only after redialInterval: of
\* all steps only Decide takes it out of the slot, where PacedInv excludes the
\* zero time.
THEOREM DialsArePacedThm == PoolSpec => DialsArePaced
<1> DEFINE Paced == slot # None /\ slot' # slot /\ slot \notin wasReady => lastFail = "old"
<1>1. PoolInv /\ [PoolNext]_poolVars => [Paced]_poolVars
  <2> SUFFICES ASSUME PoolInv, PoolNext, slot # None, slot' # slot, slot \notin wasReady
               PROVE  lastFail = "old"
    OBVIOUS
  <2>1. ASSUME NEW r \in Requests, Decide(r) PROVE lastFail = "old"
    <3>1. lastFail # "recent" /\ lastFail \in {"zero", "recent", "old"}
      BY <2>1 DEF Decide, PoolInv, PoolTypeOK
    <3>2. ~fresh
      BY <2>1, OneLeader DEF Decide, PoolInv, PacedInv, Leading
    <3> QED
      BY <3>1, <3>2 DEF PoolInv, PacedInv
  <2>2. \A r \in Requests : ~Dial(r)
    BY DEF Dial, PoolInv, SlotInv
  <2> QED
    BY <2>1, <2>2 DEF PoolNext, Step, WithPool, Load, Enter, Check, Look, Watch, Done, Expire, Connect, Age, Clear
<1> QED
  BY PoolInvHolds, <1>1, PTL DEF PoolSpec, DialsArePaced
=============================================================================
