--------------------------- MODULE RetryScheduler ---------------------------
(***************************************************************************)
(* One call of RetryController.Invoke with a task id, and everything that  *)
(* runs beside it (internal/retry): the calling goroutine (the waiter, the *)
(* only consumer of signalChan), one goroutine per attempt, one timer      *)
(* goroutine per attempt, the scheduler's limit goroutine, and callers of  *)
(* CancelTask.  They share the task queue (behind its mutex, so one queue  *)
(* operation is one step), signalChan and finishChan, both of capacity 1.  *)
(*                                                                         *)
(* Time is abstracted: an armed timer may fire at any moment.  Payloads    *)
(* (results, error texts) are abstracted to their kind.                    *)
(***************************************************************************)
EXTENDS Integers

CONSTANTS
    RetryTimes,     \* FixedRetryCountPolicy(retryTimes)
    Inclusive,      \* the policy is retry/retry.go's (<=), not internal/retry's (<)
    Serial,         \* NeverConcurrencyPolicy: each retry evicts the oldest
    HasTimeout,     \* the timeout policy returns a non-zero duration
    HasLimit,       \* timeLimit # 0
    Cancelers       \* goroutines that call CancelTask(id) once each

ASSUME RetryTimesAssumption == RetryTimes \in Nat
ASSUME FlagsAssumption == {Inclusive, Serial, HasTimeout, HasLimit} \subseteq BOOLEAN

VARIABLES
    valid,          \* ids of the queue's entries whose valid flag is set
    cancelled,      \* ids whose task context has been cancelled
    closed,         \* _TaskQueue.closed
    signalChan,     \* what _Scheduler.signalChan buffers: one signal or nothing
    finishChan,     \* number of tokens in _Scheduler.finishChan
    nextId,         \* _Scheduler.id, the id of the newest attempt
    retryNum,       \* TaskContext.RetryNum
    result,         \* TRUE once Invoke's result was assigned
    err,            \* Invoke's err: "nil", "failed" or "canceled"
    waiter,         \* control state of the goroutine in Invoke
    task,           \* control state of each attempt's goroutine
    timer,          \* control state of each attempt's timer goroutine
    limiter,        \* control state of _NewScheduler's goroutine
    canceler        \* control state of each caller of CancelTask

queueVars == <<valid, cancelled, closed>>
chanVars == <<signalChan, finishChan>>
outcomeVars == <<nextId, retryNum, result, err>>
procVars == <<waiter, task, timer, limiter, canceler>>
vars == <<queueVars, chanVars, outcomeVars, procVars>>

\* The number of attempts a FixedRetryCountPolicy allows: the first attempt is
\* unconditional, a retry needs RetryNum <= retryTimes with the policy the
\* client's interceptors use and RetryNum < retryTimes with the default one.
MaxAttempts ==
    IF Inclusive THEN RetryTimes + 1 ELSE IF RetryTimes = 0 THEN 1 ELSE RetryTimes
Ids == 1..MaxAttempts

Empty == "empty"
FinishCap == 1
SignalType == {"Done", "Error", "Canceled", "Retry", "Timeout", "Quit"}

\* The steps of Finish, run by four kinds of goroutine.
FinishPC == {"finish", "close", "pushFinish", "pushQuit"}
WaiterPC == FinishPC \cup {"invoke", "add", "wait", "retry", "unlock", "returned"}
TaskPC == FinishPC \cup {"idle", "sleep", "run", "Done", "Error", "Retry", "remove", "exit"}
TimerPC == {"off", "armed", "send", "exit"}
LimiterPC == FinishPC \cup {"select", "send", "exit"}
CancelerPC == FinishPC \cup {"start", "cancel", "send", "exit"}

Init ==
    /\ valid = {} /\ cancelled = {} /\ closed = FALSE
    /\ signalChan = Empty /\ finishChan = 0
    /\ nextId = 0 /\ retryNum = 0
    /\ result = FALSE /\ err = "nil"
    /\ waiter = "invoke"
    /\ task = [i \in Ids |-> "idle"]
    /\ timer = [i \in Ids |-> "off"]
    /\ limiter = "select"
    /\ canceler = [c \in Cancelers |-> "start"]

-----------------------------------------------------------------------------
(* _TaskQueue.  An entry that is not valid has already been cancelled, so  *)
(* the valid ids and the cancelled ids are all that its operations need.   *)

OldestValid == {i \in valid : \A j \in valid : i <= j}

\* Faulty variant: the evicted attempt keeps running.
AddTaskNoEvict(i, evictOldestOne) ==
    /\ valid' = valid \cup {i}
    /\ UNCHANGED <<cancelled, closed>>

AddTask(i, evictOldestOne) ==
    LET evicted == IF evictOldestOne THEN OldestValid ELSE {} IN
    /\ valid' = (valid \ evicted) \cup {i}
    /\ cancelled' = cancelled \cup evicted
    /\ UNCHANGED closed

RemoveTask(i) ==
    /\ valid' = valid \ {i}
    /\ cancelled' = cancelled \cup (valid \cap {i})
    /\ UNCHANGED closed

CloseQueue ==
    /\ valid' = {}
    /\ cancelled' = cancelled \cup valid
    /\ closed' = TRUE

\* Faulty variant: an entry of a closed queue still counts.
IsTaskValidNoClosed(i) == i \in valid

IsTaskValid(i) == ~closed /\ i \in valid

-----------------------------------------------------------------------------
(* The channels. *)

Send(s) ==
    /\ signalChan = Empty
    /\ signalChan' = s

\* One step of Finish, taking the goroutine that runs it from pc to pcNext;
\* ret is where it continues when Finish returns.
FinishStep(pc, pcNext, ret) ==
    \/ /\ pc = "finish"
       /\ pcNext = IF closed THEN ret ELSE "close"
       /\ UNCHANGED <<queueVars, chanVars>>
    \/ /\ pc = "close"
       /\ CloseQueue
       /\ pcNext = "pushFinish"
       /\ UNCHANGED chanVars
    \/ /\ pc = "pushFinish"
       /\ finishChan < FinishCap
       /\ finishChan' = finishChan + 1
       /\ pcNext = "pushQuit"
       /\ UNCHANGED <<queueVars, signalChan>>
    \/ /\ pc = "pushQuit"
       /\ Send("Quit")
       /\ pcNext = ret
       /\ UNCHANGED <<queueVars, finishChan>>

-----------------------------------------------------------------------------
(* The waiter: Invoke, its Wait loop and its retry closure. *)

\* _Scheduler.Invoke tests closed, and adds the attempt in a later step.
InvokeCheck ==
    /\ waiter = "invoke"
    /\ waiter' = IF closed THEN "wait" ELSE "add"
    /\ UNCHANGED <<queueVars, chanVars, outcomeVars, task, timer, limiter, canceler>>

\* The first attempt is added with evictOldestOne = false.
InvokeAdd ==
    /\ waiter = "add"
    /\ nextId' = nextId + 1
    /\ AddTask(nextId + 1, Serial /\ nextId # 0)
    /\ task' = [task EXCEPT ![nextId + 1] = "sleep"]
    /\ waiter' = "wait"
    /\ UNCHANGED <<chanVars, retryNum, result, err, timer, limiter, canceler>>

\* One iteration of Wait: receive a signal and run its callback.
Wait ==
    /\ waiter = "wait"
    /\ signalChan # Empty
    /\ signalChan' = Empty
    /\ LET s == signalChan IN
       \/ /\ s = "Done"
          /\ result' = TRUE
          /\ UNCHANGED <<err, waiter>>
       \/ /\ s \in {"Error", "Canceled"}
          /\ err' = IF s = "Canceled" THEN "canceled" ELSE "failed"
          /\ UNCHANGED <<result, waiter>>
       \/ /\ s \in {"Retry", "Timeout"}
          /\ waiter' = "retry"
          /\ UNCHANGED <<result, err>>
       \/ /\ s = "Quit"
          /\ waiter' = "unlock"
          /\ UNCHANGED <<result, err>>
    /\ UNCHANGED <<queueVars, finishChan, nextId, retryNum, task, timer, limiter, canceler>>

\* Faulty variant: one retry too many.
RetryPolicyOffByOne(num) == IF Inclusive THEN num <= RetryTimes + 1 ELSE num <= RetryTimes

\* fixedRetryCountPolicy.Calc, of both packages.
RetryPolicy(num) == IF Inclusive THEN num <= RetryTimes ELSE num < RetryTimes

\* Faulty variant: err is assigned before the policy is asked.
RetryErrFirst ==
    /\ waiter = "retry"
    /\ retryNum' = retryNum + 1
    /\ err' = "failed"
    /\ waiter' = IF RetryPolicy(retryNum + 1) THEN "invoke" ELSE "finish"
    /\ UNCHANGED <<queueVars, chanVars, nextId, result, task, timer, limiter, canceler>>

Retry ==
    /\ waiter = "retry"
    /\ retryNum' = retryNum + 1
    /\ \/ /\ RetryPolicy(retryNum + 1)
          /\ waiter' = "invoke"
          /\ UNCHANGED err
       \/ /\ ~RetryPolicy(retryNum + 1)
          /\ err' = "failed"
          /\ waiter' = "finish"
    /\ UNCHANGED <<queueVars, chanVars, nextId, result, task, timer, limiter, canceler>>

WaiterFinish ==
    /\ FinishStep(waiter, waiter', "wait")
    /\ UNCHANGED <<outcomeVars, task, timer, limiter, canceler>>

\* Callers of CancelTask hold the controller's read lock until they return.
Readers == {c \in Cancelers : canceler[c] \notin {"start", "exit"}}

\* The deferred delete from taskMap takes the controller's write lock.
Unlock ==
    /\ waiter = "unlock"
    /\ Readers = {}
    /\ waiter' = "returned"
    /\ UNCHANGED <<queueVars, chanVars, outcomeVars, task, timer, limiter, canceler>>

-----------------------------------------------------------------------------
(* An attempt: invokeRoutine, its timer goroutine and its callback. *)

TaskStart(i) ==
    /\ task[i] = "sleep"
    /\ task' = [task EXCEPT ![i] = "run"]
    /\ timer' = IF HasTimeout THEN [timer EXCEPT ![i] = "armed"] ELSE timer
    /\ UNCHANGED <<queueVars, chanVars, outcomeVars, waiter, limiter, canceler>>

\* The task calls one of OnSuccess, OnError and Retry; the callback is ignored
\* when the attempt is no longer valid.
TaskCallback(i, s) ==
    /\ task[i] = "run"
    /\ task' = [task EXCEPT ![i] = IF IsTaskValid(i) THEN s ELSE "exit"]
    /\ UNCHANGED <<queueVars, chanVars, outcomeVars, waiter, timer, limiter, canceler>>

\* The task sees its context cancelled and returns without a callback.
TaskCtxDone(i) ==
    /\ task[i] = "run"
    /\ i \in cancelled
    /\ task' = [task EXCEPT ![i] = "exit"]
    /\ UNCHANGED <<queueVars, chanVars, outcomeVars, waiter, timer, limiter, canceler>>

\* Faulty variant: OnSuccess and OnError finish without sending their signal.
TaskSendFinishOnly(i) ==
    /\ task[i] \in {"Done", "Error", "Retry"}
    /\ IF task[i] = "Retry" THEN Send(task[i]) ELSE UNCHANGED signalChan
    /\ task' = [task EXCEPT ![i] = IF @ = "Retry" THEN "remove" ELSE "finish"]
    /\ UNCHANGED <<queueVars, finishChan, outcomeVars, waiter, timer, limiter, canceler>>

\* Faulty variant: OnError sends its signal and forgets to finish.
TaskSendNoFinish(i) ==
    /\ task[i] \in {"Done", "Error", "Retry"}
    /\ Send(task[i])
    /\ task' = [task EXCEPT ![i] = CASE @ = "Retry" -> "remove"
                                     [] @ = "Done" -> "finish"
                                     [] OTHER -> "exit"]
    /\ UNCHANGED <<queueVars, finishChan, outcomeVars, waiter, timer, limiter, canceler>>

TaskSend(i) ==
    /\ task[i] \in {"Done", "Error", "Retry"}
    /\ Send(task[i])
    /\ task' = [task EXCEPT ![i] = IF @ = "Retry" THEN "remove" ELSE "finish"]
    /\ UNCHANGED <<queueVars, finishChan, outcomeVars, waiter, timer, limiter, canceler>>

TaskRemove(i) ==
    /\ task[i] = "remove"
    /\ RemoveTask(i)
    /\ task' = [task EXCEPT ![i] = "exit"]
    /\ UNCHANGED <<chanVars, outcomeVars, waiter, timer, limiter, canceler>>

TaskFinish(i) ==
    /\ \E p \in TaskPC :
        /\ FinishStep(task[i], p, "exit")
        /\ task' = [task EXCEPT ![i] = p]
    /\ UNCHANGED <<outcomeVars, waiter, timer, limiter, canceler>>

TimerFire(i) ==
    /\ timer[i] = "armed"
    /\ timer' = [timer EXCEPT ![i] = IF IsTaskValid(i) THEN "send" ELSE "exit"]
    /\ UNCHANGED <<queueVars, chanVars, outcomeVars, waiter, task, limiter, canceler>>

TimerCtxDone(i) ==
    /\ timer[i] = "armed"
    /\ i \in cancelled
    /\ timer' = [timer EXCEPT ![i] = "exit"]
    /\ UNCHANGED <<queueVars, chanVars, outcomeVars, waiter, task, limiter, canceler>>

TimerSend(i) ==
    /\ timer[i] = "send"
    /\ Send("Timeout")
    /\ timer' = [timer EXCEPT ![i] = "exit"]
    /\ UNCHANGED <<queueVars, finishChan, outcomeVars, waiter, task, limiter, canceler>>

-----------------------------------------------------------------------------
(* The goroutine _NewScheduler starts. *)

LimiterFire ==
    /\ HasLimit
    /\ limiter = "select"
    /\ limiter' = IF closed THEN "exit" ELSE "send"
    /\ UNCHANGED <<queueVars, chanVars, outcomeVars, waiter, task, timer, canceler>>

\* Faulty variant: without a limit nobody drains finishChan.
LimiterStopLimitOnly ==
    /\ HasLimit
    /\ limiter = "select"
    /\ finishChan > 0
    /\ finishChan' = finishChan - 1
    /\ limiter' = "exit"
    /\ UNCHANGED <<queueVars, signalChan, outcomeVars, waiter, task, timer, canceler>>

LimiterStop ==
    /\ limiter = "select"
    /\ finishChan > 0
    /\ finishChan' = finishChan - 1
    /\ limiter' = "exit"
    /\ UNCHANGED <<queueVars, signalChan, outcomeVars, waiter, task, timer, canceler>>

LimiterSend ==
    /\ limiter = "send"
    /\ Send("Error")
    /\ limiter' = "finish"
    /\ UNCHANGED <<queueVars, finishChan, outcomeVars, waiter, task, timer, canceler>>

LimiterFinish ==
    /\ FinishStep(limiter, limiter', "exit")
    /\ UNCHANGED <<outcomeVars, waiter, task, timer, canceler>>

-----------------------------------------------------------------------------
(* CancelTask and _Scheduler.Cancel. *)

\* The lookup in taskMap, under the read lock; the entry is gone once the
\* waiter returned.
CancelTask(c) ==
    /\ canceler[c] = "start"
    /\ canceler' = [canceler EXCEPT ![c] = IF waiter = "returned" THEN "exit" ELSE "cancel"]
    /\ UNCHANGED <<queueVars, chanVars, outcomeVars, waiter, task, timer, limiter>>

Cancel(c) ==
    /\ canceler[c] = "cancel"
    /\ canceler' = [canceler EXCEPT ![c] = IF closed THEN "exit" ELSE "send"]
    /\ UNCHANGED <<queueVars, chanVars, outcomeVars, waiter, task, timer, limiter>>

CancelSend(c) ==
    /\ canceler[c] = "send"
    /\ Send("Canceled")
    /\ canceler' = [canceler EXCEPT ![c] = "finish"]
    /\ UNCHANGED <<queueVars, finishChan, outcomeVars, waiter, task, timer, limiter>>

CancelFinish(c) ==
    /\ \E p \in CancelerPC :
        /\ FinishStep(canceler[c], p, "exit")
        /\ canceler' = [canceler EXCEPT ![c] = p]
    /\ UNCHANGED <<outcomeVars, waiter, task, timer, limiter>>

-----------------------------------------------------------------------------
WaiterNext == InvokeCheck \/ InvokeAdd \/ Wait \/ Retry \/ WaiterFinish \/ Unlock

TaskNext(i) ==
    \/ TaskStart(i)
    \/ \E s \in {"Done", "Error", "Retry"} : TaskCallback(i, s)
    \/ TaskCtxDone(i)
    \/ TaskSend(i)
    \/ TaskRemove(i)
    \/ TaskFinish(i)

TimerNext(i) == TimerFire(i) \/ TimerCtxDone(i) \/ TimerSend(i)

LimiterNext == LimiterFire \/ LimiterStop \/ LimiterSend \/ LimiterFinish

CancelerNext(c) == CancelTask(c) \/ Cancel(c) \/ CancelSend(c) \/ CancelFinish(c)

\* Every goroutine has ended.
AllExited ==
    /\ waiter = "returned"
    /\ \A i \in Ids : task[i] \in {"idle", "exit"} /\ timer[i] \in {"off", "exit"}
    /\ limiter = "exit"
    /\ \A c \in Cancelers : canceler[c] = "exit"

Terminated == AllExited /\ UNCHANGED vars

Next ==
    \/ WaiterNext
    \/ \E i \in Ids : TaskNext(i) \/ TimerNext(i)
    \/ LimiterNext
    \/ \E c \in Cancelers : CancelerNext(c)
    \/ Terminated

Spec == Init /\ [][Next]_vars

(* Go schedules every goroutine that can run, armed timers fire, and an    *)
(* attempt eventually calls back or sees its context cancelled.            *)
Fairness ==
    /\ WF_vars(WaiterNext)
    /\ \A i \in Ids : WF_vars(TaskNext(i)) /\ WF_vars(TimerNext(i))
    /\ WF_vars(LimiterNext)
    /\ \A c \in Cancelers : WF_vars(CancelerNext(c))

FairSpec == Spec /\ Fairness

-----------------------------------------------------------------------------
(* Properties *)

TypeOK ==
    /\ valid \subseteq Ids
    /\ cancelled \subseteq Ids
    /\ closed \in BOOLEAN
    /\ signalChan \in SignalType \cup {Empty}
    /\ finishChan \in 0..FinishCap
    /\ nextId \in 0..MaxAttempts
    /\ retryNum \in Nat
    /\ result \in BOOLEAN
    /\ err \in {"nil", "failed", "canceled"}
    /\ waiter \in WaiterPC
    /\ task \in [Ids -> TaskPC]
    /\ timer \in [Ids -> TimerPC]
    /\ limiter \in LimiterPC
    /\ canceler \in [Cancelers -> CancelerPC]

\* The retry policy bounds the attempts: whatever mix of Retry callbacks and
\* timeouts arrives, including both of one attempt, no more than MaxAttempts
\* attempts are ever started.
AttemptsBounded ==
    /\ nextId <= MaxAttempts
    /\ nextId <= retryNum + 1

\* A serial controller (NeverConcurrencyPolicy) never has two attempts with a
\* live context: adding an attempt cancels whichever earlier one was running.
SerialExclusion ==
    Serial => \A i \in 1..nextId - 1 : i \in cancelled

\* Closing the queue ends every attempt.  One can outlive it with a live
\* context: the newest, added by an Invoke that tested IsQueueClosed before the
\* close.  The waiter never hears of it: neither its callback nor its timer
\* gets as far as sending a signal, so it cannot change Invoke's outcome.
OrphanIsolated ==
    closed => \A i \in 1..nextId :
        \/ i \in cancelled
        \/ /\ i = nextId
           /\ task[i] \in {"sleep", "run", "exit"}
           /\ timer[i] \in {"off", "armed", "exit"}

\* Invoke never returns nil, nil: when it leaves the Wait loop a result or an
\* error was recorded, whichever goroutine ended the loop and however the
\* signals of the others interleaved.
OutcomeOnReturn ==
    waiter \in {"unlock", "returned"} => result \/ err # "nil"

\* Invoke returns either a result or an error, never both.
ResultXorErr == ~(result /\ err # "nil")

\* Invoke returns.
InvokeReturns == <>(waiter = "returned")

\* No goroutine of the scheduler outlives the call for ever.
AllGoroutinesExit == <>AllExited
=============================================================================
