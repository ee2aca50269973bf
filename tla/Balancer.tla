------------------------------ MODULE Balancer ------------------------------
(***************************************************************************)
(* The gRPC balancer (balancer/internal/balancer.go) with the round-robin  *)
(* picker, fed by a memoryWatcher (registry/memory.go): the goroutine that *)
(* applies address updates, the registry's announcers, the connection that *)
(* reports addresses up and down, callers of Get, and Close.               *)
(*                                                                         *)
(* The balancer's mutex makes its operations single steps, except Close,   *)
(* which holds the mutex while it waits for the watcher's write lock.      *)
(***************************************************************************)
EXTENDS Integers, Sequences, FiniteSets, SequencesExt

CONSTANTS
    Endpoints,      \* addresses (with their metadata)
    Announcers,     \* goroutines that announce one change each
    Getters,        \* goroutines that call Get once each
    MaxFlaps        \* bound on the calls of Up and down

VARIABLES
    addrs,          \* _Balancer.addrs
    connected,      \* the addresses whose connected flag is set
    next,           \* _RoundRobinPicker.next, as a position in addrs
    addrCh,         \* what addrCh buffers: at most one list of addresses
    addrChClosed,
    waitCh,         \* waitCh is not nil
    done,           \* _Balancer.done
    watchLoop,      \* the goroutine of StartInternal
    pending,        \* the updates it got from the watcher
    ch,             \* what memoryWatcher.ch buffers
    watched,        \* memoryWatcher is among the registry's watchers
    wclosed,        \* memoryWatcher.closed; its context is then done
    announcer,      \* control state of each announcer
    update,         \* the update each announcer sends
    getter,         \* control state of each caller of Get
    closer,         \* control state of the caller of Close
    flaps           \* number of calls of Up and down

balVars == <<addrs, connected, next, addrCh, addrChClosed, waitCh, done>>
watchVars == <<watchLoop, pending, ch, watched, wclosed>>
envVars == <<announcer, update, getter, closer, flaps>>
balancerVars == <<balVars, watchVars, envVars>>

Updates == [op : {"Add", "Delete"}, addr : Endpoints]
ChCap == 1

\* Close holds the balancer's mutex between CloseBegin and CloseWatcher.
MutexFree == closer # "closing"

StartInternal ==
    /\ addrs = <<>> /\ connected = {} /\ next = 1
    /\ addrCh = <<>> /\ addrChClosed = FALSE
    /\ waitCh = FALSE /\ done = FALSE
    /\ watchLoop = "first" /\ pending = <<>>
    /\ ch = <<>> /\ watched = FALSE /\ wclosed = FALSE
    /\ announcer = [n \in Announcers |-> "idle"]
    /\ update = [n \in Announcers |-> <<>>]
    /\ getter = [g \in Getters |-> "idle"]
    /\ closer = "idle" /\ flaps = 0

-----------------------------------------------------------------------------
(* memoryWatcher *)

\* firstNext: list the instances, then begin to watch.
FirstNext(list) ==
    /\ watchLoop = "first"
    /\ IF wclosed
         THEN watchLoop' = "exit" /\ UNCHANGED <<pending, watched>>
         ELSE /\ pending' = SetToSeq([op : {"Add"}, addr : list])
              /\ watched' = TRUE
              /\ watchLoop' = "apply"
    /\ UNCHANGED <<balVars, ch, wclosed, envVars>>

NextUpdate ==
    /\ watchLoop = "next" /\ ch # <<>>
    /\ pending' = Head(ch)
    /\ ch' = Tail(ch)
    /\ watchLoop' = "apply"
    /\ UNCHANGED <<balVars, watched, wclosed, envVars>>

NextCtxDone ==
    /\ watchLoop = "next" /\ wclosed
    /\ watchLoop' = "exit"
    /\ UNCHANGED <<balVars, pending, ch, watched, wclosed, envVars>>

\* notifyServiceUpdate and notifyServiceDelete up to the blocking send, which
\* happens with the watcher's read lock held.  An announcer may have read the
\* list of watchers before Close took this one out of it.
Announce(n, u) ==
    /\ announcer[n] = "idle" /\ (watched \/ wclosed)
    /\ announcer' = [announcer EXCEPT ![n] = IF wclosed THEN "done" ELSE "send"]
    /\ update' = [update EXCEPT ![n] = <<u>>]
    /\ UNCHANGED <<balVars, watchVars, getter, closer, flaps>>

Sending(n) == announcer[n] = "send"

AnnounceSend(n) ==
    /\ Sending(n)
    /\ Len(ch) < ChCap
    /\ ch' = Append(ch, update[n])
    /\ announcer' = [announcer EXCEPT ![n] = "done"]
    /\ UNCHANGED <<balVars, watchLoop, pending, watched, wclosed, update, getter, closer, flaps>>

-----------------------------------------------------------------------------
(* _Balancer *)

Without(seq, a) == SelectSeq(seq, LAMBDA b : b # a)

ApplyUpdate(seq, u) ==
    IF u.op = "Delete" THEN Without(seq, u.addr)
    ELSE IF Contains(seq, u.addr) THEN seq ELSE Append(seq, u.addr)

ApplyAll(seq, updates) == FoldLeft(ApplyUpdate, seq, updates)

\* Faulty variant: a list nobody has read yet is kept.
WatchAddrUpdatesKeep ==
    LET new == ApplyAll(addrs, pending) IN
    /\ watchLoop = "apply" /\ MutexFree
    /\ addrs' = new
    /\ connected' = connected \cap ToSet(new)
    /\ IF done
         THEN watchLoop' = "exit" /\ UNCHANGED <<addrCh, next>>
         ELSE /\ addrCh' = IF addrCh = <<>> THEN <<new>> ELSE addrCh
              /\ next' = 1
              /\ watchLoop' = "next"
    /\ UNCHANGED <<addrChClosed, waitCh, done, pending, ch, watched, wclosed, envVars>>

\* Faulty variant: done is not looked at again under the mutex.
WatchAddrUpdatesNoDone ==
    LET new == ApplyAll(addrs, pending) IN
    /\ watchLoop = "apply" /\ MutexFree
    /\ addrs' = new
    /\ connected' = connected \cap ToSet(new)
    /\ addrCh' = <<new>>
    /\ next' = 1
    /\ watchLoop' = "next"
    /\ UNCHANGED <<addrChClosed, waitCh, done, pending, ch, watched, wclosed, envVars>>

\* watchAddrUpdates after Next returned: apply the updates, replace what addrCh
\* buffers by the new list, and build a new picker.
WatchAddrUpdates ==
    LET new == ApplyAll(addrs, pending) IN
    /\ watchLoop = "apply" /\ MutexFree
    /\ addrs' = new
    /\ connected' = connected \cap ToSet(new)
    /\ IF done
         THEN watchLoop' = "exit" /\ UNCHANGED <<addrCh, next>>
         ELSE /\ addrCh' = <<new>>
              /\ next' = 1
              /\ watchLoop' = "next"
    /\ UNCHANGED <<addrChClosed, waitCh, done, pending, ch, watched, wclosed, envVars>>

\* The connection reads the list from Notify().
ReadNotify ==
    /\ addrCh # <<>>
    /\ addrCh' = <<>>
    /\ UNCHANGED <<addrs, connected, next, addrChClosed, waitCh, done, watchVars, envVars>>

\* close(waitCh): everybody waiting on it wakes up.
WakeAll == getter' = [g \in Getters |-> IF getter[g] = "wait" THEN "woken" ELSE getter[g]]

\* Up wakes the waiting callers when exactly one address is now connected; it
\* returns early when the address was connected already.
Up(a) ==
    LET conn == IF Contains(addrs, a) THEN connected \cup {a} ELSE connected IN
    /\ MutexFree /\ flaps < MaxFlaps
    /\ flaps' = flaps + 1
    /\ connected' = conn
    /\ IF a \notin connected /\ Cardinality(conn) = 1 /\ waitCh
         THEN WakeAll /\ waitCh' = FALSE
         ELSE UNCHANGED <<getter, waitCh>>
    /\ UNCHANGED <<addrs, next, addrCh, addrChClosed, done, watchVars, announcer, update, closer>>

down(a) ==
    /\ MutexFree /\ flaps < MaxFlaps
    /\ flaps' = flaps + 1
    /\ connected' = connected \ {a}
    /\ UNCHANGED <<addrs, next, addrCh, addrChClosed, waitCh, done, watchVars,
                   announcer, update, getter, closer>>

\* Pick, and what Get does with it; the caller comes from idle or was woken.
Get(g, blockingWait) ==
    /\ getter[g] \in {"idle", "woken"} /\ MutexFree
    /\ \/ /\ done
          /\ getter' = [getter EXCEPT ![g] = "closing"]
          /\ UNCHANGED <<next, waitCh>>
       \/ /\ ~done /\ addrs = <<>>
          /\ getter' = [getter EXCEPT ![g] = "unavailable"]
          /\ UNCHANGED <<next, waitCh>>
       \/ /\ ~done /\ addrs # <<>>
          /\ next' = (next % Len(addrs)) + 1
          /\ IF addrs[next] \in connected \/ ~blockingWait
               THEN getter' = [getter EXCEPT ![g] = "got"] /\ UNCHANGED waitCh
               ELSE getter' = [getter EXCEPT ![g] = "wait"] /\ waitCh' = TRUE
    /\ UNCHANGED <<addrs, connected, addrCh, addrChClosed, done, watchVars,
                   announcer, update, closer, flaps>>

\* Only a blocking Get can have been woken.
GetCall(g) == Get(g, TRUE) \/ (getter[g] = "idle" /\ Get(g, FALSE))

GetCtxDone(g) ==
    /\ getter[g] \in {"wait", "woken"}
    /\ getter' = [getter EXCEPT ![g] = "ctxDone"]
    /\ UNCHANGED <<balVars, watchVars, announcer, update, closer, flaps>>

CloseBegin ==
    /\ closer = "idle"
    /\ done' = TRUE
    /\ closer' = "closing"
    /\ UNCHANGED <<addrs, connected, next, addrCh, addrChClosed, waitCh, watchVars,
                   announcer, update, getter, flaps>>

\* Faulty variant: Close leaves the callers of Get waiting.
CloseWatcherNoWake ==
    /\ closer = "closing"
    /\ \A n \in Announcers : ~Sending(n)
    /\ wclosed' = TRUE /\ watched' = FALSE
    /\ addrChClosed' = TRUE
    /\ closer' = "closed"
    /\ UNCHANGED <<addrs, connected, next, addrCh, waitCh, done, watchLoop, pending, ch,
                   announcer, update, getter, flaps>>

\* memoryWatcher.Close needs its write lock; then Close wakes the callers of
\* Get, closes addrCh and releases the balancer's mutex.
CloseWatcher ==
    /\ closer = "closing"
    /\ \A n \in Announcers : ~Sending(n)
    /\ wclosed' = TRUE /\ watched' = FALSE
    /\ WakeAll /\ waitCh' = FALSE
    /\ addrChClosed' = TRUE
    /\ closer' = "closed"
    /\ UNCHANGED <<addrs, connected, next, addrCh, done, watchLoop, pending, ch,
                   announcer, update, flaps>>

-----------------------------------------------------------------------------
WatchLoopStep ==
    \/ \E list \in SUBSET Endpoints : FirstNext(list)
    \/ NextUpdate \/ NextCtxDone \/ WatchAddrUpdates

GetStep(g) == getter[g] = "woken" /\ GetCall(g)

NextStep ==
    \/ WatchLoopStep
    \/ \E n \in Announcers : AnnounceSend(n) \/ \E u \in Updates : Announce(n, u)
    \/ ReadNotify
    \/ \E a \in Endpoints : Up(a) \/ down(a)
    \/ \E g \in Getters : GetCall(g) \/ GetCtxDone(g)
    \/ CloseBegin \/ CloseWatcher

BalancerSpec == StartInternal /\ [][NextStep]_balancerVars

(* Running goroutines go on; no one is obliged to announce, to call Get or *)
(* Close, or to report an address up.                                      *)
BalancerFairness ==
    /\ WF_balancerVars(WatchLoopStep)
    /\ \A n \in Announcers : WF_balancerVars(AnnounceSend(n))
    /\ \A g \in Getters : WF_balancerVars(GetStep(g))
    /\ WF_balancerVars(CloseWatcher)

BalancerFairSpec == BalancerSpec /\ BalancerFairness

-----------------------------------------------------------------------------
(* Properties *)

\* The list waiting in addrCh is the balancer's current one: a connection that
\* is slow to read Notify() never acts on a list that was superseded.
NotifyIsCurrent == addrCh # <<>> /\ ~done => addrCh = <<addrs>>

\* Nothing is sent on addrCh after Close closed it, which would panic.
NoNotifyAfterClose == [][addrChClosed => addrCh' \in {addrCh, <<>>}]_balancerVars

\* Close returns and nobody stays blocked in Get, provided that at no time
\* three announcements are under way.
InFlight == Cardinality({n \in Announcers : Sending(n)}) + Len(ch)
            + (IF watchLoop = "apply" THEN 1 ELSE 0)

CloseReturns ==
    [](InFlight < 3) =>
        (closer = "closing" ~> (closer = "closed" /\ \A g \in Getters : getter[g] # "wait"))
=============================================================================
