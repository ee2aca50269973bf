------------------------------- MODULE CCPool -------------------------------
(***************************************************************************)
(* The client connection pool (dialer/internal/pool/pool.go): one slot of  *)
(* a ccPool and the requests that dial through it.  The slots of a pool    *)
(* share nothing but the counter that picks one.                           *)
(*                                                                         *)
(* A request takes the slot's connection if it is ready.  Otherwise it     *)
(* enters the slot's single flight: the first request leads, with its own  *)
(* context, and the others wait for what it returns.  The leader waits for *)
(* the connection, or closes it and dials anew.                            *)
(*                                                                         *)
(* External, from how the pool uses them: the connection's states and      *)
(* Close (grpc), and the single flight (golang.org/x/sync).                *)
(***************************************************************************)
EXTENDS FiniteSets, Naturals

CONSTANTS
    Requests,       \* callers of Dial
    Conns,          \* names of connections, used again once forgotten
    None            \* no connection, no flight

ASSUME NoneAssumption == None \notin Conns \cup Requests

VARIABLES
    slot,           \* ccs[idx]
    lastFail,       \* lastFail[idx]: "zero", or "recent" or "old" by redialInterval
    conn,           \* state of each connection
    wasReady,       \* history: connections that have been ready
    flight,         \* the leader of the single flight
    pc,             \* where each request is
    fresh,          \* the leader waits for a connection it has dialled
    expired,        \* requests whose context is done
    got,            \* the connection a request returned with
    cleared         \* Clear has removed the pool

poolVars == <<slot, lastFail, conn, wasReady, flight, pc, fresh, expired, got, cleared>>
connVars == <<conn, wasReady>>

PoolInit ==
    /\ slot = None /\ lastFail = "zero"
    /\ conn = [c \in Conns |-> "none"] /\ wasReady = {}
    /\ flight = None
    /\ pc = [r \in Requests |-> "idle"]
    /\ fresh = FALSE
    /\ expired = {}
    /\ got = [r \in Requests |-> None]
    /\ cleared = FALSE

Leading == {"check", "look", "watch", "decide", "dial"}
Open == {"connecting", "ready", "failed"}

-----------------------------------------------------------------------------
(* ccPool.Dial *)

\* WithPool finds the pool until Clear forgets it.
WithPool(r) ==
    /\ pc[r] = "idle" /\ ~cleared
    /\ pc' = [pc EXCEPT ![r] = "load"]
    /\ UNCHANGED <<slot, lastFail, connVars, flight, fresh, expired, got, cleared>>

\* The slot is read without entering the flight.
Load(r) ==
    /\ pc[r] = "load"
    /\ \/ /\ slot # None /\ conn[slot] = "ready"
          /\ pc' = [pc EXCEPT ![r] = "done"]
          /\ got' = [got EXCEPT ![r] = slot]
       \/ /\ ~(slot # None /\ conn[slot] = "ready")
          /\ pc' = [pc EXCEPT ![r] = "enter"]
          /\ got' = got
    /\ UNCHANGED <<slot, lastFail, connVars, flight, fresh, expired, cleared>>

\* group.Do: lead, or wait for the leader, whatever the own context says.
Enter(r) ==
    /\ pc[r] = "enter"
    /\ flight' = IF flight = None THEN r ELSE flight
    /\ pc' = [pc EXCEPT ![r] = IF flight = None THEN "check" ELSE "follow"]
    /\ UNCHANGED <<slot, lastFail, connVars, fresh, expired, got, cleared>>

\* The flight ends: leader and followers return the same.
Return(r, c) ==
    LET together == {r} \cup {o \in Requests : pc[o] = "follow"} IN
    /\ flight' = None
    /\ fresh' = FALSE
    /\ pc' = [o \in Requests |-> IF o \in together THEN "done" ELSE pc[o]]
    /\ got' = [o \in Requests |-> IF o \in together THEN c ELSE got[o]]

\* Faulty variant: the time of the failure is not recorded.
FailedAtNever(t) == t

\* The deferred function notes the first failure since the dial.
FailedAt(t) == IF t = "zero" THEN "recent" ELSE t

ReturnError(r) == Return(r, None) /\ lastFail' = FailedAt(lastFail)

Check(r) ==
    /\ pc[r] = "check"
    /\ pc' = [pc EXCEPT ![r] = IF slot = None THEN "dial" ELSE "look"]
    /\ UNCHANGED <<slot, lastFail, connVars, flight, fresh, expired, got, cleared>>

\* checkConnState fails: a dialled connection ends the flight, an old one may
\* be replaced.
NotReady(r) ==
    \/ /\ fresh
       /\ ReturnError(r)
    \/ /\ ~fresh
       /\ pc' = [pc EXCEPT ![r] = "decide"]
       /\ UNCHANGED <<lastFail, flight, fresh, got>>

\* checkConnState: the state is looked at ...
Look(r) ==
    /\ pc[r] = "look"
    /\ \/ conn[slot] = "ready" /\ Return(r, slot) /\ UNCHANGED lastFail
       \/ conn[slot] = "shutdown" /\ NotReady(r)
       \/ /\ conn[slot] \in {"connecting", "failed"}
          /\ pc' = [pc EXCEPT ![r] = "watch"]
          /\ UNCHANGED <<lastFail, flight, fresh, got>>
    /\ UNCHANGED <<slot, connVars, expired, cleared>>

\* Faulty variant: the wait does not end with the context.
WatchForever(r) ==
    /\ pc[r] = "watch"
    /\ pc' = [pc EXCEPT ![r] = "look"]
    /\ UNCHANGED <<slot, lastFail, connVars, flight, fresh, expired, got, cleared>>

\* ... until it changes or the leader's context is done, which wins by chance
\* when both have happened.
Watch(r) ==
    /\ pc[r] = "watch"
    /\ \/ /\ r \notin expired \/ conn[slot] \in {"ready", "shutdown"}
          /\ pc' = [pc EXCEPT ![r] = "look"]
          /\ UNCHANGED <<lastFail, flight, fresh, got>>
       \/ r \in expired /\ NotReady(r)
    /\ UNCHANGED <<slot, connVars, expired, cleared>>

\* Faulty variant: the connection is dropped without being closed.
CloseNothing(c) == conn

\* grpc.ClientConn.Close.
Close(c) == [conn EXCEPT ![c] = "shutdown"]

\* Close and redial, unless a failure has been noted within redialInterval; the
\* zero time is long ago.
Decide(r) ==
    /\ pc[r] = "decide"
    /\ \/ /\ lastFail # "recent"
          /\ conn' = Close(slot)
          /\ slot' = None
          /\ pc' = [pc EXCEPT ![r] = "dial"]
          /\ UNCHANGED <<lastFail, flight, fresh, got>>
       \/ /\ lastFail = "recent"
          /\ ReturnError(r)
          /\ UNCHANGED <<conn, slot>>
    /\ UNCHANGED <<wasReady, expired, cleared>>

\* A name that nobody uses any more.
Free == {c \in Conns : conn[c] \notin Open /\ slot # c /\ \A r \in Requests : got[r] # c}

\* The dialer returns a connection, which is stored at once, or an error.
Dial(r) ==
    /\ pc[r] = "dial"
    /\ \/ \E c \in Free :
            /\ slot' = c
            /\ conn' = [conn EXCEPT ![c] = "connecting"]
            /\ wasReady' = wasReady \ {c}
            /\ lastFail' = "zero"
            /\ fresh' = TRUE
            /\ pc' = [pc EXCEPT ![r] = "look"]
            /\ UNCHANGED <<flight, got>>
       \/ /\ Return(r, None)
          /\ lastFail' = FailedAt("zero")
          /\ UNCHANGED <<slot, connVars>>
    /\ UNCHANGED <<expired, cleared>>

\* The caller is through with its connection and its context.
Done(r) ==
    /\ pc[r] = "done"
    /\ pc' = [pc EXCEPT ![r] = "idle"]
    /\ got' = [got EXCEPT ![r] = None]
    /\ expired' = expired \ {r}
    /\ UNCHANGED <<slot, lastFail, connVars, flight, fresh, cleared>>

\* Clear closes what the slot holds and leaves it there.
Clear ==
    /\ ~cleared
    /\ cleared' = TRUE
    /\ conn' = IF slot = None THEN conn ELSE Close(slot)
    /\ UNCHANGED <<slot, lastFail, wasReady, flight, pc, fresh, expired, got>>

-----------------------------------------------------------------------------
(* The surroundings *)

Connect(c) ==
    /\ conn[c] \in {"connecting", "ready", "failed"}
    /\ \E s \in Open \ {conn[c]} :
         /\ conn[c] = "failed" => s = "connecting"
         /\ conn' = [conn EXCEPT ![c] = s]
         /\ wasReady' = IF s = "ready" THEN wasReady \cup {c} ELSE wasReady
    /\ UNCHANGED <<slot, lastFail, flight, pc, fresh, expired, got, cleared>>

\* A deadline passes, or the caller cancels.
Expire(r) ==
    /\ pc[r] \notin {"idle", "done"} /\ r \notin expired
    /\ expired' = expired \cup {r}
    /\ UNCHANGED <<slot, lastFail, connVars, flight, pc, fresh, got, cleared>>

Age ==
    /\ lastFail = "recent"
    /\ lastFail' = "old"
    /\ UNCHANGED <<slot, connVars, flight, pc, fresh, expired, got, cleared>>

Step(r) ==
    \/ Load(r) \/ Enter(r) \/ Check(r) \/ Look(r) \/ Watch(r) \/ Decide(r) \/ Dial(r) \/ Done(r)

PoolNext ==
    \/ \E r \in Requests : WithPool(r) \/ Step(r) \/ Expire(r)
    \/ \E c \in Conns : Connect(c)
    \/ Age \/ Clear

PoolSpec == PoolInit /\ [][PoolNext]_poolVars

\* Goroutines run on, and every context ends: Dial sets a timeout.  A leader
\* whose context is done does not lose against the connection for ever.
PoolFairness ==
    \A r \in Requests :
        /\ WF_poolVars(Step(r)) /\ WF_poolVars(Expire(r))
        /\ SF_poolVars(r \in expired /\ (Watch(r) /\ pc'[r] # "look"))

PoolFairSpec == PoolSpec /\ PoolFairness

-----------------------------------------------------------------------------
(* Properties *)

\* Besides the types: one leader at a time, and nobody follows without one.
PoolTypeOK ==
    /\ slot \in Conns \cup {None}
    /\ lastFail \in {"zero", "recent", "old"}
    /\ conn \in [Conns -> Open \cup {"none", "shutdown"}]
    /\ wasReady \subseteq Conns /\ expired \subseteq Requests
    /\ pc \in [Requests -> Leading \cup {"idle", "load", "enter", "follow", "done"}]
    /\ got \in [Requests -> Conns \cup {None}]
    /\ {fresh, cleared} \subseteq BOOLEAN
    /\ {r \in Requests : pc[r] \in Leading} = IF flight = None THEN {} ELSE {flight}
    /\ flight = None => \A r \in Requests : pc[r] # "follow"

\* The pool loses no connection: whatever it has dialled and not closed is in
\* its slot, also when requests race each other and Clear.
NoLeak == \A c \in Conns : conn[c] \in Open => slot = c

\* A connection that has never been ready is replaced only when redialInterval
\* has passed since its failure: a dead target is not dialled by every request.
DialsArePaced ==
    [][slot # None /\ slot' # slot /\ slot \notin wasReady => lastFail = "old"]_poolVars

\* Every call of Dial returns, also a follower's, whose leader may be any
\* other request.
DialReturns ==
    \A r \in Requests : pc[r] = "load" ~> pc[r] = "done"
=============================================================================
