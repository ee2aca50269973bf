----------------------------- MODULE Discovery ------------------------------
(***************************************************************************)
(* The in-memory registry (registry/memory.go), its notifier               *)
(* (registry/notifier.go) and the discovery that watches it                *)
(* (registry/discovery.go), for one service name.                          *)
(*                                                                         *)
(* A registrar changes the entries under the registry's mutex, releases    *)
(* it, reads the list of watchers, and only then calls the watcher: three  *)
(* steps, so the notifications of two registrars may overtake each other.  *)
(* A starting discovery lists the entries before it begins to watch.       *)
(*                                                                         *)
(* The instances a discovery holds are a list in the code; here they are a *)
(* bag, since only their order, which round robin uses, is lost.           *)
(***************************************************************************)
EXTENDS Integers, FiniteSets

CONSTANTS
    Addrs,          \* instance addresses
    Metas,          \* instance metadata
    None,           \* no entry
    Registrars,     \* goroutines that register and unregister
    Ownerships,     \* the ways to divide the addresses between the registrars
    DownRetries,    \* health checks of a down address (5 in the code)
    MaxOps,         \* bound on the operations of one registrar
    MaxDowns,       \* bound on the calls of Down
    Failing         \* the addresses Down is called for

ASSUME OwnershipsAssumption == Ownerships \subseteq [Registrars -> SUBSET Addrs]
ASSUME MetasAssumption == None \notin Metas
ASSUME BoundsAssumption == {DownRetries, MaxOps, MaxDowns} \subseteq Nat

Instances == Addrs \X Metas
NotDown == -1

VARIABLES
    entries,        \* MemoryDiscovery.entries of the service: address -> metadata
    watching,       \* the discovery is among the notifier's watchers
    disc,           \* "new", "listed", "run" or "closed"
    services,       \* discovery.grpcServices of the service: a bag of instances
    flag,           \* discovery.httpMatcherUpdateFlag
    matcher,        \* the entries discovery.httpMatcher was built from
    monitor,        \* control state of monitorHttpUpdate
    downList,       \* discovery.downList: retryTimes, or NotDown
    checking,       \* addresses checkDownAddr is dialling
    downs,          \* number of calls of Down
    reg,            \* control state of each registrar
    upd, del,       \* instances each registrar still has to announce
    ops,            \* operations each registrar has done
    inWindow,       \* the registrar changed the entries between list and watch
    owns,           \* owns[r]: the addresses registrar r deals with
    missed          \* addresses whose last announcement reached nobody

registryVars == <<entries, watching>>
discVars == <<disc, services, flag, matcher, monitor>>
downVars == <<downList, checking, downs>>
regVars == <<reg, upd, del, ops, inWindow>>
vars == <<registryVars, discVars, downVars, regVars, missed, owns>>

NoEntries == [a \in Addrs |-> None]
Registered == {a \in Addrs : entries[a] # None}
AddrsOf(insts) == {i[1] : i \in insts}

Init ==
    /\ entries = NoEntries
    /\ disc \in {"new", "run"}
    /\ watching = (disc = "run")
    /\ services = [i \in Instances |-> 0]
    /\ flag = FALSE /\ matcher = NoEntries /\ monitor = "idle"
    /\ downList = [a \in Addrs |-> NotDown] /\ checking = {} /\ downs = 0
    /\ reg = [r \in Registrars |-> "idle"]
    /\ upd = [r \in Registrars |-> {}] /\ del = [r \in Registrars |-> {}]
    /\ ops = [r \in Registrars |-> 0]
    /\ inWindow = [r \in Registrars |-> FALSE]
    /\ missed = {}
    /\ owns \in Ownerships

-----------------------------------------------------------------------------
(* MemoryDiscovery *)

\* A change of the entries by r, under the mutex, leaving r to announce u and
\* then d.
Change(r, newEntries, u, d, pc) ==
    /\ reg[r] = "idle" /\ ops[r] < MaxOps
    /\ entries' = newEntries
    /\ reg' = [reg EXCEPT ![r] = pc]
    /\ upd' = [upd EXCEPT ![r] = u]
    /\ del' = [del EXCEPT ![r] = d]
    /\ ops' = [ops EXCEPT ![r] = @ + 1]
    /\ inWindow' = [inWindow EXCEPT ![r] = disc = "listed"]
    /\ UNCHANGED <<watching, discVars, downVars, missed>>

RegisterService(r, a, m) ==
    /\ a \in owns[r]
    /\ Change(r, [entries EXCEPT ![a] = m], {<<a, m>>}, {}, "update")

\* OnDelete is called even when there was nothing to delete.
UnregisterService(r, a) ==
    /\ a \in owns[r]
    /\ Change(r, [entries EXCEPT ![a] = None], {},
              {i \in {<<a, entries[a]>>} : a \in Registered}, "delete")

\* UnregisterService with addr = "".
UnregisterAll(r) ==
    /\ owns[r] = Addrs
    /\ Change(r, NoEntries, {}, {<<a, entries[a]>> : a \in Registered}, "delete")

\* An address that stays registered is not announced, whatever its metadata.
RegisterServiceWithEntries(r, insts) ==
    LET newInsts == {<<a, insts[a]>> : a \in {b \in Addrs \ Registered : insts[b] # None}}
        delInsts == {<<a, entries[a]>> : a \in {b \in Registered : insts[b] = None}}
    IN /\ owns[r] = Addrs
       /\ Change(r, insts, newInsts, delInsts,
                 IF newInsts # {} THEN "update" ELSE IF delInsts # {} THEN "delete" ELSE "idle")

-----------------------------------------------------------------------------
(* Notifier: _Watchers is read once per OnUpdate and per OnDelete. *)

\* Faulty variant: a bulk registration announces its additions only.
AfterUpdateIdle(r) == "idle"

AfterUpdate(r) == IF del[r] # {} THEN "delete" ELSE "idle"

\* The announcement finds the discovery among the watchers, or finds nobody.
NotifyUpdate(r) ==
    /\ reg[r] = "update"
    /\ reg' = [reg EXCEPT ![r] = IF watching THEN "onUpdate" ELSE AfterUpdate(r)]
    /\ missed' = IF ~watching /\ inWindow[r] THEN missed \cup AddrsOf(upd[r]) ELSE missed
    /\ UNCHANGED <<registryVars, discVars, downVars, upd, del, ops, inWindow>>

NotifyDelete(r) ==
    /\ reg[r] = "delete"
    /\ reg' = [reg EXCEPT ![r] = IF watching THEN "onDelete" ELSE "idle"]
    /\ missed' = IF ~watching /\ inWindow[r] THEN missed \cup AddrsOf(del[r]) ELSE missed
    /\ UNCHANGED <<registryVars, discVars, downVars, upd, del, ops, inWindow>>

-----------------------------------------------------------------------------
(* discovery *)

\* updateGrpcEntries puts the new instances before the ones it had.
UpdateGrpcEntries(insts) ==
    services' = [i \in Instances |-> services[i] + (IF i \in insts THEN 1 ELSE 0)]

\* deleteGrpcEntries removes every instance with a deleted address.
DeleteGrpcEntries(insts) ==
    services' = [i \in Instances |-> IF i[1] \in AddrsOf(insts) THEN 0 ELSE services[i]]

OnUpdate(r) ==
    /\ reg[r] = "onUpdate"
    /\ flag' = TRUE
    /\ UpdateGrpcEntries(upd[r])
    /\ reg' = [reg EXCEPT ![r] = AfterUpdate(r)]
    /\ missed' = missed \ AddrsOf(upd[r])
    /\ UNCHANGED <<registryVars, disc, matcher, monitor, downVars, upd, del, ops, inWindow>>

\* Faulty variant: only an update makes the matcher stale.
OnDeleteNoFlag(r) ==
    /\ reg[r] = "onDelete"
    /\ DeleteGrpcEntries(del[r])
    /\ reg' = [reg EXCEPT ![r] = "idle"]
    /\ missed' = missed \ AddrsOf(del[r])
    /\ UNCHANGED <<registryVars, disc, flag, matcher, monitor, downVars, upd, del, ops, inWindow>>

OnDelete(r) ==
    /\ reg[r] = "onDelete"
    /\ flag' = TRUE
    /\ DeleteGrpcEntries(del[r])
    /\ reg' = [reg EXCEPT ![r] = "idle"]
    /\ missed' = missed \ AddrsOf(del[r])
    /\ UNCHANGED <<registryVars, disc, matcher, monitor, downVars, upd, del, ops, inWindow>>

\* NewDiscovery: initialize, ...
Initialize ==
    /\ disc = "new"
    /\ UpdateGrpcEntries({<<a, entries[a]>> : a \in Registered})
    /\ matcher' = entries
    /\ disc' = "listed"
    /\ UNCHANGED <<registryVars, flag, monitor, downVars, regVars, missed>>

\* ... then WatchAllServiceChanges and the two monitors.
Watch ==
    /\ disc = "listed"
    /\ watching' = TRUE
    /\ disc' = "run"
    /\ UNCHANGED <<entries, services, flag, matcher, monitor, downVars, regVars, missed>>

Close ==
    /\ disc = "run"
    /\ watching' = FALSE
    /\ disc' = "closed"
    /\ UNCHANGED <<entries, services, flag, matcher, monitor, downVars, regVars, missed>>

\* One tick of monitorHttpUpdate: swap the flag, then list the entries and
\* store the new matcher, then forget which addresses were down.
MonitorSwap ==
    /\ disc = "run" /\ monitor = "idle"
    /\ flag
    /\ flag' = FALSE
    /\ monitor' = "list"
    /\ UNCHANGED <<registryVars, disc, services, matcher, downVars, regVars, missed>>

MonitorList ==
    /\ monitor = "list"
    /\ matcher' = entries
    /\ monitor' = "clear"
    /\ UNCHANGED <<registryVars, disc, services, flag, downVars, regVars, missed>>

\* Faulty variant: an address that used up its checks stays in the list.
MonitorClearPending ==
    /\ monitor = "clear"
    /\ downList' = [a \in Addrs |-> IF downList[a] = DownRetries THEN DownRetries ELSE NotDown]
    /\ monitor' = "idle"
    /\ UNCHANGED <<registryVars, disc, services, flag, matcher, checking, downs, regVars, missed>>

MonitorClear ==
    /\ monitor = "clear"
    /\ downList' = [a \in Addrs |-> NotDown]
    /\ monitor' = "idle"
    /\ UNCHANGED <<registryVars, disc, services, flag, matcher, checking, downs, regVars, missed>>

Down(a) ==
    /\ disc = "run" /\ downs < MaxDowns /\ a \in Failing
    /\ downList' = [downList EXCEPT ![a] = 0]
    /\ downs' = downs + 1
    /\ UNCHANGED <<registryVars, discVars, checking, regVars, missed>>

\* One tick of downListMonitor; old are the addresses down for a minute.
DownListTick(old) ==
    LET due == {a \in old : downList[a] \in 0..DownRetries - 1} IN
    /\ disc = "run"
    /\ due # {}
    /\ downList' = [a \in Addrs |-> IF a \in due THEN downList[a] + 1 ELSE downList[a]]
    /\ checking' = checking \cup due
    /\ UNCHANGED <<registryVars, discVars, downs, regVars, missed>>

\* checkDownAddr: the dial succeeds or fails.
CheckDownAddr(a, ok) ==
    /\ a \in checking
    /\ checking' = checking \ {a}
    /\ downList' = IF ok THEN [downList EXCEPT ![a] = NotDown] ELSE downList
    /\ UNCHANGED <<registryVars, discVars, downs, regVars, missed>>

-----------------------------------------------------------------------------
RegistrarOp(r) ==
    \/ \E a \in Addrs : UnregisterService(r, a) \/ \E m \in Metas : RegisterService(r, a, m)
    \/ UnregisterAll(r)
    \/ \E insts \in [Addrs -> Metas \cup {None}] : RegisterServiceWithEntries(r, insts)

RegistrarStep(r) == NotifyUpdate(r) \/ NotifyDelete(r) \/ OnUpdate(r) \/ OnDelete(r)

MonitorStep == MonitorSwap \/ MonitorList \/ MonitorClear

Next ==
    /\ \/ \E r \in Registrars : RegistrarOp(r) \/ RegistrarStep(r)
       \/ Initialize \/ Watch \/ Close
       \/ MonitorStep
       \/ \E a \in Addrs : Down(a) \/ \E ok \in BOOLEAN : CheckDownAddr(a, ok)
       \/ \E old \in SUBSET Addrs : DownListTick(old)
    /\ UNCHANGED owns

Spec == Init /\ [][Next]_vars

(* Announcements and the work of the matcher's ticker go on; nobody is      *)
(* obliged to start an operation, and no check of a down address is needed.*)
Fairness ==
    /\ \A r \in Registrars : WF_vars(RegistrarStep(r) /\ UNCHANGED owns)
    /\ WF_vars(MonitorStep /\ UNCHANGED owns)

FairSpec == Spec /\ Fairness

-----------------------------------------------------------------------------
(* Properties *)

\* The addresses PickWithInfo may return.
Pickable == {a \in Addrs : \E m \in Metas : services[<<a, m>>] > 0}

\* No registrar is between a change and its last announcement.
Quiescent == \A r \in Registrars : reg[r] = "idle"

\* When every address is registered and unregistered by one goroutine, a
\* running discovery picks exactly among the registered addresses as soon as
\* nobody is announcing, except for changes announced while it was starting.
AgreesOutsideStartup ==
    Quiescent /\ disc = "run" => Pickable \ missed = Registered \ missed

\* The HTTP matcher, rebuilt from the registry whenever the flag was set, ends
\* up with the registered addresses however the announcements of different
\* registrars and the rebuilding overtake each other, again except for changes
\* announced while the discovery was starting.
MatcherAddrs == {a \in Addrs : matcher[a] # None}

MatcherConverges ==
    <>[](disc # "run" \/ MatcherAddrs \ missed = Registered \ missed)

\* An address that failed all its checks is not checked again; it comes back
\* when a registrar's announcement reaches the discovery, whatever the monitor
\* is doing at that moment and although the check that would have freed it is
\* gone: the rebuilding of the matcher that follows forgets the down list.
GivenUpComesBack ==
    \A a \in Addrs :
        (downList[a] = DownRetries /\ \E r \in Registrars : reg[r] \in {"onUpdate", "onDelete"})
            ~> (downList[a] # DownRetries \/ disc = "closed")
=============================================================================
