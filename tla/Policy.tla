------------------------------- MODULE Policy -------------------------------
(***************************************************************************)
(* Policies of one method: how a setting of the configuration reaches the  *)
(* mechanism that enforces it (control_plugins/config.go, control/wrapper, *)
(* and the managers of rate_limit, retry and circuit_breaker; the timeout  *)
(* handler has no manager).                                                *)
(*                                                                         *)
(* A request asks the control plane for the method's policy.  The control  *)
(* plane keeps the policy it built last and builds a new one when that is  *)
(* older than configUpdateInterval.  The request then passes its policy to *)
(* the manager, which keeps one mechanism per method and rebuilds it when  *)
(* the settings differ, and runs under the mechanism it gets back.         *)
(*                                                                         *)
(* Time is an age, counted up to one more than Interval.  A policy carries *)
(* its age in place of its Version, the time at which it was begun.        *)
(***************************************************************************)
EXTENDS Integers, FiniteSets

CONSTANTS
    Kinds,          \* of "rate_limit", "retry", "circuit_breaker", "timeout"
    Requests,       \* concurrent requests of the method
    Vals,           \* numbers configured for the method
    ServiceVals,    \* what the service's setting may be
    None,           \* a missing key, policy or mechanism
    Interval        \* configUpdateInterval

ASSUME KindsAssumption ==
    Kinds \subseteq {"rate_limit", "retry", "circuit_breaker", "timeout"}
ASSUME ValsAssumption == Vals \subseteq Nat /\ ServiceVals \subseteq Nat \cup {None}
ASSUME NoneAssumption == None \notin Int /\ None \notin [val : Int, gen : Int]
ASSUME IntervalAssumption == Interval \in Nat

VARIABLES
    kind,           \* which policy this is; never changes
    conf,           \* the keys of the configuration
    since,          \* age of the last change of conf
    cached,         \* the control plane's policy of the method
    mgr,            \* the manager's mechanism: its settings, and which one it is
    lock,           \* the request that holds the manager's write lock
    req,            \* each request: where it is, its policy and what it runs under
    clean,          \* history: requests that began long after the last change
    settled         \* history: the last change has arrived at the manager

vars == <<kind, conf, since, cached, mgr, lock, req, clean, settled>>

Ages == 0..Interval + 1
Older(age) == IF age > Interval THEN age ELSE age + 1
Blank == [enabled |-> FALSE, val |-> 0, age |-> 0]
Idle == [pc |-> "idle", pol |-> Blank, got |-> None]
Active == {r \in Requests : req[r].pc # "idle"}

Confs == [menable : BOOLEAN, enable : BOOLEAN, mval : Vals \cup {None}, val : ServiceVals]

Init ==
    /\ kind \in Kinds
    /\ conf \in Confs
    /\ since = Interval + 1
    /\ cached = None
    /\ mgr = None
    /\ lock = None
    /\ req = [r \in Requests |-> Idle]
    /\ clean = {}
    /\ settled = FALSE

-----------------------------------------------------------------------------
(* The meaning of the configuration *)

\* View.Has: ConfigImpl.Get reports a missing bare key as found, so that every
\* key is present.
Has(key) == TRUE

\* ValueImpl.Int, Uint and Duration of a missing key.
Num(x) == IF x = None THEN 0 ELSE x

EnabledBy(c) == c.menable \/ c.enable

Default == IF kind = "rate_limit" THEN -1 ELSE 0

Setting(c) ==
    CASE Has("mval") -> Num(c.mval)
      [] ~Has("mval") /\ Has("val") -> Num(c.val)
      [] OTHER -> Default

\* The control plane's wrapper completes a policy that is enabled.
Normalise(pol) ==
    CASE ~pol.enabled -> pol
      [] pol.enabled /\ kind = "rate_limit" /\ pol.val = 0 -> [pol EXCEPT !.val = -1]
      [] pol.enabled /\ kind = "retry" /\ pol.val = 0 -> [pol EXCEPT !.enabled = FALSE]
      [] pol.enabled /\ kind = "circuit_breaker" /\ pol.val = 0 -> [pol EXCEPT !.val = 50]
      [] OTHER -> pol

\* The handler uses the mechanism; otherwise it runs the request plainly.
Applies(pol) ==
    /\ pol.enabled
    /\ kind = "rate_limit" => pol.val > 0
    /\ kind = "timeout" => pol.val # 0

\* What a request should run under if it read conf just now.
Effective ==
    LET pol == Normalise([enabled |-> EnabledBy(conf), age |-> 0,
                          val |-> IF EnabledBy(conf) THEN Setting(conf) ELSE 0])
    IN IF Applies(pol) THEN pol.val ELSE None

-----------------------------------------------------------------------------
(* The control plane *)

Expired(pol) == pol.age > Interval

\* A request takes the cached policy or begins a new one.
Lookup(r) ==
    /\ req[r].pc = "idle"
    /\ req' = [req EXCEPT ![r] =
         IF cached # None /\ ~Expired(cached)
           THEN [Idle EXCEPT !.pc = "apply", !.pol = cached]
           ELSE [Idle EXCEPT !.pc = "enable"]]
    /\ clean' = IF since > Interval /\ Active \subseteq clean THEN clean \cup {r} ELSE clean
    /\ UNCHANGED <<kind, conf, since, cached, mgr, lock, settled>>

ReadEnable(r) ==
    /\ req[r].pc = "enable"
    /\ req' = [req EXCEPT ![r].pol.enabled = EnabledBy(conf),
                          ![r].pc = IF EnabledBy(conf) THEN "setting" ELSE "store"]
    /\ UNCHANGED <<kind, conf, since, cached, mgr, lock, clean, settled>>

\* Faulty variant: the version is taken when the settings have been read.
ReadSettingStampsLate(r) ==
    /\ req[r].pc = "setting"
    /\ req' = [req EXCEPT ![r].pol.val = Setting(conf), ![r].pol.age = 0, ![r].pc = "store"]
    /\ UNCHANGED <<kind, conf, since, cached, mgr, lock, clean, settled>>

ReadSetting(r) ==
    /\ req[r].pc = "setting"
    /\ req' = [req EXCEPT ![r].pol.val = Setting(conf), ![r].pc = "store"]
    /\ UNCHANGED <<kind, conf, since, cached, mgr, lock, clean, settled>>

\* The deferred Set stores the policy, whatever was stored meanwhile.
Store(r) ==
    /\ req[r].pc = "store"
    /\ cached' = req[r].pol
    /\ req' = [req EXCEPT ![r].pc = "apply"]
    /\ UNCHANGED <<kind, conf, since, mgr, lock, clean, settled>>

\* The wrapper's completion and the handler's decision.  The age has served.
Apply(r) ==
    LET pol == [Normalise(req[r].pol) EXCEPT !.age = 0] IN
    /\ req[r].pc = "apply"
    /\ req' = [req EXCEPT ![r] =
         IF ~Applies(pol) THEN [Idle EXCEPT !.pc = "run"]
         ELSE IF kind = "timeout" THEN [Idle EXCEPT !.pc = "run", !.got = pol.val]
         ELSE [Idle EXCEPT !.pc = "find", !.pol = pol]]
    /\ UNCHANGED <<kind, conf, since, cached, mgr, lock, clean, settled>>

-----------------------------------------------------------------------------
(* The managers *)

\* A clean request has its mechanism and nobody is about to replace it.
Arrived(r) == r \in clean /\ \A o \in Requests : req[o].pc # "write"

\* The map is looked up under the read lock.
Find(r) ==
    /\ req[r].pc = "find" /\ lock = None
    /\ req' = [req EXCEPT ![r].pc = IF mgr = None THEN "create" ELSE "compare"]
    /\ UNCHANGED <<kind, conf, since, cached, mgr, lock, clean, settled>>

\* And again under the write lock, which is kept during an update.
Create(r) ==
    /\ req[r].pc = "create" /\ lock = None
    /\ \/ /\ mgr = None
          /\ mgr' = [val |-> req[r].pol.val, gen |-> 0]
          /\ req' = [req EXCEPT ![r].pc = "run", ![r].got = req[r].pol.val, ![r].pol = Blank]
          /\ settled' = (settled \/ Arrived(r))
          /\ lock' = lock
       \/ /\ mgr # None
          /\ req' = [req EXCEPT ![r].pc = "compare"]
          /\ lock' = r
          /\ UNCHANGED <<mgr, settled>>
    /\ UNCHANGED <<kind, conf, since, cached, clean>>

\* Faulty variant: the settings are not compared, only the versions.
SameSettingsNever(r) == FALSE

\* Equal versions are one policy; otherwise the settings decide.
SameSettings(r) == mgr.val = req[r].pol.val

Compare(r) ==
    /\ req[r].pc = "compare"
    /\ req' = [req EXCEPT ![r].pc = IF SameSettings(r) THEN "pick" ELSE "write"]
    /\ lock' = IF SameSettings(r) /\ lock = r THEN None ELSE lock
    /\ UNCHANGED <<kind, conf, since, cached, mgr, clean, settled>>

\* The update itself: a new bucket or retry controller, or the circuit
\* configured anew.  gen tells it from the one before.
Write(r) ==
    /\ req[r].pc = "write"
    /\ mgr' = [val |-> req[r].pol.val, gen |-> 1 - mgr.gen]
    /\ req' = [req EXCEPT ![r].pc = "pick"]
    /\ lock' = IF lock = r THEN None ELSE lock
    /\ UNCHANGED <<kind, conf, since, cached, clean, settled>>

\* The mechanism is read from the wrapper without its lock.
Pick(r) ==
    /\ req[r].pc = "pick"
    /\ req' = [req EXCEPT ![r].pc = "run", ![r].got = mgr.val, ![r].pol = Blank]
    /\ settled' = (settled \/ Arrived(r))
    /\ UNCHANGED <<kind, conf, since, cached, mgr, lock, clean>>

Finish(r) ==
    /\ req[r].pc = "run"
    /\ req' = [req EXCEPT ![r] = Idle]
    /\ clean' = clean \ {r}
    /\ UNCHANGED <<kind, conf, since, cached, mgr, lock, settled>>

-----------------------------------------------------------------------------
(* The surroundings *)

ChangeConf ==
    /\ conf' \in Confs
    /\ conf' # conf
    /\ since' = 0
    /\ clean' = {}
    /\ settled' = FALSE
    /\ UNCHANGED <<kind, cached, mgr, lock, req>>

Tick ==
    /\ since' = Older(since)
    /\ cached' = IF cached = None THEN None ELSE [cached EXCEPT !.age = Older(@)]
    /\ req' = [r \in Requests |->
         IF req[r].pc \in {"enable", "setting", "store", "apply"}
           THEN [req[r] EXCEPT !.pol.age = Older(@)] ELSE req[r]]
    /\ UNCHANGED <<kind, conf, mgr, lock, clean, settled>>

Step(r) ==
    \/ Lookup(r) \/ ReadEnable(r) \/ ReadSetting(r) \/ Store(r) \/ Apply(r)
    \/ Find(r) \/ Create(r) \/ Compare(r) \/ Write(r) \/ Pick(r) \/ Finish(r)

Next == (\E r \in Requests : Step(r)) \/ ChangeConf \/ Tick

Spec == Init /\ [][Next]_vars

-----------------------------------------------------------------------------
(* Properties *)

\* A request that begins more than configUpdateInterval after the last change
\* of the configuration, when no request from before is under way, runs under
\* what the configuration says, although control plane, managers and other
\* requests pass policies around without a common lock.
FreshAfterInterval ==
    \A r \in clean : req[r].pc = "run" => req[r].got = Effective

\* The refresh of an unchanged policy leaves the mechanism alone: once the
\* change has arrived, buckets and circuits (with their counts) stay.  (While
\* it arrives, every request that found the old settings replaces the mechanism
\* once, also after another has done it.)
MechanismKept ==
    [][settled /\ settled' /\ mgr # None => mgr' = mgr]_vars
=============================================================================
