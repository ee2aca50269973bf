---------------------------- MODULE PolicyProofs ----------------------------
(* Proofs about Policy, for any number of requests and any settings: a      *)
(* changed setting is in force after configUpdateInterval, and a mechanism  *)
(* is not rebuilt once the change has arrived.                              *)
EXTENDS Policy, TLAPS

Pol == [enabled : BOOLEAN, val : Int, age : Ages]
Reading == {"enable", "setting", "store", "apply"}
Managing == {"find", "create", "compare", "write", "pick"}

TypeInv ==
    /\ conf \in Confs
    /\ since \in Ages
    /\ cached # None => cached \in Pol
    /\ mgr # None => mgr \in [val : Int, gen : Int]
    /\ req \in [Requests -> [pc : {"idle", "run"} \cup Reading \cup Managing,
                             pol : Pol, got : Int \cup {None}]]
    /\ clean \subseteq Requests
    /\ settled \in BOOLEAN

\* What is read of a policy is what the configuration says now.
Raw == [enabled |-> EnabledBy(conf), age |-> 0, val |-> IF EnabledBy(conf) THEN Setting(conf) ELSE 0]
Agrees(pol) == pol.enabled = Raw.enabled /\ pol.val = Raw.val
ReadAgrees(q) ==
    /\ q.pc = "setting" => q.pol.enabled = TRUE /\ Raw.enabled = TRUE
    /\ q.pc \in {"store", "apply"} => Agrees(q.pol)

\* A policy that does not agree was begun before the configuration changed.
AgeInv ==
    /\ cached # None => Agrees(cached) \/ cached.age >= since
    /\ \A r \in Requests :
        /\ req[r].pc = "enable" => req[r].pol.val = 0
        /\ req[r].pc \in Reading => ReadAgrees(req[r]) \/ req[r].pol.age >= since

\* Once a request is clean, all that are under way are.
CleanInv ==
    /\ clean \subseteq Active
    /\ clean # {} \/ settled => since > Interval /\ Active \subseteq clean

\* What a clean request has in hand, and what it leaves with the manager.
CleanReqInv(r) ==
    /\ ReadAgrees(req[r])
    /\ req[r].pc \in Managing => req[r].pol.val = Effective
    /\ req[r].pc = "pick" => mgr.val = Effective
    /\ req[r].pc = "run" => req[r].got = Effective

MgrInv ==
    /\ \A r \in Requests : req[r].pc \in {"compare", "write", "pick"} => mgr # None
    /\ settled => mgr # None /\ mgr.val = Effective /\ \A r \in Requests : req[r].pc # "write"

IndInv == TypeInv /\ AgeInv /\ CleanInv /\ (\A r \in clean : CleanReqInv(r)) /\ MgrInv

-----------------------------------------------------------------------------
(* Lemmas about ages, settings and their completion *)

LEMMA AgeFacts ==
    /\ 0 \in Ages
    /\ \A a \in Ages : Older(a) \in Ages /\ (a > Interval => Older(a) > Interval)
    /\ \A a, b \in Ages : a >= b => Older(a) >= Older(b)
BY IntervalAssumption DEF Ages, Older

LEMMA BlankType == Blank \in Pol
BY AgeFacts DEF Blank, Pol

LEMMA SettingType == TypeInv => Setting(conf) \in Int
BY ValsAssumption, NoneAssumption DEF TypeInv, Confs, Setting, Has, Num, Default

LEMMA RawFacts ==
    ASSUME TypeInv
    PROVE  /\ EnabledBy(conf) \in BOOLEAN /\ Raw.enabled = EnabledBy(conf)
           /\ Raw.val = IF EnabledBy(conf) THEN Setting(conf) ELSE 0
           /\ Raw.val \in Int
<1>1. EnabledBy(conf) \in BOOLEAN
  BY DEF TypeInv, Confs, EnabledBy
<1>2. Raw.enabled = EnabledBy(conf)
  BY DEF Raw
<1>3. Raw.val = IF EnabledBy(conf) THEN Setting(conf) ELSE 0
  BY DEF Raw
<1> QED
  BY <1>1, <1>2, <1>3, SettingType

LEMMA NormaliseType ==
    ASSUME NEW pol \in Pol
    PROVE  Normalise(pol) \in Pol
<1>1. CASE Normalise(pol) = pol
  BY <1>1
<1>2. CASE Normalise(pol) = [pol EXCEPT !.val = -1] \/ Normalise(pol) = [pol EXCEPT !.val = 50]
  BY <1>2 DEF Pol
<1>3. CASE Normalise(pol) = [pol EXCEPT !.enabled = FALSE]
  BY <1>3 DEF Pol
<1> QED
  BY <1>1, <1>2, <1>3 DEF Normalise, Pol

\* The completion does not depend on the age.
LEMMA NormaliseAgrees ==
    ASSUME NEW a \in Pol, NEW b \in Pol, a.enabled = b.enabled, a.val = b.val
    PROVE  Normalise(a).enabled = Normalise(b).enabled /\ Normalise(a).val = Normalise(b).val
BY DEF Normalise, Pol

\* A request whose policy agrees is to run under what is effective.
LEMMA AppliesEffective ==
    ASSUME TypeInv, NEW pol \in Pol, Agrees(pol)
    PROVE  LET q == [Normalise(pol) EXCEPT !.age = 0]
           IN  Effective = IF Applies(q) THEN q.val ELSE None
<1> DEFINE q == [Normalise(pol) EXCEPT !.age = 0]
           n == Normalise(Raw)
<1>1. Raw \in Pol
  BY RawFacts, AgeFacts DEF Raw, Pol
<1>2. Normalise(pol) \in Pol /\ n \in Pol
  BY <1>1, NormaliseType
<1>3. n.enabled = q.enabled /\ n.val = q.val
  BY <1>1, <1>2, NormaliseAgrees DEF Agrees, Pol
<1>4. Applies(n) <=> Applies(q)
  BY <1>3 DEF Applies
<1>5. Effective = IF Applies(n) THEN n.val ELSE None
  BY DEF Effective, Raw
<1> QED
  BY <1>3, <1>4, <1>5

\* What is effective depends on nothing but the configuration.
LEMMA ConfSame ==
    ASSUME UNCHANGED <<kind, conf>>
    PROVE  Raw' = Raw /\ Effective' = Effective
<1>1. EnabledBy(conf)' = EnabledBy(conf) /\ Setting(conf)' = Setting(conf)
  BY DEF EnabledBy, Setting, Has, Num, Default
<1>2. Raw' = Raw
  BY <1>1 DEF Raw
<1>3. Normalise(Raw)' = Normalise(Raw)
  BY <1>2 DEF Normalise
<1>4. Applies(Normalise(Raw))' = Applies(Normalise(Raw))
  BY <1>3 DEF Applies
<1>5. Effective = IF Applies(Normalise(Raw)) THEN Normalise(Raw).val ELSE None
  BY DEF Effective, Raw
<1>6. Effective' = (IF Applies(Normalise(Raw)) THEN Normalise(Raw).val ELSE None)'
  BY DEF Effective, Raw
<1> QED
  BY <1>2, <1>3, <1>4, <1>5, <1>6

-----------------------------------------------------------------------------
(* Types *)

Req == [pc : {"idle", "run"} \cup Reading \cup Managing, pol : Pol, got : Int \cup {None}]

\* A step of a request changes only that request.
LEMMA ReqStep ==
    ASSUME TypeInv, MgrInv, NEW r \in Requests, Step(r)
    PROVE  /\ UNCHANGED <<kind, conf, since>>
           /\ req' \in [Requests -> Req]
           /\ \A o \in Requests : o # r => req'[o] = req[o]
<1> USE DEF Reading, Managing
<1>0. req \in [Requests -> Req] /\ Blank \in Pol
  BY BlankType DEF TypeInv, Req
<1>1. Idle \in Req
  BY <1>0 DEF Idle, Req
<1>2. CASE Lookup(r)
  <2>1. cached # None => [Idle EXCEPT !.pc = "apply", !.pol = cached] \in Req
    BY <1>1 DEF Req, TypeInv
  <2>2. [Idle EXCEPT !.pc = "enable"] \in Req
    BY <1>1 DEF Req
  <2>3. \/ cached # None /\ req' = [req EXCEPT ![r] = [Idle EXCEPT !.pc = "apply", !.pol = cached]]
        \/ req' = [req EXCEPT ![r] = [Idle EXCEPT !.pc = "enable"]]
    BY <1>2 DEF Lookup
  <2>4. req' \in [Requests -> Req] /\ \A o \in Requests : o # r => req'[o] = req[o]
    BY <1>0, <2>1, <2>2, <2>3
  <2> QED
    BY <1>2, <2>4 DEF Lookup
<1>3. CASE ReadEnable(r)
  <2>1. EnabledBy(conf) \in BOOLEAN
    BY RawFacts
  <2>2. UNCHANGED <<kind, conf, since>>
    BY <1>3 DEF ReadEnable
  <2> QED
    BY <1>0, <1>3, <2>1, <2>2 DEF ReadEnable, Req, Pol
<1>4. CASE ReadSetting(r)
  BY <1>0, <1>4, SettingType DEF ReadSetting, Req, Pol
<1>5. CASE Store(r)
  BY <1>0, <1>5 DEF Store, Req
<1>6. CASE Apply(r)
  <2> DEFINE q == [Normalise(req[r].pol) EXCEPT !.age = 0]
  <2>1. req[r].pol \in Pol
    BY <1>0 DEF Req
  <2>2. q \in Pol
    BY <2>1, NormaliseType, AgeFacts DEF Pol
  <2>3. q.val \in Int
    BY <2>2 DEF Pol
  <2> HIDE DEF q
  <2>4. /\ [Idle EXCEPT !.pc = "run"] \in Req
        /\ [Idle EXCEPT !.pc = "run", !.got = q.val] \in Req
        /\ [Idle EXCEPT !.pc = "find", !.pol = q] \in Req
    BY <1>1, <2>2, <2>3 DEF Req
  <2>5. \/ req' = [req EXCEPT ![r] = [Idle EXCEPT !.pc = "run"]]
        \/ req' = [req EXCEPT ![r] = [Idle EXCEPT !.pc = "run", !.got = q.val]]
        \/ req' = [req EXCEPT ![r] = [Idle EXCEPT !.pc = "find", !.pol = q]]
    BY <1>6 DEF Apply, q
  <2>6. UNCHANGED <<kind, conf, since>>
    BY <1>6 DEF Apply
  <2> QED
    BY <1>0, <2>4, <2>5, <2>6
<1>7. CASE Find(r)
  BY <1>0, <1>7 DEF Find, Req
<1>8. CASE Create(r)
  <2>1. \/ req' = [req EXCEPT ![r].pc = "run", ![r].got = req[r].pol.val, ![r].pol = Blank]
        \/ req' = [req EXCEPT ![r].pc = "compare"]
    BY <1>8 DEF Create
  <2>2. req[r].pol.val \in Int
    BY <1>0 DEF Req, Pol
  <2>3. req' \in [Requests -> Req] /\ \A o \in Requests : o # r => req'[o] = req[o]
    BY <1>0, <2>1, <2>2 DEF Req
  <2> QED
    BY <1>8, <2>3 DEF Create
<1>9. CASE Compare(r)
  BY <1>0, <1>9 DEF Compare, Req
<1>10. CASE Write(r)
  BY <1>0, <1>10 DEF Write, Req
<1>11. CASE Pick(r)
  <2>1. mgr.val \in Int
    BY <1>11 DEF Pick, TypeInv, MgrInv
  <2> QED
    BY <1>0, <1>11, <2>1 DEF Pick, Req
<1>12. CASE Finish(r)
  BY <1>0, <1>1, <1>12 DEF Finish
<1> QED
  BY <1>2, <1>3, <1>4, <1>5, <1>6, <1>7, <1>8, <1>9, <1>10, <1>11, <1>12 DEF Step

\* The clock changes nothing but ages.
LEMMA TickStep ==
    ASSUME TypeInv, Tick
    PROVE  /\ since' = Older(since) /\ UNCHANGED <<kind, conf, mgr, clean, settled>>
           /\ (cached = None /\ cached' = None)
              \/ (cached' \in Pol /\ cached'.enabled = cached.enabled /\ cached'.val = cached.val
                  /\ cached'.age = Older(cached.age))
           /\ req' \in [Requests -> Req]
           /\ \A r \in Requests :
                /\ req'[r].pc = req[r].pc /\ req'[r].got = req[r].got
                /\ req'[r].pol.enabled = req[r].pol.enabled /\ req'[r].pol.val = req[r].pol.val
                /\ req[r].pc \in Reading => req'[r].pol.age = Older(req[r].pol.age)
<1>0. req \in [Requests -> Req]
  BY DEF TypeInv, Req
<1>1. since' = Older(since) /\ UNCHANGED <<kind, conf, mgr, clean, settled>>
  BY DEF Tick
<1>4. ASSUME NEW r \in Requests
      PROVE  /\ req'[r] \in Req
             /\ req'[r].pc = req[r].pc /\ req'[r].got = req[r].got
             /\ req'[r].pol.enabled = req[r].pol.enabled /\ req'[r].pol.val = req[r].pol.val
             /\ req[r].pc \in Reading => req'[r].pol.age = Older(req[r].pol.age)
  <2>1. req[r] \in Req /\ Older(req[r].pol.age) \in Ages
    BY <1>0, AgeFacts DEF Req, Pol
  <2>2. CASE req[r].pc \in Reading
    <3>1. req'[r] = [req[r] EXCEPT !.pol.age = Older(@)]
      BY <2>2 DEF Tick, Reading
    <3> QED
      BY <2>1, <3>1 DEF Req, Pol
  <2>3. CASE req[r].pc \notin Reading
    <3>1. req'[r] = req[r]
      BY <2>3 DEF Tick, Reading
    <3> QED
      BY <2>1, <2>3, <3>1
  <2> QED
    BY <2>2, <2>3
<1>5. req' \in [Requests -> Req]
  BY <1>4 DEF Tick
<1>6. \/ cached = None /\ cached' = None
      \/ /\ cached' \in Pol /\ cached'.enabled = cached.enabled /\ cached'.val = cached.val
         /\ cached'.age = Older(cached.age)
  <2>1. CASE cached = None
    BY <2>1 DEF Tick
  <2>2. CASE cached # None
    <3>1. cached \in Pol /\ cached' = [cached EXCEPT !.age = Older(@)]
      BY <2>2 DEF Tick, TypeInv
    <3>2. Older(cached.age) \in Ages
      BY <3>1, AgeFacts DEF Pol
    <3> QED
      BY <3>1, <3>2 DEF Pol
  <2> QED
    BY <2>1, <2>2
<1> QED
  BY <1>1, <1>4, <1>5, <1>6

LEMMA TypeStep ==
    ASSUME TypeInv, MgrInv, [Next]_vars
    PROVE  TypeInv'
<1>1. ASSUME NEW r \in Requests, Step(r) PROVE TypeInv'
  <2>1. UNCHANGED <<kind, conf, since>> /\ req' \in [Requests -> Req]
    BY <1>1, ReqStep
  <2>2. req[r].pol \in Pol /\ req[r].pol.val \in Int
    BY DEF TypeInv, Pol
  <2>3. (cached' # None => cached' \in Pol)
    BY <1>1, <2>2 DEF TypeInv, Step, Lookup, ReadEnable, ReadSetting, Store, Apply, Find, Create,
       Compare, Write, Pick, Finish
  <2>4. mgr' # None => mgr' \in [val : Int, gen : Int]
    <3>1. CASE Write(r)
      <4>1. mgr \in [val : Int, gen : Int]
        BY <3>1 DEF Write, TypeInv, MgrInv
      <4> QED
        BY <2>2, <3>1, <4>1 DEF Write
    <3>2. CASE Create(r)
      <4>1. mgr' = mgr \/ mgr' = [val |-> req[r].pol.val, gen |-> 0]
        BY <3>2 DEF Create
      <4> QED
        BY <2>2, <4>1 DEF TypeInv
    <3>3. CASE mgr' = mgr
      BY <3>3 DEF TypeInv
    <3> QED
      BY <1>1, <3>1, <3>2, <3>3 DEF Step, Lookup, ReadEnable, ReadSetting, Store, Apply, Find,
         Compare, Pick, Finish
  <2>5. clean' \subseteq Requests
    BY <1>1 DEF TypeInv, Step, Lookup, ReadEnable, ReadSetting, Store, Apply, Find, Create,
       Compare, Write, Pick, Finish
  <2>6. settled' \in BOOLEAN
    BY <1>1 DEF TypeInv, Step, Lookup, ReadEnable, ReadSetting, Store, Apply, Find, Create,
       Compare, Write, Pick, Finish, Arrived
  <2> QED
    BY <2>1, <2>3, <2>4, <2>5, <2>6 DEF TypeInv, Req
<1>2. CASE ChangeConf
  BY <1>2, AgeFacts DEF ChangeConf, TypeInv
<1>3. CASE Tick
  <2>1. since' \in Ages
    BY <1>3, TickStep, AgeFacts DEF TypeInv
  <2>2. cached' # None => cached' \in Pol
    BY <1>3, TickStep
  <2> QED
    BY <1>3, <2>1, <2>2, TickStep DEF TypeInv, Req
<1>4. CASE UNCHANGED vars
  BY <1>4 DEF TypeInv, vars
<1> QED
  BY <1>1, <1>2, <1>3, <1>4 DEF Next

-----------------------------------------------------------------------------
(* The invariant *)

LEMMA InitInd == Init => IndInv
<1> SUFFICES ASSUME Init PROVE IndInv
  OBVIOUS
<1>1. Idle \in Req
  BY BlankType DEF Idle, Req
<1>2. TypeInv
  <2>1. since \in Ages
    BY IntervalAssumption DEF Init, Ages
  <2>2. req \in [Requests -> Req]
    BY <1>1 DEF Init
  <2> QED
    BY <2>1, <2>2 DEF Init, TypeInv, Req
<1>3. \A r \in Requests : req[r].pc = "idle"
  BY DEF Init, Idle
<1>4. AgeInv
  BY <1>3 DEF AgeInv, Init, Reading
<1>5. CleanInv /\ MgrInv
  BY <1>3 DEF CleanInv, MgrInv, Init
<1> QED
  BY <1>2, <1>4, <1>5 DEF IndInv, Init

\* Reading and storing a policy that agrees so far keeps it so.
LEMMA ReadStep ==
    ASSUME TypeInv, AgeInv, NEW r \in Requests, ReadAgrees(req[r]),
           ReadEnable(r) \/ ReadSetting(r) \/ Store(r)
    PROVE  ReadAgrees(req'[r]) /\ req'[r].pc \in {"setting", "store", "apply"}
<1>0. req \in [Requests -> Req] /\ req[r] \in Req
  BY DEF TypeInv, Req
<1>1. CASE ReadEnable(r)
  <2>1. /\ req[r].pc = "enable"
        /\ req'[r].pol.enabled = EnabledBy(conf) /\ req'[r].pol.val = req[r].pol.val
        /\ req'[r].pc = IF EnabledBy(conf) THEN "setting" ELSE "store"
    BY <1>0, <1>1 DEF ReadEnable, Req, Pol
  <2>2. req[r].pol.val = 0
    BY <2>1 DEF AgeInv
  <2>3. CASE EnabledBy(conf)
    BY <2>1, <2>3, RawFacts DEF ReadAgrees
  <2>4. CASE ~EnabledBy(conf)
    BY <2>1, <2>2, <2>4, RawFacts DEF ReadAgrees, Agrees
  <2> QED
    BY <2>3, <2>4
<1>2. CASE ReadSetting(r)
  <2>1. /\ req[r].pc = "setting" /\ req'[r].pc = "store"
        /\ req'[r].pol.enabled = req[r].pol.enabled /\ req'[r].pol.val = Setting(conf)
    BY <1>0, <1>2 DEF ReadSetting, Req, Pol
  <2> QED
    BY <2>1, RawFacts DEF ReadAgrees, Agrees
<1>3. CASE Store(r)
  <2>1. req[r].pc = "store" /\ req'[r].pc = "apply" /\ req'[r].pol = req[r].pol
    BY <1>0, <1>3 DEF Store, Req
  <2> QED
    BY <2>1 DEF ReadAgrees
<1> QED
  BY <1>1, <1>2, <1>3

\* Ages tell whether a policy was begun before the last change.
LEMMA AgeStep ==
    ASSUME TypeInv, MgrInv, AgeInv, [Next]_vars
    PROVE  AgeInv'
<1>1. ASSUME NEW r \in Requests, Step(r) PROVE AgeInv'
  <2>0. /\ UNCHANGED <<kind, conf, since>> /\ req' \in [Requests -> Req]
        /\ \A o \in Requests : o # r => req'[o] = req[o]
    BY <1>1, ReqStep
  <2>1. Raw' = Raw
    BY <2>0, ConfSame
  <2>2. req \in [Requests -> Req] /\ req[r].pol \in Pol /\ req[r] \in Req
    BY DEF TypeInv, Req
  <2> SUFFICES /\ cached' # None => Agrees(cached)' \/ cached'.age >= since
               /\ req'[r].pc = "enable" => req'[r].pol.val = 0
               /\ req'[r].pc \in Reading => ReadAgrees(req'[r]) \/ req'[r].pol.age >= since
    BY <2>0, <2>1 DEF AgeInv, ReadAgrees, Agrees
  <2>3. CASE Lookup(r)
    <3>1. UNCHANGED cached
      BY <2>3 DEF Lookup
    <3>2. CASE cached # None /\ req' = [req EXCEPT ![r] = [Idle EXCEPT !.pc = "apply", !.pol = cached]]
      <4>1. req'[r].pc = "apply" /\ req'[r].pol = cached
        BY <2>2, <3>2 DEF Idle
      <4> QED
        BY <2>1, <3>1, <3>2, <4>1 DEF AgeInv, ReadAgrees, Agrees
    <3>3. CASE req' = [req EXCEPT ![r] = [Idle EXCEPT !.pc = "enable"]]
      <4>1. req'[r].pc = "enable" /\ req'[r].pol.val = 0
        BY <2>2, <3>3 DEF Idle, Blank
      <4> QED
        BY <2>1, <3>1, <4>1 DEF AgeInv, ReadAgrees, Agrees
    <3> QED
      BY <2>3, <3>2, <3>3 DEF Lookup
  <2>4. CASE ReadEnable(r)
    <3>1. /\ req[r].pc = "enable" /\ UNCHANGED cached
          /\ req'[r].pc \in {"setting", "store"}
      BY <2>2, <2>4 DEF ReadEnable, Req, Pol
    <3>3. ReadAgrees(req'[r])
      BY <2>4, <3>1, ReadStep DEF ReadAgrees
    <3> QED
      BY <2>1, <3>1, <3>3 DEF AgeInv, Agrees
  <2>5. CASE ReadSetting(r)
    <3>1. /\ req[r].pc = "setting" /\ req'[r].pc = "store" /\ UNCHANGED cached
          /\ req'[r].pol.age = req[r].pol.age
      BY <2>2, <2>5 DEF ReadSetting, Req, Pol
    <3>2. ReadAgrees(req[r]) \/ req[r].pol.age >= since
      BY <3>1 DEF AgeInv, Reading
    <3>3. ReadAgrees(req[r]) => ReadAgrees(req'[r])
      BY <2>5, ReadStep
    <3> QED
      BY <2>1, <3>1, <3>2, <3>3 DEF AgeInv, Agrees
  <2>6. CASE Store(r)
    <3>1. /\ req[r].pc = "store" /\ cached' = req[r].pol
          /\ req'[r].pc = "apply" /\ req'[r].pol = req[r].pol
      BY <2>2, <2>6 DEF Store, Req
    <3>2. Agrees(req[r].pol) \/ req[r].pol.age >= since
      BY <3>1 DEF AgeInv, Reading, ReadAgrees
    <3> QED
      BY <2>1, <3>1, <3>2 DEF ReadAgrees, Agrees
  <2>7. CASE UNCHANGED cached /\ req'[r].pc \notin Reading
    BY <2>1, <2>7 DEF AgeInv, Agrees, Reading
  <2>8. CASE Apply(r)
    <3>1. req'[r].pc \in {"run", "find"}
      BY <2>2, <2>8 DEF Apply, Idle
    <3> QED
      BY <2>7, <2>8, <3>1 DEF Apply, Reading
  <2>9. CASE Find(r) \/ Create(r) \/ Compare(r) \/ Write(r) \/ Pick(r) \/ Finish(r)
    <3>1. req'[r].pc \in {"run", "create", "compare", "pick", "write", "idle"}
      BY <2>2, <2>9 DEF Find, Create, Compare, Write, Pick, Finish, Idle, Req
    <3>2. UNCHANGED cached
      BY <2>9 DEF Find, Create, Compare, Write, Pick, Finish
    <3> QED
      BY <2>7, <3>1, <3>2 DEF Reading
  <2> QED
    BY <1>1, <2>3, <2>4, <2>5, <2>6, <2>8, <2>9 DEF Step
<1>2. CASE ChangeConf
  <2>1. since' = 0 /\ UNCHANGED <<cached, req>>
    BY <1>2 DEF ChangeConf
  <2>2. \A a \in Ages : a >= 0
    BY IntervalAssumption DEF Ages
  <2>3. cached # None => cached.age >= 0
    BY <2>2 DEF TypeInv, Pol
  <2>4. \A r \in Requests : req[r].pol.age >= 0
    BY <2>2 DEF TypeInv, Pol
  <2> QED
    BY <2>1, <2>3, <2>4 DEF AgeInv
<1>3. CASE Tick
  <2>1. Raw' = Raw /\ since' = Older(since)
    BY <1>3, TickStep, ConfSame
  <2>2. cached' # None => Agrees(cached)' \/ cached'.age >= since'
    <3> SUFFICES ASSUME cached' # None PROVE Agrees(cached)' \/ cached'.age >= since'
      OBVIOUS
    <3>1. cached # None
      BY <1>3 DEF Tick
    <3>2. /\ cached'.enabled = cached.enabled /\ cached'.val = cached.val
          /\ cached'.age = Older(cached.age) /\ cached.age \in Ages
      BY <1>3, <3>1, TickStep DEF TypeInv, Pol
    <3>3. cached.age >= since => cached'.age >= since'
      BY <2>1, <3>2, AgeFacts DEF TypeInv
    <3> QED
      BY <2>1, <3>1, <3>2, <3>3 DEF AgeInv, Agrees
  <2>3. ASSUME NEW r \in Requests
        PROVE  /\ req'[r].pc = "enable" => req'[r].pol.val = 0
               /\ req'[r].pc \in Reading => ReadAgrees(req[r])' \/ req'[r].pol.age >= since'
    <3>1. /\ req'[r].pc = req[r].pc
          /\ req'[r].pol.enabled = req[r].pol.enabled /\ req'[r].pol.val = req[r].pol.val
          /\ req[r].pc \in Reading => req'[r].pol.age = Older(req[r].pol.age)
      BY <1>3, TickStep
    <3>2. req[r].pol.age \in Ages /\ since \in Ages
      BY DEF TypeInv, Pol
    <3>3. req[r].pol.age >= since => Older(req[r].pol.age) >= since'
      BY <2>1, <3>2, AgeFacts
    <3> QED
      BY <2>1, <3>1, <3>3 DEF AgeInv, ReadAgrees, Agrees
  <2> QED
    BY <2>2, <2>3 DEF AgeInv
<1>4. CASE UNCHANGED vars
  <2>1. Raw' = Raw
    BY <1>4, ConfSame DEF vars
  <2> QED
    BY <1>4, <2>1 DEF AgeInv, ReadAgrees, Agrees, vars
<1> QED
  BY <1>1, <1>2, <1>3, <1>4 DEF Next

\* A step of a request other than Lookup and Finish keeps it under way.
LEMMA ActiveStep ==
    ASSUME TypeInv, MgrInv, NEW r \in Requests, Step(r)
    PROVE  /\ Lookup(r) => Active' = Active \cup {r}
           /\ Finish(r) => Active' = Active \ {r}
           /\ ~Lookup(r) /\ ~Finish(r) => Active' = Active /\ r \in Active
<1>0. req \in [Requests -> Req] /\ req[r] \in Req /\ \A o \in Requests : o # r => req'[o] = req[o]
  BY ReqStep DEF TypeInv, Req
<1>1. CASE Lookup(r)
  <2>1. req'[r].pc \in {"apply", "enable"} /\ req[r].pc = "idle"
    BY <1>0, <1>1 DEF Lookup, Idle
  <2>2. ~Finish(r)
    BY <2>1 DEF Finish
  <2> QED
    BY <1>0, <1>1, <2>1, <2>2 DEF Active
<1>2. CASE Finish(r)
  <2>1. req'[r].pc = "idle" /\ ~Lookup(r)
    BY <1>0, <1>2 DEF Finish, Idle, Lookup
  <2> QED
    BY <1>0, <1>2, <2>1 DEF Active
<1>3. CASE ~Lookup(r) /\ ~Finish(r)
  <2>1. req[r].pc # "idle"
    BY <1>3 DEF Step, ReadEnable, ReadSetting, Store, Apply, Find, Create, Compare, Write, Pick
  <2>2. CASE ReadEnable(r) \/ ReadSetting(r) \/ Store(r)
    <3>1. req'[r].pc \in {"setting", "store", "apply"}
      BY <1>0, <2>2 DEF ReadEnable, ReadSetting, Store, Req
    <3> QED
      BY <1>0, <1>3, <2>1, <3>1 DEF Active
  <2>3. CASE Apply(r)
    <3>1. req'[r].pc \in {"run", "find"}
      BY <1>0, <2>3 DEF Apply, Idle
    <3> QED
      BY <1>0, <1>3, <2>1, <3>1 DEF Active
  <2>4. CASE Find(r) \/ Create(r) \/ Compare(r) \/ Write(r) \/ Pick(r)
    <3>1. req'[r].pc \in {"run", "create", "compare", "pick", "write"}
      BY <1>0, <2>4 DEF Find, Create, Compare, Write, Pick, Req
    <3> QED
      BY <1>0, <1>3, <2>1, <3>1 DEF Active
  <2> QED
    BY <1>3, <2>2, <2>3, <2>4 DEF Step
<1> QED
  BY <1>1, <1>2, <1>3

\* Clean requests are alone until the configuration changes again.
LEMMA CleanStep ==
    ASSUME IndInv, [Next]_vars
    PROVE  CleanInv'
<1>0. TypeInv /\ MgrInv /\ CleanInv
  BY DEF IndInv
<1>1. ASSUME NEW r \in Requests, Step(r) PROVE CleanInv'
  <2>0. UNCHANGED since
    BY <1>0, <1>1, ReqStep
  <2>1. CASE Lookup(r)
    <3>1. Active' = Active \cup {r} /\ UNCHANGED settled
      BY <1>0, <1>1, <2>1, ActiveStep DEF Lookup
    <3>2. CASE since > Interval /\ Active \subseteq clean
      <4>1. clean' = clean \cup {r}
        BY <2>1, <3>2 DEF Lookup
      <4> QED
        BY <1>0, <2>0, <3>1, <3>2, <4>1 DEF CleanInv
    <3>3. CASE ~(since > Interval /\ Active \subseteq clean)
      <4>1. clean' = clean /\ clean = {} /\ ~settled
        BY <1>0, <2>1, <3>3 DEF Lookup, CleanInv
      <4> QED
        BY <3>1, <4>1 DEF CleanInv
    <3> QED
      BY <3>2, <3>3
  <2>2. CASE Finish(r)
    <3>1. Active' = Active \ {r} /\ clean' = clean \ {r} /\ UNCHANGED settled
      BY <1>0, <1>1, <2>2, ActiveStep DEF Finish
    <3> QED
      BY <1>0, <2>0, <3>1 DEF CleanInv
  <2>3. CASE ~Lookup(r) /\ ~Finish(r)
    <3>1. Active' = Active
      BY <1>0, <1>1, <2>3, ActiveStep
    <3>2. UNCHANGED clean
      BY <1>1, <2>3 DEF Step, ReadEnable, ReadSetting, Store, Apply, Find, Create, Compare, Write, Pick
    <3>3. settled' => settled \/ r \in clean
      BY <1>1, <2>3 DEF Step, ReadEnable, ReadSetting, Store, Apply, Find, Create, Compare, Write, Pick, Arrived
    <3> QED
      BY <1>0, <2>0, <3>1, <3>2, <3>3 DEF CleanInv
  <2> QED
    BY <2>1, <2>2, <2>3
<1>2. CASE ChangeConf
  BY <1>2 DEF ChangeConf, CleanInv
<1>3. CASE Tick
  <2>1. UNCHANGED <<clean, settled>> /\ since' = Older(since) /\ \A r \in Requests : req'[r].pc = req[r].pc
    BY <1>0, <1>3, TickStep
  <2>3. Active' = Active
    BY <2>1 DEF Active
  <2>2. since > Interval => since' > Interval
    BY <1>0, <2>1, AgeFacts DEF TypeInv
  <2> QED
    BY <1>0, <2>1, <2>2, <2>3 DEF CleanInv
<1>4. CASE UNCHANGED vars
  BY <1>0, <1>4 DEF CleanInv, Active, vars
<1> QED
  BY <1>1, <1>2, <1>3, <1>4 DEF Next

\* What a clean request does to itself.
LEMMA CleanSelf ==
    ASSUME IndInv, NEW r \in Requests, Step(r), r \in clean'
    PROVE  CleanReqInv(r)'
<1>0. TypeInv /\ MgrInv /\ CleanInv /\ AgeInv
  BY DEF IndInv
<1>1. req \in [Requests -> Req] /\ req[r] \in Req /\ req[r].pol \in Pol
  BY <1>0 DEF TypeInv, Req
<1>2. Raw' = Raw /\ Effective' = Effective
  BY <1>0, ReqStep, ConfSame
<1>a. ASSUME ReadAgrees(req'[r]), req'[r].pc \in Reading PROVE CleanReqInv(r)'
  BY <1>2, <1>a DEF CleanReqInv, ReadAgrees, Agrees, Reading, Managing
<1>b. ASSUME req'[r].pc = "run", req'[r].got = Effective PROVE CleanReqInv(r)'
  BY <1>2, <1>b DEF CleanReqInv, ReadAgrees, Agrees, Managing
<1>c. ASSUME req'[r].pc \in Managing, req'[r].pol.val = Effective, req'[r].pc = "pick" => mgr'.val = Effective
      PROVE  CleanReqInv(r)'
  BY <1>2, <1>c DEF CleanReqInv, ReadAgrees, Agrees, Managing
<1>3. CASE Lookup(r)
  <2>1. since > Interval
    <3>1. r \notin Active
      BY <1>3 DEF Lookup, Active
    <3> QED
      BY <1>0, <1>3, <3>1 DEF Lookup, CleanInv
  <2>2. CASE cached # None /\ ~Expired(cached)
    <3>1. req'[r].pc = "apply" /\ req'[r].pol = cached
      BY <1>1, <1>3, <2>2 DEF Lookup, Idle
    <3>2. cached.age \in Int /\ since \in Int /\ Interval \in Int
      BY <1>0, <2>2, IntervalAssumption DEF TypeInv, Pol, Ages
    <3>3. Agrees(cached)
      BY <1>0, <2>1, <2>2, <3>2 DEF AgeInv, Expired
    <3> QED
      BY <1>a, <3>1, <3>3 DEF ReadAgrees, Reading
  <2>3. CASE ~(cached # None /\ ~Expired(cached))
    <3>1. req'[r].pc = "enable"
      BY <1>1, <1>3, <2>3 DEF Lookup, Idle
    <3> QED
      BY <1>a, <3>1 DEF ReadAgrees, Reading
  <2> QED
    BY <2>2, <2>3
<1>4. CASE Finish(r)
  BY <1>4 DEF Finish
<1>5. CASE ~Lookup(r) /\ ~Finish(r)
  <2>0. CleanReqInv(r)
    <3>1. UNCHANGED clean
      BY <1>5 DEF Step, ReadEnable, ReadSetting, Store, Apply, Find, Create, Compare, Write, Pick
    <3> QED
      BY <3>1 DEF IndInv
  <2>1. CASE ReadEnable(r) \/ ReadSetting(r) \/ Store(r)
    BY <1>0, <1>a, <2>0, <2>1, ReadStep DEF CleanReqInv, Reading
  <2>2. CASE Apply(r)
    <3> DEFINE q == [Normalise(req[r].pol) EXCEPT !.age = 0]
    <3>1. Agrees(req[r].pol)
      BY <2>0, <2>2 DEF CleanReqInv, ReadAgrees, Apply
    <3>2. Effective = IF Applies(q) THEN q.val ELSE None
      BY <1>0, <1>1, <3>1, AppliesEffective
    <3>3. /\ ~Applies(q) => req'[r] = [Idle EXCEPT !.pc = "run"]
          /\ Applies(q) => \/ req'[r] = [Idle EXCEPT !.pc = "run", !.got = q.val]
                           \/ req'[r] = [Idle EXCEPT !.pc = "find", !.pol = q]
      BY <1>1, <2>2 DEF Apply
    <3> HIDE DEF q
    <3>4. CASE ~Applies(q)
      BY <1>b, <3>2, <3>3, <3>4 DEF Idle
    <3>5. CASE Applies(q) /\ req'[r] = [Idle EXCEPT !.pc = "run", !.got = q.val]
      BY <1>b, <3>2, <3>5 DEF Idle
    <3>6. CASE Applies(q) /\ req'[r] = [Idle EXCEPT !.pc = "find", !.pol = q]
      BY <1>c, <3>2, <3>6 DEF Idle, Managing
    <3> QED
      BY <3>3, <3>4, <3>5, <3>6
  <2>3. CASE Find(r)
    BY <1>1, <1>c, <2>0, <2>3 DEF Find, CleanReqInv, Managing, Req
  <2>4. CASE Create(r)
    <3>1. req[r].pol.val = Effective
      BY <2>0, <2>4 DEF Create, CleanReqInv, Managing
    <3>2. CASE req' = [req EXCEPT ![r].pc = "run", ![r].got = req[r].pol.val, ![r].pol = Blank]
      BY <1>1, <1>b, <3>1, <3>2 DEF Req
    <3>3. CASE req' = [req EXCEPT ![r].pc = "compare"]
      BY <1>1, <1>c, <3>1, <3>3 DEF Req, Managing
    <3> QED
      BY <2>4, <3>2, <3>3 DEF Create
  <2>5. CASE Compare(r)
    <3>1. /\ req[r].pol.val = Effective /\ req'[r].pol = req[r].pol /\ UNCHANGED mgr
          /\ req'[r].pc = IF SameSettings(r) THEN "pick" ELSE "write"
      BY <1>1, <2>0, <2>5 DEF Compare, CleanReqInv, Managing, Req
    <3> QED
      BY <1>c, <3>1 DEF SameSettings, Managing
  <2>6. CASE Write(r)
    <3>1. /\ req[r].pol.val = Effective /\ req'[r].pol = req[r].pol /\ req'[r].pc = "pick"
          /\ mgr'.val = req[r].pol.val
      BY <1>1, <2>0, <2>6 DEF Write, CleanReqInv, Managing, Req
    <3> QED
      BY <1>c, <3>1 DEF Managing
  <2>7. CASE Pick(r)
    BY <1>1, <1>b, <2>0, <2>7 DEF Pick, CleanReqInv, Req
  <2> QED
    BY <1>5, <2>1, <2>2, <2>3, <2>4, <2>5, <2>6, <2>7 DEF Step
<1> QED
  BY <1>3, <1>4, <1>5

LEMMA CleanReqStep ==
    ASSUME IndInv, [Next]_vars, NEW o \in clean'
    PROVE  CleanReqInv(o)'
<1>0. TypeInv /\ MgrInv /\ CleanInv /\ AgeInv
  BY DEF IndInv
<1>1. ASSUME NEW r \in Requests, Step(r) PROVE CleanReqInv(o)'
  <2>1. CASE o = r
    BY <1>1, <2>1, CleanSelf
  <2>2. CASE o # r
    <3>1. o \in clean /\ o \in Requests /\ CleanReqInv(o)
      <4>1. clean' = clean \/ clean' = clean \cup {r} \/ clean' = clean \ {r}
        BY <1>1 DEF Step, Lookup, ReadEnable, ReadSetting, Store, Apply, Find, Create, Compare, Write, Pick, Finish
      <4> QED
        BY <1>0, <2>2, <4>1 DEF IndInv, TypeInv
    <3>2. req'[o] = req[o] /\ Raw' = Raw /\ Effective' = Effective
      BY <1>0, <1>1, <2>2, <3>1, ReqStep, ConfSame
    <3>3. req[o].pc = "pick" => mgr # None /\ mgr.val = Effective
      BY <1>0, <3>1 DEF CleanReqInv, MgrInv
    <3>4. req[o].pc = "pick" => mgr'.val = Effective
      <4>1. CASE Write(r)
        <5>1. r \in clean
          BY <1>0, <3>1, <4>1 DEF CleanInv, Active, Write
        <5>2. req[r].pol.val = Effective
          BY <4>1, <5>1 DEF IndInv, CleanReqInv, Managing, Write
        <5> QED
          BY <4>1, <5>2 DEF Write
      <4>2. CASE UNCHANGED mgr
        BY <3>3, <4>2
      <4>3. CASE mgr = None
        BY <3>3, <4>3
      <4> QED
        BY <1>1, <4>1, <4>2, <4>3 DEF Step, Lookup, ReadEnable, ReadSetting, Store, Apply, Find, Create,
           Compare, Pick, Finish
    <3> QED
      BY <3>1, <3>2, <3>4 DEF CleanReqInv, ReadAgrees, Agrees
  <2> QED
    BY <2>1, <2>2
<1>2. CASE ChangeConf
  BY <1>2 DEF ChangeConf
<1>3. CASE Tick
  <2>1. Raw' = Raw /\ Effective' = Effective /\ UNCHANGED <<mgr, clean>>
    BY <1>0, <1>3, TickStep, ConfSame
  <2>2. o \in Requests /\ CleanReqInv(o)
    BY <1>0, <2>1 DEF IndInv, TypeInv
  <2>3. /\ req'[o].pc = req[o].pc /\ req'[o].got = req[o].got
        /\ req'[o].pol.enabled = req[o].pol.enabled /\ req'[o].pol.val = req[o].pol.val
    BY <1>0, <1>3, <2>2, TickStep
  <2> QED
    BY <2>1, <2>2, <2>3 DEF CleanReqInv, ReadAgrees, Agrees
<1>4. CASE UNCHANGED vars
  <2>1. Raw' = Raw /\ Effective' = Effective
    BY <1>4, ConfSame DEF vars
  <2> QED
    BY <1>4, <2>1 DEF IndInv, CleanReqInv, ReadAgrees, Agrees, vars
<1> QED
  BY <1>1, <1>2, <1>3, <1>4 DEF Next

\* Once the change has arrived, nobody finds other settings.
LEMMA MgrStep ==
    ASSUME IndInv, [Next]_vars
    PROVE  MgrInv'
<1>0. TypeInv /\ MgrInv /\ CleanInv
  BY DEF IndInv
<1>1. ASSUME NEW r \in Requests, Step(r) PROVE MgrInv'
  <2>0. /\ req \in [Requests -> Req] /\ req[r] \in Req
        /\ \A o \in Requests : o # r => req'[o] = req[o]
    BY <1>0, <1>1, ReqStep DEF TypeInv, Req
  <2>1. Effective' = Effective
    BY <1>0, <1>1, ReqStep, ConfSame
  <2>2. settled => (r \in clean \/ req[r].pc = "idle") /\ since > Interval
    BY <1>0 DEF CleanInv, Active
  <2>3. r \in clean => CleanReqInv(r)
    BY DEF IndInv
  <2>4. CASE Create(r) /\ mgr = None
    <3>1. /\ mgr' = [val |-> req[r].pol.val, gen |-> 0] /\ req'[r].pc = "run"
          /\ settled' => settled \/ Arrived(r)
      <4>1. /\ mgr' = [val |-> req[r].pol.val, gen |-> 0]
            /\ req' = [req EXCEPT ![r].pc = "run", ![r].got = req[r].pol.val, ![r].pol = Blank]
            /\ settled' => settled \/ Arrived(r)
        BY <2>4 DEF Create
      <4>2. req'[r].pc = "run"
        BY <2>0, <4>1 DEF Req
      <4> QED
        BY <4>1, <4>2
    <3>2. mgr' # None /\ mgr'.val = req[r].pol.val
      <4>1. req[r].pol.val \in Int
        BY <2>0 DEF Req, Pol
      <4> QED
        BY <3>1, <4>1, NoneAssumption
    <3>3. ~settled
      BY <1>0, <2>4 DEF MgrInv
    <3>4. settled' => mgr'.val = Effective /\ \A o \in Requests : req[o].pc # "write"
      BY <2>3, <2>4, <3>1, <3>2, <3>3 DEF Arrived, CleanReqInv, Create, Managing
    <3> QED
      BY <2>0, <2>1, <3>1, <3>2, <3>4 DEF MgrInv
  <2>5. CASE Create(r) /\ mgr # None
    <3>1. UNCHANGED <<mgr, settled>> /\ req'[r].pc = "compare"
      BY <2>0, <2>5 DEF Create, Req
    <3> QED
      BY <1>0, <2>0, <2>1, <2>5, <3>1 DEF MgrInv
  <2>6. CASE Compare(r)
    <3>1. /\ req[r].pc = "compare" /\ UNCHANGED <<mgr, settled>>
          /\ req'[r].pc = IF SameSettings(r) THEN "pick" ELSE "write"
      BY <2>0, <2>6 DEF Compare, Req
    <3>2. settled => SameSettings(r)
      BY <1>0, <2>2, <2>3, <3>1 DEF MgrInv, CleanReqInv, Managing, SameSettings
    <3> QED
      BY <1>0, <2>0, <2>1, <3>1, <3>2 DEF MgrInv
  <2>7. CASE Write(r)
    <3>1. /\ req[r].pc = "write" /\ UNCHANGED settled /\ req'[r].pc = "pick"
          /\ mgr' = [val |-> req[r].pol.val, gen |-> 1 - mgr.gen]
      BY <2>0, <2>7 DEF Write, Req
    <3>2. ~settled
      BY <1>0, <3>1 DEF MgrInv
    <3>3. mgr' # None
      <4>1. req[r].pol.val \in Int /\ 1 - mgr.gen \in Int
        BY <1>0, <2>0, <3>1 DEF Req, Pol, TypeInv, MgrInv
      <4> QED
        BY <3>1, <4>1, NoneAssumption
    <3> QED
      BY <1>0, <2>0, <3>1, <3>2, <3>3 DEF MgrInv
  <2>8. CASE Pick(r)
    <3>1. /\ req[r].pc = "pick" /\ UNCHANGED mgr /\ req'[r].pc = "run"
          /\ settled' => settled \/ Arrived(r)
      BY <2>0, <2>8 DEF Pick, Req
    <3>2. mgr # None
      BY <1>0, <3>1 DEF MgrInv
    <3>3. settled' => mgr.val = Effective /\ \A o \in Requests : req[o].pc # "write"
      BY <1>0, <2>3, <3>1 DEF MgrInv, Arrived, CleanReqInv
    <3> QED
      BY <1>0, <2>0, <2>1, <3>1, <3>2, <3>3 DEF MgrInv
  <2>9. CASE Find(r)
    <3>1. UNCHANGED <<mgr, settled>> /\ req'[r].pc = IF mgr = None THEN "create" ELSE "compare"
      BY <2>0, <2>9 DEF Find, Req
    <3> QED
      BY <1>0, <2>0, <2>1, <3>1 DEF MgrInv
  <2>10. CASE Lookup(r) \/ ReadEnable(r) \/ ReadSetting(r) \/ Store(r) \/ Apply(r) \/ Finish(r)
    <3>1. UNCHANGED <<mgr, settled>>
      BY <2>10 DEF Lookup, ReadEnable, ReadSetting, Store, Apply, Finish
    <3>2. req'[r].pc \in {"apply", "enable", "setting", "store", "run", "find", "idle"}
      <4>1. CASE Lookup(r)
        BY <2>0, <4>1 DEF Lookup, Idle
      <4>4. CASE Finish(r)
        BY <2>0, <4>4 DEF Finish, Idle
      <4>3. CASE Apply(r)
        BY <2>0, <4>3 DEF Apply, Idle
      <4>2. CASE ReadEnable(r) \/ ReadSetting(r) \/ Store(r)
        BY <2>0, <4>2 DEF ReadEnable, ReadSetting, Store, Req
      <4> QED
        BY <2>10, <4>1, <4>2, <4>3, <4>4
    <3> QED
      BY <1>0, <2>0, <2>1, <3>1, <3>2 DEF MgrInv
  <2> QED
    BY <1>1, <2>4, <2>5, <2>6, <2>7, <2>8, <2>9, <2>10 DEF Step
<1>2. CASE ChangeConf
  BY <1>0, <1>2 DEF ChangeConf, MgrInv
<1>3. CASE Tick
  <2>1. Effective' = Effective /\ UNCHANGED <<mgr, settled>> /\ \A r \in Requests : req'[r].pc = req[r].pc
    BY <1>0, <1>3, TickStep, ConfSame
  <2> QED
    BY <1>0, <2>1 DEF MgrInv
<1>4. CASE UNCHANGED vars
  <2>1. Effective' = Effective
    BY <1>4, ConfSame DEF vars
  <2> QED
    BY <1>0, <1>4, <2>1 DEF MgrInv, vars
<1> QED
  BY <1>1, <1>2, <1>3, <1>4 DEF Next

LEMMA Inductive == IndInv /\ [Next]_vars => IndInv'
BY TypeStep, AgeStep, CleanStep, CleanReqStep, MgrStep DEF IndInv

\* The inductive invariant holds in every reachable state.
THEOREM IndInvHolds == Spec => []IndInv
BY InitInd, Inductive, PTL DEF Spec

\* For any number of concurrent requests, any settings and any interval: a
\* request that begins more than configUpdateInterval after the last change,
\* with none from before under way, runs under what the configuration says.
THEOREM FreshAfterIntervalThm == Spec => []FreshAfterInterval
<1>1. IndInv => FreshAfterInterval
  BY DEF IndInv, CleanReqInv, FreshAfterInterval
<1> QED
  BY <1>1, IndInvHolds, PTL

\* Once a change of the configuration has arrived at the manager, no step
\* replaces the bucket, retry controller or circuit until the next change.
THEOREM MechanismKeptThm == Spec => MechanismKept
<1>1. IndInv /\ [Next]_vars => [settled /\ settled' /\ mgr # None => mgr' = mgr]_vars
  <2> SUFFICES ASSUME IndInv, [Next]_vars, settled, mgr # None PROVE mgr' = mgr
    OBVIOUS
  <2>1. \A r \in Requests : req[r].pc # "write"
    BY DEF IndInv, MgrInv
  <2> QED
    BY <2>1 DEF Next, Step, Lookup, ReadEnable, ReadSetting, Store, Apply, Find, Create, Compare,
       Write, Pick, Finish, ChangeConf, Tick, vars
<1> QED
  BY <1>1, IndInvHolds, PTL DEF Spec, MechanismKept
=============================================================================
