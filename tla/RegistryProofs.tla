---------------------------- MODULE RegistryProofs --------------------------
(***************************************************************************)
(* The two watchers of the registry, the discovery and the balancer.       *)
(* For any number of addresses and registrars: if every address is dealt   *)
(* with by one registrar, a running discovery picks exactly among the      *)
(* registered addresses whenever nobody is announcing, but for what was    *)
(* announced while it was starting.  The balancer never tells the          *)
(* connection a list that was superseded, and nothing once Close has       *)
(* closed its channel.                                                     *)
(***************************************************************************)
EXTENDS Discovery, Balancer, TLAPS

(* Every address is registered and unregistered by one goroutine.          *)
SingleOwners ==
    \A o \in Ownerships : \A r, s \in Registrars : r # s => o[r] \cap o[s] = {}

RegStates == {"idle", "update", "onUpdate", "delete", "onDelete"}

TypeInv ==
    /\ entries \in [Addrs -> Metas \cup {None}]
    /\ services \in [Instances -> Nat]
    /\ disc \in {"new", "listed", "run", "closed"}
    /\ reg \in [Registrars -> RegStates]
    /\ upd \in [Registrars -> SUBSET Instances]
    /\ del \in [Registrars -> SUBSET Instances]
    /\ inWindow \in [Registrars -> BOOLEAN]
    /\ owns \in [Registrars -> SUBSET Addrs]
    /\ \A r, s \in Registrars : r # s => owns[r] \cap owns[s] = {}

(* The discovery is called only once it watches; until then it holds no    *)
(* instance but those it listed.                                           *)
StartInv ==
    /\ watching <=> disc = "run"
    /\ disc = "new" => \A i \in Instances : services[i] = 0
    /\ disc \in {"new", "listed"} => \A r \in Registrars : reg[r] \notin {"onUpdate", "onDelete"}

(* What r has still to announce.                                           *)
Adding(r, a) == reg[r] \in {"update", "onUpdate"} /\ a \in AddrsOf(upd[r])
Deleting(r, a) == reg[r] # "idle" /\ a \in AddrsOf(del[r])

(* While an announcement is under way nobody else touches its addresses:   *)
(* the registry is still as the announcement says.                         *)
AnnounceInv ==
    \A r \in Registrars :
        /\ AddrsOf(upd[r]) \cup AddrsOf(del[r]) \subseteq owns[r]
        /\ \A a \in Addrs : Adding(r, a) => entries[a] # None
        /\ \A a \in Addrs : Deleting(r, a) => entries[a] = None

(* The announcements a discovery may differ from the registry by: all that *)
(* are under way once it runs, and before that those of changes made after *)
(* it listed the entries.                                                  *)
Awaited(a) ==
    \E r \in Registrars :
        /\ Adding(r, a) \/ Deleting(r, a)
        /\ disc = "run" \/ inWindow[r]

Picked(a) == \E m \in Metas : services[<<a, m>>] > 0
Agrees(a) == Picked(a) <=> entries[a] # None

AgreeInv ==
    disc \in {"listed", "run"} => \A a \in Addrs : a \in missed \/ Awaited(a) \/ Agrees(a)

IndInv == TypeInv /\ StartInv /\ AnnounceInv /\ AgreeInv

-----------------------------------------------------------------------------
LEMMA InitInv ==
    ASSUME SingleOwners, Init
    PROVE  IndInv
<1>1. TypeInv
  <2>1. /\ owns \in [Registrars -> SUBSET Addrs]
        /\ \A r, s \in Registrars : r # s => owns[r] \cap owns[s] = {}
    BY OwnershipsAssumption DEF Init, SingleOwners
  <2>2. entries \in [Addrs -> Metas \cup {None}] /\ services \in [Instances -> Nat]
    BY DEF Init, NoEntries
  <2>3. disc \in {"new", "listed", "run", "closed"}
    BY DEF Init
  <2>4. /\ reg \in [Registrars -> RegStates] /\ inWindow \in [Registrars -> BOOLEAN]
        /\ upd \in [Registrars -> SUBSET Instances] /\ del \in [Registrars -> SUBSET Instances]
    BY DEF Init, RegStates
  <2> QED
    BY <2>1, <2>2, <2>3, <2>4 DEF TypeInv
<1>2. StartInv
  BY DEF Init, StartInv
<1>3. AnnounceInv
  BY DEF Init, AnnounceInv, Adding, Deleting, AddrsOf
<1>4. \A a \in Addrs : Agrees(a)
  <2>1. \A a \in Addrs, m \in Metas : services[<<a, m>>] = 0
    BY DEF Init, Instances
  <2>2. \A a \in Addrs : entries[a] = None
    BY DEF Init, NoEntries
  <2>3. \A a \in Addrs : ~Picked(a)
    <3>1. ~(0 > 0)
      OBVIOUS
    <3> QED
      BY <2>1, <3>1, Zenon DEF Picked
  <2> QED
    BY <2>2, <2>3 DEF Agrees
<1> QED
  BY <1>1, <1>2, <1>3, <1>4 DEF IndInv, AgreeInv

(* The monitors and the down list leave all of this alone.                 *)
Quiet == UNCHANGED <<entries, watching, disc, services, reg, upd, del, inWindow, missed, owns>>

LEMMA QuietNext ==
    ASSUME IndInv, Quiet
    PROVE  IndInv'
<1>1. TypeInv' /\ StartInv'
  BY DEF Quiet, IndInv, TypeInv, StartInv
<1>2. AnnounceInv'
  BY DEF Quiet, IndInv, AnnounceInv, Adding, Deleting
<1>3. AgreeInv'
  BY DEF Quiet, IndInv, AgreeInv, Awaited, Adding, Deleting, Agrees, Picked
<1> QED
  BY <1>1, <1>2, <1>3 DEF IndInv

-----------------------------------------------------------------------------
(* A change of the entries: what it changes it announces, and it changes   *)
(* nothing but what its registrar owns.                                    *)
LEMMA ChangeNext ==
    ASSUME IndInv, NEW r \in Registrars,
           NEW new \in [Addrs -> Metas \cup {None}],
           NEW u \in SUBSET Instances, NEW d \in SUBSET Instances, NEW pc \in {"update", "delete", "idle"},
           Change(r, new, u, d, pc), UNCHANGED owns,
           AddrsOf(u) \cup AddrsOf(d) \subseteq owns[r],
           pc # "update" => u = {}, pc = "idle" => d = {},
           \A a \in AddrsOf(u) : new[a] # None,
           \A a \in AddrsOf(d) : new[a] = None,
           \A a \in Addrs \ owns[r] : new[a] = entries[a],
           \A a \in Addrs \ (AddrsOf(u) \cup AddrsOf(d)) : new[a] = None <=> entries[a] = None
    PROVE  IndInv'
<1>1. /\ reg[r] = "idle" /\ entries' = new /\ UNCHANGED <<watching, disc, services, missed>>
      /\ reg' = [reg EXCEPT ![r] = pc]
      /\ upd' = [upd EXCEPT ![r] = u]
      /\ del' = [del EXCEPT ![r] = d]
      /\ inWindow' = [inWindow EXCEPT ![r] = disc = "listed"]
  BY DEF Change, discVars
<1>2. TypeInv'
  BY <1>1 DEF IndInv, TypeInv, RegStates
<1>3. /\ reg'[r] = pc /\ upd'[r] = u /\ del'[r] = d /\ inWindow'[r] = (disc = "listed")
      /\ \A s \in Registrars \ {r} : /\ reg'[s] = reg[s] /\ upd'[s] = upd[s] /\ del'[s] = del[s]
                                     /\ inWindow'[s] = inWindow[s]
  BY <1>1 DEF IndInv, TypeInv
<1>4. StartInv'
  BY <1>1, <1>3 DEF IndInv, StartInv
<1>5. AnnounceInv'
  <2> SUFFICES ASSUME NEW s \in Registrars
               PROVE  /\ AddrsOf(upd'[s]) \cup AddrsOf(del'[s]) \subseteq owns[s]
                      /\ \A a \in Addrs : Adding(s, a)' => new[a] # None
                      /\ \A a \in Addrs : Deleting(s, a)' => new[a] = None
    BY <1>1 DEF AnnounceInv, AddrsOf
  <2>1. CASE s = r
    BY <1>3, <2>1 DEF Adding, Deleting
  <2>2. CASE s # r
    <3>1. \A a \in Addrs : (Adding(s, a)' <=> Adding(s, a)) /\ (Deleting(s, a)' <=> Deleting(s, a))
      BY <1>3, <2>2 DEF Adding, Deleting
    <3>2. \A a \in owns[s] : a \notin owns[r]
      BY <2>2 DEF IndInv, TypeInv
    <3>3. AddrsOf(upd'[s]) \cup AddrsOf(del'[s]) \subseteq owns[s]
      BY <1>3, <2>2 DEF IndInv, AnnounceInv
    <3> QED
      BY <3>1, <3>2, <3>3, <1>3, <2>2 DEF IndInv, AnnounceInv, Adding, Deleting
  <2> QED
    BY <2>1, <2>2
<1>6. AgreeInv'
  <2> SUFFICES ASSUME disc \in {"listed", "run"}, NEW a \in Addrs, a \notin missed, ~Awaited(a)'
               PROVE  Agrees(a)'
    BY <1>1 DEF AgreeInv
  <2>1. a \notin AddrsOf(u) \cup AddrsOf(d)
    <3>1. ~Adding(r, a)' /\ ~Deleting(r, a)'
      BY <1>1, <1>3 DEF Awaited
    <3> QED
      BY <1>3, <3>1 DEF Adding, Deleting, AddrsOf
  <2>2. ~Awaited(a)
    <3>1. ~Adding(r, a) /\ ~Deleting(r, a)
      BY <1>1 DEF Adding, Deleting
    <3>2. \A s \in Registrars \ {r} : (Adding(s, a)' <=> Adding(s, a)) /\ (Deleting(s, a)' <=> Deleting(s, a))
      BY <1>3 DEF Adding, Deleting
    <3> QED
      BY <1>1, <1>3, <3>1, <3>2 DEF Awaited
  <2>3. Agrees(a)
    BY <2>2 DEF IndInv, AgreeInv
  <2> QED
    BY <1>1, <2>1, <2>3 DEF Agrees, Picked
<1> QED
  BY <1>2, <1>4, <1>5, <1>6 DEF IndInv

(* The addresses of instances that are made up of a set of addresses.      *)
LEMMA AddrsOfPairs ==
    ASSUME NEW S, NEW f
    PROVE  AddrsOf({<<a, f[a]>> : a \in S}) = S
<1>1. \A a \in S : <<a, f[a]>>[1] = a
  OBVIOUS
<1>2. AddrsOf({<<a, f[a]>> : a \in S}) \subseteq S
  BY <1>1 DEF AddrsOf
<1>3. S \subseteq AddrsOf({<<a, f[a]>> : a \in S})
  BY <1>1 DEF AddrsOf
<1> QED
  BY <1>2, <1>3

LEMMA AddrsOfNone == AddrsOf({}) = {}
  BY DEF AddrsOf

(* The operations of the registry are such changes.                        *)
LEMMA RegistrarOpNext ==
    ASSUME IndInv, NEW r \in Registrars, RegistrarOp(r), UNCHANGED owns
    PROVE  IndInv'
<1>1. entries \in [Addrs -> Metas \cup {None}] /\ owns[r] \subseteq Addrs
  BY DEF IndInv, TypeInv
<1>2. ASSUME NEW a \in Addrs, NEW m \in Metas, RegisterService(r, a, m) PROVE IndInv'
  <2> DEFINE new == [entries EXCEPT ![a] = m]
             u == {<<a, m>>}
  <2>1. a \in owns[r] /\ Change(r, new, u, {}, "update")
    BY <1>2 DEF RegisterService
  <2>2. AddrsOf(u) = {a}
    BY DEF AddrsOf
  <2>3. /\ new \in [Addrs -> Metas \cup {None}] /\ new[a] # None
        /\ \A b \in Addrs : b # a => new[b] = entries[b]
    BY <1>1, MetasAssumption
  <2>4. u \in SUBSET Instances /\ {} \in SUBSET Instances
    BY DEF Instances
  <2> HIDE DEF new, u
  <2>5. /\ AddrsOf(u) \cup AddrsOf({}) \subseteq owns[r]
        /\ \A b \in Addrs \ owns[r] : new[b] = entries[b]
        /\ \A b \in Addrs \ (AddrsOf(u) \cup AddrsOf({})) : new[b] = None <=> entries[b] = None
        /\ \A b \in AddrsOf(u) : new[b] # None
        /\ \A b \in AddrsOf({}) : new[b] = None
    BY <2>1, <2>2, <2>3, AddrsOfNone
  <2> QED
    BY <2>1, <2>3, <2>4, <2>5, ChangeNext
<1>3. ASSUME NEW a \in Addrs, UnregisterService(r, a) PROVE IndInv'
  <2> DEFINE new == [entries EXCEPT ![a] = None]
             d == {i \in {<<a, entries[a]>>} : a \in Registered}
  <2>1. a \in owns[r] /\ Change(r, new, {}, d, "delete")
    BY <1>3 DEF UnregisterService
  <2>2. AddrsOf(d) = {a} \cap Registered
    <3>1. d = {<<b, entries[b]>> : b \in {a} \cap Registered}
      OBVIOUS
    <3> QED
      BY <3>1, AddrsOfPairs
  <2>3. d \in SUBSET Instances /\ {} \in SUBSET Instances
    BY <1>1 DEF Registered, Instances
  <2>4. /\ new \in [Addrs -> Metas \cup {None}] /\ new[a] = None
        /\ \A b \in Addrs : b # a => new[b] = entries[b]
    BY <1>1
  <2> HIDE DEF new, d
  <2>5. /\ AddrsOf({}) \cup AddrsOf(d) \subseteq owns[r]
        /\ \A b \in Addrs \ owns[r] : new[b] = entries[b]
        /\ \A b \in Addrs \ (AddrsOf({}) \cup AddrsOf(d)) : new[b] = None <=> entries[b] = None
        /\ \A b \in AddrsOf({}) : new[b] # None
        /\ \A b \in AddrsOf(d) : new[b] = None
    BY <2>1, <2>2, <2>4, AddrsOfNone DEF Registered
  <2> QED
    BY <2>1, <2>3, <2>4, <2>5, ChangeNext
<1>4. CASE UnregisterAll(r)
  <2> DEFINE d == {<<a, entries[a]>> : a \in Registered}
  <2>1. owns[r] = Addrs /\ Change(r, NoEntries, {}, d, "delete")
    BY <1>4 DEF UnregisterAll
  <2>2. AddrsOf(d) = Registered /\ AddrsOf({}) = {}
    BY AddrsOfPairs, AddrsOfNone
  <2>3. d \in SUBSET Instances
    BY <1>1 DEF Registered, Instances
  <2>4. /\ NoEntries \in [Addrs -> Metas \cup {None}] /\ \A a \in Addrs : NoEntries[a] = None
    BY DEF NoEntries
  <2> HIDE DEF d
  <2> QED
    BY <2>1, <2>2, <2>3, <2>4, ChangeNext DEF Registered
<1>5. ASSUME NEW insts \in [Addrs -> Metas \cup {None}], RegisterServiceWithEntries(r, insts)
      PROVE  IndInv'
  <2> DEFINE added == {b \in Addrs \ Registered : insts[b] # None}
             removed == {b \in Registered : insts[b] = None}
             u == {<<a, insts[a]>> : a \in added}
             d == {<<a, entries[a]>> : a \in removed}
             pc == IF u # {} THEN "update" ELSE IF d # {} THEN "delete" ELSE "idle"
  <2>1. owns[r] = Addrs /\ Change(r, insts, u, d, pc)
    BY <1>5 DEF RegisterServiceWithEntries
  <2>2. AddrsOf(u) = added /\ AddrsOf(d) = removed
    BY AddrsOfPairs
  <2>3. u \in SUBSET Instances /\ d \in SUBSET Instances
    BY <1>1 DEF Registered, Instances
  <2>4. /\ pc \in {"update", "delete", "idle"} /\ (pc # "update" => u = {}) /\ (pc = "idle" => d = {})
    OBVIOUS
  <2> HIDE DEF u, d, pc
  <2> QED
    BY <2>1, <2>2, <2>3, <2>4, ChangeNext DEF Registered
<1> QED
  BY <1>2, <1>3, <1>4, <1>5 DEF RegistrarOp

-----------------------------------------------------------------------------
(* Announcing: it reaches a discovery that runs; while the discovery is    *)
(* starting, it was listed or is remembered as missed.                     *)
LEMMA NotifyNext ==
    ASSUME IndInv, NEW r \in Registrars, NotifyUpdate(r) \/ NotifyDelete(r), UNCHANGED owns
    PROVE  IndInv'
<1> DEFINE after == IF watching
                     THEN (IF reg[r] = "update" THEN "onUpdate" ELSE "onDelete")
                     ELSE (IF reg[r] = "update" THEN AfterUpdate(r) ELSE "idle")
           told == IF reg[r] = "update" THEN AddrsOf(upd[r]) ELSE AddrsOf(del[r])
<1>1. /\ reg[r] \in {"update", "delete"} /\ reg' = [reg EXCEPT ![r] = after]
      /\ missed' = IF ~watching /\ inWindow[r] THEN missed \cup told ELSE missed
      /\ UNCHANGED <<entries, watching, disc, services, upd, del, inWindow>>
  BY DEF NotifyUpdate, NotifyDelete, registryVars, discVars
<1>2. TypeInv'
  BY <1>1 DEF IndInv, TypeInv, RegStates, AfterUpdate
<1>3. reg'[r] = after /\ \A s \in Registrars \ {r} : reg'[s] = reg[s]
  BY <1>1 DEF IndInv, TypeInv
<1>4. StartInv'
  BY <1>1, <1>3 DEF IndInv, StartInv, AfterUpdate
<1>5. ASSUME NEW s \in Registrars, NEW a
      PROVE  /\ Adding(s, a)' => Adding(s, a)
             /\ Deleting(s, a)' => Deleting(s, a)
             /\ watching \/ s # r => /\ Adding(s, a) => Adding(s, a)'
                                     /\ Deleting(s, a) => Deleting(s, a)'
             /\ Adding(r, a) \/ Deleting(r, a) =>
                   a \in told \/ Adding(r, a)' \/ Deleting(r, a)'
  <2>1. CASE s = r
    BY <1>1, <1>3, <2>1 DEF Adding, Deleting, AfterUpdate, AddrsOf
  <2>2. CASE s # r
    BY <1>1, <1>3, <2>2 DEF Adding, Deleting, AfterUpdate, AddrsOf
  <2> QED
    BY <2>1, <2>2
<1>6. AnnounceInv'
  BY <1>1, <1>5 DEF IndInv, AnnounceInv
<1>7. AgreeInv'
  <2> SUFFICES ASSUME disc \in {"listed", "run"}, NEW a \in Addrs, a \notin missed', ~Awaited(a)'
               PROVE  Agrees(a)
    BY <1>1 DEF AgreeInv, Agrees, Picked
  <2>1. a \notin missed
    BY <1>1
  <2>2. ~Awaited(a)
    <3> SUFFICES ASSUME NEW s \in Registrars, Adding(s, a) \/ Deleting(s, a), disc = "run" \/ inWindow[s]
                 PROVE  FALSE
      BY DEF Awaited
    <3>1. ~Adding(s, a)' /\ ~Deleting(s, a)'
      BY <1>1 DEF Awaited
    <3>2. s = r /\ ~watching /\ a \in told
      BY <1>5, <3>1
    <3>3. inWindow[r]
      BY <3>2 DEF IndInv, StartInv
    <3> QED
      BY <1>1, <3>2, <3>3
  <2> QED
    BY <2>1, <2>2 DEF IndInv, AgreeInv
<1> QED
  BY <1>2, <1>4, <1>6, <1>7 DEF IndInv

-----------------------------------------------------------------------------
(* The discovery is called.                                                *)
LEMMA OnUpdateNext ==
    ASSUME IndInv, NEW r \in Registrars, OnUpdate(r), UNCHANGED owns
    PROVE  IndInv'
<1>1. /\ reg[r] = "onUpdate" /\ reg' = [reg EXCEPT ![r] = AfterUpdate(r)]
      /\ services' = [i \in Instances |-> services[i] + (IF i \in upd[r] THEN 1 ELSE 0)]
      /\ missed' = missed \ AddrsOf(upd[r])
      /\ UNCHANGED <<entries, watching, disc, upd, del, inWindow>>
  BY DEF OnUpdate, UpdateGrpcEntries, registryVars
<1>2. TypeInv'
  <2>1. services' \in [Instances -> Nat]
    BY <1>1 DEF IndInv, TypeInv
  <2>2. reg' \in [Registrars -> RegStates]
    BY <1>1 DEF IndInv, TypeInv, RegStates, AfterUpdate
  <2> QED
    BY <1>1, <2>1, <2>2 DEF IndInv, TypeInv
<1>3. reg'[r] = AfterUpdate(r) /\ \A s \in Registrars \ {r} : reg'[s] = reg[s]
  BY <1>1 DEF IndInv, TypeInv
<1>4. StartInv'
  BY <1>1, <1>3 DEF IndInv, StartInv
<1>5. ASSUME NEW s \in Registrars, NEW a
      PROVE  /\ Adding(s, a)' => Adding(s, a)
             /\ Deleting(s, a)' <=> Deleting(s, a)
             /\ Adding(s, a) => Adding(s, a)' \/ (s = r /\ a \in AddrsOf(upd[r]))
  BY <1>1, <1>3 DEF Adding, Deleting, AfterUpdate, AddrsOf
<1>6. AnnounceInv'
  BY <1>1, <1>5 DEF IndInv, AnnounceInv
<1>7. ASSUME NEW a \in Addrs PROVE Picked(a)' <=> Picked(a) \/ a \in AddrsOf(upd[r])
  <2>1. ASSUME NEW m \in Metas PROVE services'[<<a, m>>] > 0 <=> services[<<a, m>>] > 0 \/ <<a, m>> \in upd[r]
    <3>1. <<a, m>> \in Instances /\ services[<<a, m>>] \in Nat
      BY DEF Instances, IndInv, TypeInv
    <3> QED
      BY <1>1, <3>1
  <2>2. a \in AddrsOf(upd[r]) <=> \E m \in Metas : <<a, m>> \in upd[r]
    <3>1. upd[r] \subseteq Addrs \X Metas
      BY DEF IndInv, TypeInv, Instances
    <3>2. ASSUME NEW m \in Metas, <<a, m>> \in upd[r] PROVE a \in AddrsOf(upd[r])
      <4>1. <<a, m>>[1] = a
        OBVIOUS
      <4> QED
        BY <3>2, <4>1 DEF AddrsOf
    <3>3. ASSUME a \in AddrsOf(upd[r]) PROVE \E m \in Metas : <<a, m>> \in upd[r]
      <4>1. PICK i \in upd[r] : a = i[1]
        BY <3>3 DEF AddrsOf
      <4>2. i[2] \in Metas /\ i = <<a, i[2]>>
        BY <3>1, <4>1
      <4> QED
        BY <4>1, <4>2
    <3> QED
      BY <3>2, <3>3
  <2> QED
    BY <2>1, <2>2 DEF Picked
<1>8. AgreeInv'
  <2> SUFFICES ASSUME disc \in {"listed", "run"}, NEW a \in Addrs, a \notin missed', ~Awaited(a)'
               PROVE  Picked(a)' <=> entries[a] # None
    BY <1>1 DEF AgreeInv, Agrees
  <2>1. CASE a \in AddrsOf(upd[r])
    BY <1>1, <1>7, <2>1 DEF IndInv, AnnounceInv, Adding
  <2>2. CASE a \notin AddrsOf(upd[r])
    BY <1>1, <1>5, <1>7, <2>2 DEF IndInv, AgreeInv, Agrees, Awaited
  <2> QED
    BY <2>1, <2>2
<1> QED
  BY <1>2, <1>4, <1>6, <1>8 DEF IndInv

LEMMA OnDeleteNext ==
    ASSUME IndInv, NEW r \in Registrars, OnDelete(r), UNCHANGED owns
    PROVE  IndInv'
<1>1. /\ reg[r] = "onDelete" /\ reg' = [reg EXCEPT ![r] = "idle"]
      /\ services' = [i \in Instances |-> IF i[1] \in AddrsOf(del[r]) THEN 0 ELSE services[i]]
      /\ missed' = missed \ AddrsOf(del[r])
      /\ UNCHANGED <<entries, watching, disc, upd, del, inWindow>>
  BY DEF OnDelete, DeleteGrpcEntries, registryVars
<1>2. TypeInv'
  <2>1. services' \in [Instances -> Nat]
    BY <1>1 DEF IndInv, TypeInv
  <2>2. reg' \in [Registrars -> RegStates]
    BY <1>1 DEF IndInv, TypeInv, RegStates
  <2> QED
    BY <1>1, <2>1, <2>2 DEF IndInv, TypeInv
<1>3. reg'[r] = "idle" /\ \A s \in Registrars \ {r} : reg'[s] = reg[s]
  BY <1>1 DEF IndInv, TypeInv
<1>4. StartInv'
  BY <1>1, <1>3 DEF IndInv, StartInv
<1>5. ASSUME NEW s \in Registrars, NEW a
      PROVE  /\ Adding(s, a)' <=> Adding(s, a)
             /\ Deleting(s, a)' => Deleting(s, a)
             /\ Deleting(s, a) => Deleting(s, a)' \/ (s = r /\ a \in AddrsOf(del[r]))
  BY <1>1, <1>3 DEF Adding, Deleting, AddrsOf
<1>6. AnnounceInv'
  BY <1>1, <1>5 DEF IndInv, AnnounceInv
<1>7. ASSUME NEW a \in Addrs PROVE Picked(a)' <=> Picked(a) /\ a \notin AddrsOf(del[r])
  <2>1. ASSUME NEW m \in Metas
        PROVE  services'[<<a, m>>] = IF a \in AddrsOf(del[r]) THEN 0 ELSE services[<<a, m>>]
    <3>1. <<a, m>> \in Instances /\ <<a, m>>[1] = a
      BY DEF Instances
    <3> QED
      BY <1>1, <3>1
  <2>2. ~(0 > 0)
    OBVIOUS
  <2> QED
    BY <2>1, <2>2, Zenon DEF Picked
<1>8. AgreeInv'
  <2> SUFFICES ASSUME disc \in {"listed", "run"}, NEW a \in Addrs, a \notin missed', ~Awaited(a)'
               PROVE  Picked(a)' <=> entries[a] # None
    BY <1>1 DEF AgreeInv, Agrees
  <2>1. CASE a \in AddrsOf(del[r])
    BY <1>1, <1>7, <2>1 DEF IndInv, AnnounceInv, Deleting
  <2>2. CASE a \notin AddrsOf(del[r])
    BY <1>1, <1>5, <1>7, <2>2 DEF IndInv, AgreeInv, Agrees, Awaited
  <2> QED
    BY <2>1, <2>2
<1> QED
  BY <1>2, <1>4, <1>6, <1>8 DEF IndInv

(* The discovery starts: it lists what is registered, ...                  *)
LEMMA InitializeNext ==
    ASSUME IndInv, Initialize, UNCHANGED owns
    PROVE  IndInv'
<1> DEFINE listed == {<<a, entries[a]>> : a \in Registered}
<1>1. /\ disc = "new" /\ disc' = "listed"
      /\ services' = [i \in Instances |-> services[i] + (IF i \in listed THEN 1 ELSE 0)]
      /\ UNCHANGED <<entries, watching, reg, upd, del, inWindow, missed>>
  BY DEF Initialize, UpdateGrpcEntries, registryVars, regVars
<1>2. services' \in [Instances -> Nat]
  BY <1>1 DEF IndInv, TypeInv
<1>3. TypeInv' /\ StartInv'
  BY <1>1, <1>2 DEF IndInv, TypeInv, StartInv
<1>4. AnnounceInv'
  BY <1>1 DEF IndInv, AnnounceInv, Adding, Deleting
<1>5. ASSUME NEW a \in Addrs PROVE Agrees(a)'
  <2>1. ASSUME NEW m \in Metas PROVE services'[<<a, m>>] > 0 <=> <<a, m>> \in listed
    <3>1. <<a, m>> \in Instances /\ services[<<a, m>>] = 0
      BY <1>1 DEF Instances, IndInv, StartInv
    <3> QED
      BY <1>1, <3>1
  <2>2. ASSUME NEW m \in Metas PROVE <<a, m>> \in listed <=> entries[a] = m /\ m # None
    BY DEF Registered
  <2>3. entries[a] \in Metas \cup {None}
    BY DEF IndInv, TypeInv
  <2> HIDE DEF listed
  <2>4. Picked(a)' <=> \E m \in Metas : entries[a] = m /\ m # None
    BY <2>1, <2>2 DEF Picked
  <2> QED
    BY <1>1, <2>3, <2>4, MetasAssumption DEF Agrees
<1> QED
  BY <1>3, <1>4, <1>5 DEF IndInv, AgreeInv

(* ... begins to watch, and closes.                                        *)
LEMMA WatchNext ==
    ASSUME IndInv, Watch \/ Close, UNCHANGED owns
    PROVE  IndInv'
<1>1. /\ \/ disc = "listed" /\ disc' = "run" /\ watching'
         \/ disc = "run" /\ disc' = "closed" /\ ~watching'
      /\ UNCHANGED <<entries, services, reg, upd, del, inWindow, missed>>
  BY DEF Watch, Close, regVars
<1>2. TypeInv' /\ StartInv'
  BY <1>1 DEF IndInv, TypeInv, StartInv
<1>3. AnnounceInv'
  BY <1>1 DEF IndInv, AnnounceInv, Adding, Deleting
<1>4. AgreeInv'
  <2> SUFFICES ASSUME disc' \in {"listed", "run"}, NEW a \in Addrs
               PROVE  a \in missed' \/ Awaited(a)' \/ Agrees(a)'
    BY DEF AgreeInv
  <2>1. disc = "listed" /\ disc' = "run"
    BY <1>1
  <2>2. a \in missed \/ Awaited(a) \/ Agrees(a)
    BY <2>1 DEF IndInv, AgreeInv
  <2>3. Awaited(a) => Awaited(a)'
    BY <1>1, <2>1 DEF Awaited, Adding, Deleting
  <2>4. Agrees(a) => Agrees(a)'
    BY <1>1 DEF Agrees, Picked
  <2> QED
    BY <1>1, <2>2, <2>3, <2>4
<1> QED
  BY <1>2, <1>3, <1>4 DEF IndInv

LEMMA IndInvNext ==
    ASSUME IndInv, [Next]_vars
    PROVE  IndInv'
<1>1. CASE UNCHANGED vars
  BY <1>1, QuietNext DEF vars, registryVars, discVars, regVars, Quiet
<1>2. ASSUME MonitorStep, UNCHANGED owns PROVE IndInv'
  BY <1>2, QuietNext
  DEF MonitorStep, MonitorSwap, MonitorList, MonitorClear, registryVars, regVars, Quiet
<1>3. ASSUME NEW a, NEW ok, NEW old, Down(a) \/ CheckDownAddr(a, ok) \/ DownListTick(old), UNCHANGED owns
      PROVE  IndInv'
  BY <1>3, QuietNext DEF Down, CheckDownAddr, DownListTick, registryVars, discVars, regVars, Quiet
<1>4. ASSUME NEW r \in Registrars, RegistrarOp(r) \/ RegistrarStep(r), UNCHANGED owns PROVE IndInv'
  BY <1>4, RegistrarOpNext, NotifyNext, OnUpdateNext, OnDeleteNext DEF RegistrarStep
<1> QED
  BY <1>1, <1>2, <1>3, <1>4, InitializeNext, WatchNext DEF Next

-----------------------------------------------------------------------------
(* The inductive invariant of registry, announcements and discovery, under *)
(* the discipline of one owner for each address.                           *)
THEOREM IndInvHolds == SingleOwners => (Spec => []IndInv)
<1> SUFFICES ASSUME SingleOwners PROVE Spec => []IndInv
  OBVIOUS
<1>1. Init => IndInv
  BY InitInv
<1>2. IndInv /\ [Next]_vars => IndInv'
  BY IndInvNext
<1> QED
  BY <1>1, <1>2, PTL DEF Spec

(* Whenever no registrar is between a change and its last announcement, a  *)
(* running discovery picks exactly among the registered addresses, but for *)
(* changes announced to nobody while it was starting: the announcements,   *)
(* which the registry makes outside its mutex and in pieces, lose nothing  *)
(* else, whichever overtakes which.                                        *)
THEOREM AgreesOutsideStartupThm == SingleOwners => (Spec => []AgreesOutsideStartup)
<1> SUFFICES ASSUME SingleOwners PROVE Spec => []AgreesOutsideStartup
  OBVIOUS
<1>1. IndInv => AgreesOutsideStartup
  <2> SUFFICES ASSUME IndInv, Quiescent, disc = "run", NEW a \in Addrs, a \notin missed
               PROVE  Picked(a) <=> entries[a] # None
    BY DEF AgreesOutsideStartup, Pickable, Registered, Picked
  <2>1. ~Awaited(a)
    BY DEF Awaited, Adding, Deleting, Quiescent
  <2> QED
    BY <2>1 DEF IndInv, AgreeInv, Agrees
<1>2. Spec => []IndInv
  BY IndInvHolds
<1> QED
  BY <1>1, <1>2, PTL

-----------------------------------------------------------------------------
(* The other watcher of the registry: what the balancer tells the          *)
(* connection over addrCh, for any number of addresses, announcers and     *)
(* callers.                                                                *)

(* done is set before addrCh is closed, and never reset: the watching      *)
(* goroutine, which looks at done under the mutex, cannot find addrCh      *)
(* closed.  This is what NoNotifyAfterClose needs and does not say itself. *)
CloseInv ==
    /\ closer \in {"idle", "closing", "closed"}
    /\ addrChClosed \in BOOLEAN
    /\ done \in BOOLEAN
    /\ closer # "idle" => done
    /\ addrChClosed => closer = "closed"

BalInv == CloseInv /\ NotifyIsCurrent

(* The steps that leave Close, the list and its channel alone.             *)
BalQuiet == UNCHANGED <<addrs, addrCh, addrChClosed, done, closer>>

(* Every step is quiet but for four: the watcher applying updates, the     *)
(* connection reading Notify(), and the two halves of Close.               *)
LEMMA BalSteps ==
    ASSUME [NextStep]_balancerVars
    PROVE  BalQuiet \/ WatchAddrUpdates \/ ReadNotify \/ CloseBegin \/ CloseWatcher
<1>1. CASE UNCHANGED balancerVars
  BY <1>1 DEF balancerVars, balVars, envVars, BalQuiet
<1>2. ASSUME NEW list \in SUBSET Endpoints, FirstNext(list) PROVE BalQuiet
  BY <1>2 DEF FirstNext, balVars, envVars, BalQuiet
<1>3. CASE NextUpdate \/ NextCtxDone
  BY <1>3 DEF NextUpdate, NextCtxDone, balVars, envVars, BalQuiet
<1>4. ASSUME NEW n \in Announcers, AnnounceSend(n) PROVE BalQuiet
  BY <1>4 DEF AnnounceSend, balVars, BalQuiet
<1>5. ASSUME NEW n \in Announcers, NEW u \in Updates, Announce(n, u) PROVE BalQuiet
  BY <1>5 DEF Announce, balVars, BalQuiet
<1>6. ASSUME NEW a \in Endpoints, Up(a) \/ down(a) PROVE BalQuiet
  BY <1>6 DEF Up, down, BalQuiet
<1>7. ASSUME NEW g \in Getters, NEW wait, Get(g, wait) PROVE BalQuiet
  BY <1>7 DEF Get, BalQuiet
<1>8. ASSUME NEW g \in Getters, GetCtxDone(g) PROVE BalQuiet
  BY <1>8 DEF GetCtxDone, balVars, BalQuiet
<1> QED
  BY <1>1, <1>2, <1>3, <1>4, <1>5, <1>6, <1>7, <1>8 DEF NextStep, WatchLoopStep, GetCall

LEMMA BalInvInit == StartInternal => BalInv
  BY DEF StartInternal, BalInv, CloseInv, NotifyIsCurrent

LEMMA BalInvNext ==
    ASSUME BalInv, [NextStep]_balancerVars
    PROVE  BalInv'
<1>1. CASE BalQuiet
  BY <1>1 DEF BalQuiet, BalInv, CloseInv, NotifyIsCurrent
<1>2. CASE WatchAddrUpdates
  <2> DEFINE new == ApplyAll(addrs, pending)
  <2>1. addrs' = new /\ (done \/ addrCh' = <<new>>) /\ UNCHANGED <<addrChClosed, done, closer>>
    BY <1>2 DEF WatchAddrUpdates, envVars
  <2> QED
    BY <2>1 DEF BalInv, CloseInv, NotifyIsCurrent
<1>3. CASE ReadNotify
  BY <1>3 DEF ReadNotify, envVars, BalInv, CloseInv, NotifyIsCurrent
<1>4. CASE CloseBegin
  BY <1>4 DEF CloseBegin, BalInv, CloseInv, NotifyIsCurrent
<1>5. CASE CloseWatcher
  BY <1>5 DEF CloseWatcher, BalInv, CloseInv, NotifyIsCurrent
<1> QED
  BY <1>1, <1>2, <1>3, <1>4, <1>5, BalSteps

(* The inductive invariant of Close and addrCh.                            *)
THEOREM BalInvHolds == BalancerSpec => []BalInv
<1>1. BalInv /\ [NextStep]_balancerVars => BalInv'
  BY BalInvNext
<1> QED
  BY <1>1, BalInvInit, PTL DEF BalancerSpec

(* A connection that is slow to read Notify() never gets a list of         *)
(* addresses that watchAddrUpdates has superseded.                         *)
THEOREM NotifyIsCurrentThm == BalancerSpec => []NotifyIsCurrent
<1>1. BalInv => NotifyIsCurrent
  BY DEF BalInv
<1> QED
  BY <1>1, BalInvHolds, PTL

(* watchAddrUpdates never sends on addrCh after Close closed it.           *)
THEOREM NoNotifyAfterCloseThm == BalancerSpec => NoNotifyAfterClose
<1>1. BalInv /\ [NextStep]_balancerVars => [addrChClosed => addrCh' \in {addrCh, <<>>}]_balancerVars
  <2> SUFFICES ASSUME BalInv, [NextStep]_balancerVars, addrChClosed
               PROVE  addrCh' = addrCh \/ addrCh' = <<>>
    OBVIOUS
  <2>1. done /\ closer = "closed"
    BY DEF BalInv, CloseInv
  <2>2. CASE WatchAddrUpdates
    BY <2>1, <2>2 DEF WatchAddrUpdates
  <2> QED
    BY <2>1, <2>2, BalSteps DEF BalQuiet, ReadNotify, CloseBegin, CloseWatcher
<1> QED
  BY <1>1, BalInvHolds, PTL DEF BalancerSpec, NoNotifyAfterClose
=============================================================================
