------------------------------- MODULE Config -------------------------------
(***************************************************************************)
(* The layered configuration (config/internal): sources ordered by level,  *)
(* each behind a SourceWrapper with a cache of its own, the ConfigImpl that *)
(* merges them into one cache, and a view with a prefix and namespaces     *)
(* whose watcher is told of changes.                                       *)
(*                                                                         *)
(* The model follows one name.  Its keys are the spellings under which the *)
(* view looks it up: Raw, the bare name, and one key per namespace of the  *)
(* view.  A source is a map from keys to values, changed by updaters as    *)
(* MemoryConfigSource's Put, Del and Replace and FileConfigSource's reload *)
(* change it; the calls down to the watcher run on the updater's goroutine *)
(* and lock nothing across two accesses of a cache.                        *)
(***************************************************************************)
EXTENDS Integers, Sequences, FiniteSets, FiniteSetsExt, SequencesExt

CONSTANTS
    NumLevels,      \* number of sources; the last one has the highest level
    NsList,         \* the view's namespaces, in the order they were given
    Raw,            \* the key without namespace and prefix
    Vals,           \* values
    None,           \* no value
    IgnoreNs,       \* levels whose source implements SourceIgnoreNamespace
    Written,        \* Written[l][k]: the values the source of level l may hold for k
    Updaters,       \* goroutines that change a source
    LevelOf,        \* the level of each updater's source
    Owns,           \* the keys each updater changes
    Exclusive       \* updaters that run while no other does

Levels == 0..NumLevels - 1
NsKeys == ToSet(NsList)
Keys == {Raw} \cup NsKeys
Empty == ""

ASSUME LevelsAssumption == NumLevels \in Nat \ {0} /\ IgnoreNs \subseteq Levels
ASSUME KeysAssumption == Raw \notin NsKeys /\ Written \in [Levels -> [Keys -> SUBSET Vals]]
\* NewFilter adds the namespace "" to a list without it.
ASSUME NsAssumption == NsList \in Seq(NsKeys) /\ NsList # <<>>
ASSUME NoneAssumption == None \notin Vals /\ None \notin Levels \X Vals
ASSUME UpdatersAssumption ==
    /\ LevelOf \in [Updaters -> Levels]
    /\ Owns \in [Updaters -> SUBSET Keys]
    /\ Exclusive \subseteq Updaters

VARIABLES
    src,            \* what each source holds
    wrap,           \* SourceWrapper.cache of each level
    cache,          \* ConfigImpl.cache: None or <<level, value>>
    up,             \* each updater: where it is and its local variables
    start,          \* NewConfig's call of sync; raced: the keys changed meanwhile
    told,           \* what the watcher of the view was last told
    late            \* that was no longer what the view read when it was told

vars == <<src, wrap, cache, up, start, told, late>>

NoVals == [k \in Keys |-> None]
Idle == [pc |-> "idle", op |-> "none", val |-> NoVals, todo |-> {}, key |-> Raw,
         node |-> None, upd |-> NoVals, del |-> {}, say |-> {}]
Present(val) == {k \in Keys : val[k] # None}
Overlay(old, new) == [k \in Keys |-> IF new[k] # None THEN new[k] ELSE old[k]]
Held(l) == {k \in Keys : Written[l][k] # {}}
Contents(l) == {val \in [Keys -> Vals \cup {None}] : \A k \in Keys : val[k] \in Written[l][k] \cup {None}}

(* How a program uses its sources, where the properties depend on it.      *)

\* Updaters that may run side by side change different keys.
DisjointKeys ==
    \A u, w \in Updaters : u # w /\ {u, w} \cap Exclusive = {} => Owns[u] \cap Owns[w] = {}

\* Whoever replaces the lowest source does it while no other is at work: a
\* key that vanished since Sweep counts as one of the lowest level.
LowestAlone ==
    \A u \in Updaters : LevelOf[u] = 0 /\ Held(0) \subseteq Owns[u] => u \in Exclusive

\* The lowest source has bare names only: a bare name that is not found
\* counts as level 1.
LowestIsBare == Held(0) \cap NsKeys = {}

Discipline == DisjointKeys /\ LowestAlone /\ LowestIsBare

\* The last namespace is used in the last source only: a value that moves to
\* a higher source unchanged is not announced.
TailOnTop == \A l \in Levels : Last(NsList) \in Held(l) => l = NumLevels - 1

Init ==
    /\ src \in [Levels -> [Keys -> Vals \cup {None}]]
    /\ \A l \in Levels : src[l] \in Contents(l)
    /\ wrap = [l \in Levels |-> NoVals]
    /\ cache = NoVals
    /\ up = [u \in Updaters |-> Idle]
    /\ start = [pc |-> "read", level |-> 0, val |-> NoVals, todo |-> {}, raced |-> {}]
    /\ told = Empty /\ late = FALSE

-----------------------------------------------------------------------------
(* The view *)

NodeLevel(node) == IF node = None THEN -1 ELSE node[1]

\* ConfigImpl.Get with raw: a miss is reported with level 1.
GetRaw ==
    IF cache[Raw] # None /\ cache[Raw][1] \in IgnoreNs
      THEN cache[Raw] ELSE <<1, Empty>>

\* Filter.Get: the key with the highest level, of the last namespace among
\* equals; the raw value only if its level is higher still.
GetNs(nodes) ==
    LET levels == {NodeLevel(nodes[k]) : k \in NsKeys}
        best == {i \in DOMAIN NsList : NodeLevel(nodes[NsList[i]]) = Max(levels)}
    IN IF Max(levels) = -1 THEN <<-1, Empty>> ELSE nodes[NsList[Max(best)]]

Get == IF GetRaw[1] > GetNs(cache)[1] THEN GetRaw[2] ELSE GetNs(cache)[2]

\* What FilterUpdate and FilterDelete leave to tell the watcher of the view: one
\* value or nothing.  The bare key does not have the view's prefix.
FilterUpdate(upd) == {v \in {Get} : \E k \in NsKeys : upd[k] = v}

FilterDelete(del) == {v \in {Get} : del \cap NsKeys # {}}

-----------------------------------------------------------------------------
(* Sources *)

MayBegin(u) ==
    /\ up[u].pc = "idle"
    /\ \A w \in Updaters : {u, w} \cap Exclusive # {} => up[w].pc = "idle"

\* The sources are watched before NewConfig calls sync, so changes may begin
\* while sync runs.
NoteRace(keys) ==
    start' = IF start.pc = "done" THEN start ELSE [start EXCEPT !.raced = @ \cup keys]

Put(u, k, v) ==
    /\ MayBegin(u) /\ k \in Owns[u] /\ v \in Written[LevelOf[u]][k]
    /\ src' = [src EXCEPT ![LevelOf[u]][k] = v]
    /\ up' = [up EXCEPT ![u] = [Idle EXCEPT !.pc = "wrap", !.op = "update", !.val[k] = v, !.todo = {k}]]
    /\ NoteRace({k})
    /\ UNCHANGED <<wrap, cache, told, late>>

Del(u, k) ==
    /\ MayBegin(u) /\ k \in Owns[u] \cap Held(LevelOf[u])
    /\ src' = [src EXCEPT ![LevelOf[u]][k] = None]
    /\ up' = [up EXCEPT ![u] = [Idle EXCEPT !.pc = "wrap", !.op = "delete", !.todo = {k}]]
    /\ NoteRace({k})
    /\ UNCHANGED <<wrap, cache, told, late>>

\* Replace, or a write of the configuration file: the source changes, and its
\* contents are read in a later step.
Replace(u, val) ==
    /\ MayBegin(u) /\ Held(LevelOf[u]) \subseteq Owns[u]
    /\ src' = [src EXCEPT ![LevelOf[u]] = val]
    /\ up' = [up EXCEPT ![u] = [Idle EXCEPT !.pc = "load"]]
    /\ NoteRace(Held(LevelOf[u]))
    /\ UNCHANGED <<wrap, cache, told, late>>

\* The contents are read; the notifier drops an OnSync with nothing in it.
Load(u) ==
    LET val == src[LevelOf[u]] IN
    /\ up[u].pc = "load"
    /\ up' = [up EXCEPT ![u] = IF Present(val) = {} THEN Idle
                               ELSE [Idle EXCEPT !.pc = "wrap", !.op = "sync", !.val = val,
                                                 !.todo = Present(val)]]
    /\ UNCHANGED <<src, wrap, cache, start, told, late>>

\* SourceWrapper.OnUpdate, OnDelete and OnSync.  OnSync stores what it is given
\* and forgets nothing.
Wrap(u) ==
    LET l == LevelOf[u] IN
    /\ up[u].pc = "wrap"
    /\ wrap' = [wrap EXCEPT ![l] = IF up[u].op = "delete"
                                     THEN [k \in Keys |-> IF k \in up[u].todo THEN None ELSE @[k]]
                                     ELSE Overlay(@, up[u].val)]
    /\ up' = [up EXCEPT ![u].pc = "next"]
    /\ UNCHANGED <<src, cache, start, told, late>>

-----------------------------------------------------------------------------
(* ConfigImpl.onUpdate, onDelete and onSync, one key at a time *)

\* Faulty variant: a source of a lower level replaces the value.
UpdateAppliesAlways(node, l) == TRUE

\* An update applies to a key that is new or comes from no higher level.
UpdateApplies(node, l) == node = None \/ node[1] <= l

\* Faulty variant: the watchers hear of new keys only.
ChangedNewOnly(node, v) == node = None

Changed(node, v) == node = None \/ node[2] # v

ReadForUpdate(u, k) ==
    /\ up[u].pc = "next" /\ up[u].op \in {"update", "sync"}
    /\ k \in up[u].todo
    /\ up' = IF UpdateApplies(cache[k], LevelOf[u])
               THEN [up EXCEPT ![u].todo = @ \ {k}, ![u].pc = "put", ![u].key = k, ![u].node = cache[k]]
               ELSE [up EXCEPT ![u].todo = @ \ {k}]
    /\ UNCHANGED <<src, wrap, cache, start, told, late>>

PutKey(u) ==
    LET k == up[u].key
        v == up[u].val[k]
    IN /\ up[u].pc = "put"
       /\ cache' = [cache EXCEPT ![k] = <<LevelOf[u], v>>]
       /\ up' = [up EXCEPT ![u].pc = "next", ![u].key = Raw, ![u].node = None,
                           ![u].upd[k] = IF Changed(up[u].node, v) THEN v ELSE @]
       /\ UNCHANGED <<src, wrap, start, told, late>>

\* onSync goes on with the keys of the cache that it was not given.
Sweep(u) ==
    /\ up[u].pc = "next" /\ up[u].op = "sync" /\ up[u].todo = {}
    /\ up' = [up EXCEPT ![u].op = "sweep", ![u].todo = Present(cache) \ Present(up[u].val)]
    /\ UNCHANGED <<src, wrap, cache, start, told, late>>

\* Only a key of this level is deleted.  A key that vanished since Sweep reads
\* as the zero ValueNode, of level 0.
ReadForDelete(u, k) ==
    LET mine == \/ cache[k] # None /\ cache[k][1] = LevelOf[u]
                \/ cache[k] = None /\ up[u].op = "sweep" /\ LevelOf[u] = 0
    IN /\ up[u].pc = "next" /\ up[u].op \in {"delete", "sweep"}
       /\ k \in up[u].todo
       /\ up' = IF mine
                  THEN [up EXCEPT ![u].todo = @ \ {k}, ![u].pc = "fallback", ![u].key = k, ![u].node = cache[k]]
                  ELSE [up EXCEPT ![u].todo = @ \ {k}]
       /\ UNCHANGED <<src, wrap, cache, start, told, late>>

\* Look for the key in the sources of lower levels, the highest first, and
\* store what was found.
Lower(k, l) == {i \in 0..l - 1 : wrap[i][k] # None}

Fallback(u) ==
    LET k == up[u].key
        found == Lower(k, LevelOf[u])
        v == wrap[Max(found)][k]
    IN /\ up[u].pc = "fallback"
       /\ \/ /\ found # {}
             /\ cache' = [cache EXCEPT ![k] = <<Max(found), v>>]
             /\ up' = [up EXCEPT ![u].pc = "next", ![u].key = Raw, ![u].node = None,
                                 ![u].upd[k] = IF Changed(up[u].node, v) THEN v ELSE @]
          \/ /\ found = {}
             /\ cache' = [cache EXCEPT ![k] = None]
             /\ up' = [up EXCEPT ![u].pc = "next", ![u].key = Raw, ![u].node = None,
                                 ![u].del = @ \cup {k}]
       /\ UNCHANGED <<src, wrap, start, told, late>>

\* The notifications, updates first.  View.OnUpdate and OnDelete filter what they
\* are given and then, in a step of its own and without a lock, call the watcher.
\* View watches from the end of NewConfig.
NotifyUpdate(u) ==
    /\ up[u].pc = "next" /\ up[u].op # "sync" /\ up[u].todo = {}
    /\ up' = [up EXCEPT ![u] = [Idle EXCEPT !.pc = "tellUpdate", !.del = up[u].del,
                   !.say = IF start.pc = "done" THEN FilterUpdate(up[u].upd) ELSE {}]]
    /\ UNCHANGED <<src, wrap, cache, start, told, late>>

NotifyDelete(u) ==
    /\ up[u].pc = "notify"
    /\ up' = [up EXCEPT ![u] = [Idle EXCEPT !.pc = "tellDelete",
                   !.say = IF start.pc = "done" THEN FilterDelete(up[u].del) ELSE {}]]
    /\ UNCHANGED <<src, wrap, cache, start, told, late>>

Tell(say) ==
    /\ \/ say = {} /\ UNCHANGED <<told, late>>
       \/ told' \in say /\ late' = (told' # Get)
    /\ UNCHANGED <<src, wrap, cache, start>>

TellUpdate(u) ==
    /\ up[u].pc = "tellUpdate"
    /\ Tell(up[u].say)
    /\ up' = [up EXCEPT ![u] = [Idle EXCEPT !.pc = "notify", !.del = up[u].del]]

TellDelete(u) ==
    /\ up[u].pc = "tellDelete"
    /\ Tell(up[u].say)
    /\ up' = [up EXCEPT ![u] = Idle]

-----------------------------------------------------------------------------
(* NewConfig: every source is watched already, then sync reads them in turn *)

SyncRead ==
    LET val == src[start.level] IN
    /\ start.pc = "read"
    /\ wrap' = [wrap EXCEPT ![start.level] = Overlay(@, val)]
    /\ start' = [start EXCEPT !.pc = "put", !.val = val, !.todo = Present(val)]
    /\ UNCHANGED <<src, cache, up, told, late>>

SyncPut(k) ==
    /\ start.pc = "put" /\ k \in start.todo
    /\ cache' = [cache EXCEPT ![k] = <<start.level, start.val[k]>>]
    /\ start' = [start EXCEPT !.todo = @ \ {k}]
    /\ UNCHANGED <<src, wrap, up, told, late>>

\* After the last source the caller has its view, watches it and reads it.
SyncNext ==
    LET last == start.level = NumLevels - 1 IN
    /\ start.pc = "put" /\ start.todo = {}
    /\ start' = IF last THEN [start EXCEPT !.pc = "done", !.val = NoVals]
                ELSE [start EXCEPT !.pc = "read", !.val = NoVals, !.level = @ + 1]
    /\ told' = IF last THEN Get ELSE told
    /\ UNCHANGED <<src, wrap, cache, up, late>>

-----------------------------------------------------------------------------
Change(u) ==
    \/ \E k \in Keys : Del(u, k) \/ \E v \in Vals : Put(u, k, v)
    \/ \E val \in Contents(LevelOf[u]) : Replace(u, val)

Step(u) ==
    \/ Load(u) \/ Wrap(u)
    \/ \E k \in Keys : ReadForUpdate(u, k) \/ ReadForDelete(u, k)
    \/ PutKey(u) \/ Sweep(u) \/ Fallback(u)
    \/ NotifyUpdate(u) \/ NotifyDelete(u) \/ TellUpdate(u) \/ TellDelete(u)

Next ==
    \/ SyncRead \/ (\E k \in Keys : SyncPut(k)) \/ SyncNext
    \/ \E u \in Updaters : Change(u) \/ Step(u)

Spec == Init /\ [][Next]_vars

-----------------------------------------------------------------------------
(* Properties *)

\* NewConfig has returned and no change is under way.
Settled == start.pc = "done" /\ \A u \in Updaters : up[u].pc = "idle"

\* A wrapper still holds a value that its source dropped in a Replace or a
\* reload (SourceWrapper.OnSync and the notifier's empty OnSync do that).
Forgotten(k) == \E l \in Levels : wrap[l][k] # None /\ src[l][k] = None

\* The value of a key by the order of the sources, from what they hold.
Effective(k) ==
    LET holders == {l \in Levels : src[l][k] # None}
    IN IF holders = {} THEN None ELSE <<Max(holders), src[Max(holders)][k]>>

\* What is read follows the sources.  The merged cache has for every key the value
\* of the highest source that holds it, unless it was changed while NewConfig ran;
\* the view reads the highest source, then the last namespace, and the bare name
\* only from sources that ignore namespaces.
ReadsFollowSources ==
    LET raw == IF Effective(Raw) # None /\ Effective(Raw)[1] \in IgnoreNs
                 THEN Effective(Raw) ELSE <<-1, Empty>>
        ns == GetNs([k \in Keys |-> Effective(k)])
    IN Settled =>
        /\ \A k \in Keys \ start.raced : ~Forgotten(k) => cache[k] = Effective(k)
        /\ start.raced = {} /\ ~(\E k \in Keys : Forgotten(k)) =>
             Get = (IF raw[1] > ns[1] THEN raw[2] ELSE ns[2])

\* No change stays untold.  Where the last namespace takes the value from the last
\* source (no other key can then have won before) and it was not changed while
\* NewConfig ran, the watcher was told the value that the view has.  The one
\* exception is a call of the watcher that came late: its value was filtered before
\* another updater changed the cache, and nothing was told after it.
WatcherAgrees ==
    LET tail == Last(NsList) IN
    /\ Settled /\ ~late
    /\ tail \notin start.raced /\ NodeLevel(cache[tail]) = NumLevels - 1
    => told = Get

=============================================================================
