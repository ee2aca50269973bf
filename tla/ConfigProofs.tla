---------------------------- MODULE ConfigProofs ----------------------------
(***************************************************************************)
(* For any number of sources, namespaces, keys and updaters: what is read  *)
(* follows the sources, and the watcher of the view is told of it, if      *)
(* updaters that run side by side change different keys.                   *)
(***************************************************************************)
EXTENDS Config, WellFoundedInduction, TLAPS

Tail1 == Last(NsList)
Top == NumLevels - 1

MaybeVals == [Keys -> Vals \cup {None}]
Nodes == (Levels \X Vals) \cup {None}
UpType == [pc : {"idle", "load", "wrap", "next", "put", "fallback", "notify", "tellUpdate", "tellDelete"},
           op : {"none", "update", "delete", "sync", "sweep"},
           val : MaybeVals, todo : SUBSET Keys, key : Keys, node : Nodes, upd : MaybeVals, del : SUBSET Keys,
           say : SUBSET (Vals \cup {Empty})]

StartType == [pc : {"read", "put", "done"}, level : Levels, val : MaybeVals, todo : SUBSET Keys, raced : SUBSET Keys]

TypeInv ==
    /\ src \in [Levels -> MaybeVals] /\ wrap \in [Levels -> MaybeVals]
    /\ \A l \in Levels, k \in Keys : src[l][k] # None => src[l][k] \in Written[l][k]
    /\ \A l \in Levels, k \in Keys : wrap[l][k] # None => wrap[l][k] \in Written[l][k]
    /\ cache \in [Keys -> Nodes]
    /\ \A k \in Keys : cache[k] # None => k \in Held(cache[k][1])
    /\ up \in [Updaters -> UpType]
    /\ start \in StartType
    /\ \A k \in Keys : start.pc = "put" /\ start.val[k] # None => start.val[k] \in Written[start.level][k]

(* The keys an updater has in hand, from the change of its source to the   *)
(* step that brings the merged cache in line with it.                      *)
Pending(u, k) ==
    \/ up[u].pc = "load" /\ k \in Held(LevelOf[u])
    \/ up[u].op \in {"update", "delete", "sync"} /\ k \in up[u].todo
    \/ up[u].pc \in {"put", "fallback"} /\ k = up[u].key

(* ... of which it has told the wrapper.                                   *)
Half(u, k) == Pending(u, k) /\ up[u].pc \notin {"load", "wrap"}

(* What an updater has in its local variables is what its source holds.    *)
JobInv(u) ==
    LET l == LevelOf[u] IN
    /\ up[u].pc \in {"idle", "load", "notify", "tellUpdate", "tellDelete"} <=> up[u].op = "none"
    /\ up[u].pc = "wrap" => up[u].op # "sweep"
    /\ up[u].pc = "put" => up[u].op \in {"update", "sync"}
    /\ up[u].pc = "fallback" => up[u].op \in {"delete", "sweep"}
    /\ up[u].pc \in {"idle", "load", "wrap", "notify", "tellUpdate", "tellDelete"} => up[u].upd = NoVals
    /\ up[u].pc = "load" \/ up[u].op \in {"sync", "sweep"} => Held(l) \subseteq Owns[u]
    /\ \A k \in Keys : Pending(u, k) => k \in Owns[u] \cap Held(l)
    /\ up[u].pc = "wrap" /\ up[u].op # "delete" => up[u].todo = Present(up[u].val)
    /\ up[u].op \in {"update", "sync"} => \A k \in Keys : Pending(u, k) => up[u].val[k] = src[l][k] /\ src[l][k] # None
    /\ up[u].op \in {"delete", "sweep"} => \A k \in Keys : Pending(u, k) => src[l][k] = None
    /\ up[u].op \in {"sync", "sweep"} => up[u].val = src[l]
    /\ up[u].op = "sweep" => up[u].todo \cap Present(up[u].val) = {}
    /\ up[u].op \in {"update", "sync"} => \A k \in Keys : Half(u, k) => wrap[l][k] = up[u].val[k]

(* An exclusive updater is alone; what it has to sweep does not vanish.    *)
AloneInv ==
    \A u, w \in Updaters : u # w /\ up[u].pc # "idle" /\ up[w].pc # "idle" => {u, w} \cap Exclusive = {}

SweepInv ==
    \A u \in Exclusive : up[u].op = "sweep" =>
        /\ \A k \in up[u].todo : cache[k] # None
        /\ up[u].pc = "fallback" => up[u].key \notin up[u].todo

(* Between its get and its put nobody else changes the key.                *)
HandInv ==
    \A u \in Updaters : up[u].pc \in {"put", "fallback"} /\ up[u].key \notin start.raced =>
        /\ up[u].node = cache[up[u].key]
        /\ up[u].pc = "put" => UpdateApplies(up[u].node, LevelOf[u])
        /\ up[u].pc = "fallback" => up[u].node # None /\ up[u].node[1] = LevelOf[u]

(* While NewConfig runs, all that is in hand counts as raced; the rest is  *)
(* as far as sync has come.                                                *)
Unread(k) ==
    {m \in Levels : start.pc # "done" /\ (m > start.level \/ (m = start.level /\ (start.pc = "read" \/ k \in start.todo)))}

RacedInv ==
    start.pc # "done" => \A u \in Updaters :
        /\ \A k \in Keys : Pending(u, k) => k \in start.raced
        /\ up[u].pc = "load" \/ up[u].op \in {"sync", "sweep"} => Held(LevelOf[u]) \subseteq start.raced

SyncInv ==
    /\ start.pc \in {"read", "done"} => start.todo = {}
    /\ start.pc # "done" => \A k \in Keys \ start.raced :
         /\ cache[k] # None => cache[k][1] \notin Unread(k)
         /\ start.pc = "put" => start.val[k] = src[start.level][k]
         /\ start.pc = "put" /\ k \in start.todo => start.val[k] # None /\ wrap[start.level][k] = start.val[k]
    /\ start.todo \subseteq Present(start.val)

(* But for the sources that are being changed or still to be read, every   *)
(* wrapper has what its source holds, the merged cache has what a wrapper  *)
(* has, and no source above it holds the key.                              *)
Busy(k) == {LevelOf[u] : u \in {w \in Updaters : Pending(w, k)}}
Halves(k) == {LevelOf[u] : u \in {w \in Updaters : Half(w, k)}}

Agree(k, busy, halves) ==
    /\ \A m \in Levels \ busy : src[m][k] # None =>
         wrap[m][k] = src[m][k] /\ cache[k] # None /\ cache[k][1] >= m
    /\ cache[k] # None /\ cache[k][1] \notin halves => wrap[cache[k][1]][k] = cache[k][2]

MergedInv == \A k \in Keys \ start.raced : Agree(k, Busy(k) \cup Unread(k), Halves(k))

(* What the last source has for the last namespace the watcher was told,   *)
(* or an updater is about to tell it, or a late call came between.         *)
Telling(u, v) == up[u].pc \in {"tellUpdate", "tellDelete"} /\ v \in up[u].say
ToTell(v) == \E u \in Updaters : up[u].upd[Tail1] = v \/ Telling(u, v)

ToldInv ==
    start.pc = "done" /\ Tail1 \notin start.raced /\ cache[Tail1] # None /\ cache[Tail1][1] = Top =>
        told = cache[Tail1][2] \/ late \/ ToTell(cache[Tail1][2])

AllJobs == \A u \in Updaters : JobInv(u)
IndInv == TypeInv /\ AllJobs /\ AloneInv /\ SweepInv /\ HandInv /\ RacedInv /\ SyncInv /\ MergedInv

-----------------------------------------------------------------------------
(* Operators *)

(* Max of a finite set of levels, -1 for none included.                    *)
LEMMA MaxInt ==
    ASSUME NEW n \in Nat, NEW S \in SUBSET ((-1)..n), S # {}
    PROVE  Max(S) \in S /\ \A y \in S : Max(S) >= y
<1> DEFINE T == {y \in Nat : n - y \in S}
           R == OpToRel(<, Nat)
<1>1. \A x \in S : x \in Int /\ n - x \in T
  OBVIOUS
<1>2. IsWellFoundedOn(R, Nat)
  BY NatLessThanWellFounded
<1>3. \A x, y \in Nat : <<x, y>> \in R <=> x < y
  BY DEF OpToRel
<1>4. T \subseteq Nat /\ T # {}
  BY <1>1
<1> HIDE DEF R, T
<1>5. PICK m \in T : \A y \in T : ~(<<y, m>> \in R)
  BY <1>2, <1>4, WFMin
<1>6. n - m \in S
  BY DEF T
<1>7. ASSUME NEW y \in S PROVE n - m >= y
  <2>1. n - y \in T /\ y \in Int
    BY <1>1
  <2>2. ~(n - y < m)
    BY <1>3, <1>4, <1>5, <2>1
  <2> QED
    BY <1>4, <2>1, <2>2
<1> QED
  BY <1>6, <1>7 DEF Max

LEMMA MaxFacts ==
    ASSUME NEW n \in Nat, NEW S \in SUBSET (0..n), S # {}
    PROVE  Max(S) \in S /\ \A y \in S : Max(S) >= y
<1>1. S \in SUBSET ((-1)..n)
  OBVIOUS
<1> QED
  BY <1>1, MaxInt

LEMMA LevelFacts ==
    /\ \A l \in Levels : l \in Nat /\ l <= Top
    /\ \A l \in Nat : l <= Top => l \in Levels
    /\ Top \in Levels /\ Top \in Nat /\ NumLevels \in Nat
    /\ 0 \in Levels
BY LevelsAssumption DEF Levels, Top

(* An entry of the merged cache is a pair of a level and a value.          *)
LEMMA NodeFacts ==
    /\ \A n \in Nodes : n # None => n[1] \in Levels /\ n[2] \in Vals /\ n = <<n[1], n[2]>>
    /\ \A l \in Levels, v \in Vals : <<l, v>> \in Nodes /\ <<l, v>> # None
    /\ None \in Nodes
BY NoneAssumption DEF Nodes

LEMMA HeldFacts ==
    /\ \A l \in Levels, k \in Keys : \A v \in Written[l][k] : v \in Vals /\ v # None /\ k \in Held(l)
    /\ \A l \in Levels : Held(l) \subseteq Keys
    /\ \A u \in Updaters : LevelOf[u] \in Levels /\ Owns[u] \subseteq Keys
BY KeysAssumption, NoneAssumption, UpdatersAssumption DEF Held

LEMMA IdleFacts ==
    /\ Idle \in UpType /\ NoVals \in MaybeVals /\ None \in Vals \cup {None}
    /\ Idle.pc = "idle" /\ Idle.op = "none" /\ Idle.val = NoVals /\ Idle.todo = {}
    /\ Idle.key = Raw /\ Idle.node = None /\ Idle.upd = NoVals /\ Idle.del = {} /\ Idle.say = {}
    /\ Raw \in Keys
BY NodeFacts DEF Idle, UpType, NoVals, MaybeVals, Keys

LEMMA NsFacts ==
    /\ NsList \in Seq(NsKeys) /\ Len(NsList) \in Nat \ {0} /\ DOMAIN NsList = 1..Len(NsList)
    /\ \A i \in DOMAIN NsList : NsList[i] \in NsKeys
    /\ \A k \in NsKeys : \E i \in DOMAIN NsList : k = NsList[i]
    /\ NsKeys \subseteq Keys
    /\ Tail1 = NsList[Len(NsList)] /\ Tail1 \in NsKeys
<1>1. NsList \in Seq(NsKeys) /\ NsList # <<>>
  BY NsAssumption
<1>2. Len(NsList) \in Nat \ {0} /\ DOMAIN NsList = 1..Len(NsList)
  BY <1>1
<1>3. \A i \in DOMAIN NsList : NsList[i] \in NsKeys
  BY DEF NsKeys, ToSet
<1>4. \A k \in NsKeys : \E i \in DOMAIN NsList : k = NsList[i]
  BY DEF NsKeys, ToSet
<1>5. Tail1 = NsList[Len(NsList)]
  BY DEF Tail1, Last
<1> QED
  BY <1>1, <1>2, <1>3, <1>4, <1>5 DEF Keys

LEMMA NodeLevelFacts ==
    \A n \in Nodes : /\ NodeLevel(n) \in (-1)..Top
                     /\ n = None => NodeLevel(n) = -1
                     /\ n # None => NodeLevel(n) = n[1] /\ n[1] \in Nat /\ n[1] \in Levels
<1> SUFFICES ASSUME NEW n \in Nodes
             PROVE  /\ NodeLevel(n) \in (-1)..Top
                    /\ n = None => NodeLevel(n) = -1
                    /\ n # None => NodeLevel(n) = n[1] /\ n[1] \in Nat /\ n[1] \in Levels
  OBVIOUS
<1>1. n # None => n[1] \in Levels /\ n[1] \in Nat /\ n[1] <= Top
  BY NodeFacts, LevelFacts
<1>2. Top \in Nat
  BY LevelFacts
<1> QED
  BY <1>1, <1>2 DEF NodeLevel

(* Filter.Get reads the key of the highest level, and of the last namespace *)
(* among equals.                                                           *)
LEMMA GetNsFacts ==
    ASSUME NEW nodes \in [Keys -> Nodes]
    PROVE  \/ GetNs(nodes) = <<-1, Empty>> /\ \A k \in NsKeys : nodes[k] = None
           \/ \E i \in DOMAIN NsList :
                /\ nodes[NsList[i]] # None /\ GetNs(nodes) = nodes[NsList[i]]
                /\ \A k \in NsKeys : NodeLevel(nodes[k]) <= nodes[NsList[i]][1]
                /\ \A j \in DOMAIN NsList : NodeLevel(nodes[NsList[j]]) = nodes[NsList[i]][1] => j <= i
<1> DEFINE levels == {NodeLevel(nodes[k]) : k \in NsKeys}
           best == {i \in DOMAIN NsList : NodeLevel(nodes[NsList[i]]) = Max(levels)}
<1>1. \A k \in NsKeys : nodes[k] \in Nodes
  BY NsFacts
<1>2. levels \in SUBSET ((-1)..Top) /\ levels # {} /\ Top \in Nat
  BY <1>1, NodeLevelFacts, NsFacts, LevelFacts
<1>3. \A k \in NsKeys : NodeLevel(nodes[k]) \in levels
  OBVIOUS
<1>4. \A x \in levels : \E k \in NsKeys : x = NodeLevel(nodes[k])
  OBVIOUS
<1> HIDE DEF levels
<1>5. Max(levels) \in levels /\ \A y \in levels : Max(levels) >= y
  BY <1>2, MaxInt
<1>6. GetNs(nodes) = IF Max(levels) = -1 THEN <<-1, Empty>> ELSE nodes[NsList[Max(best)]]
  BY DEF GetNs, levels
<1>7. best \in SUBSET (0..Len(NsList)) /\ Len(NsList) \in Nat /\ best # {}
  <2>1. PICK k \in NsKeys : Max(levels) = NodeLevel(nodes[k])
    BY <1>4, <1>5
  <2>2. PICK i \in DOMAIN NsList : k = NsList[i]
    BY NsFacts
  <2>3. i \in best
    BY <2>1, <2>2
  <2>4. DOMAIN NsList \subseteq 0..Len(NsList)
    BY NsFacts
  <2> QED
    BY <2>3, <2>4, NsFacts
<1>8. \A j \in DOMAIN NsList : j \in best <=> NodeLevel(nodes[NsList[j]]) = Max(levels)
  OBVIOUS
<1>9. best \subseteq DOMAIN NsList
  OBVIOUS
<1> HIDE DEF best
<1>10. Max(best) \in best /\ \A j \in best : Max(best) >= j
  BY <1>7, MaxFacts
<1>11. CASE Max(levels) = -1
  <2>1. ASSUME NEW k \in NsKeys PROVE nodes[k] = None
    <3>1. -1 >= NodeLevel(nodes[k])
      BY <1>3, <1>5, <1>11
    <3>2. nodes[k] # None => NodeLevel(nodes[k]) \in Nat
      BY <1>1, NodeLevelFacts
    <3> QED
      BY <3>1, <3>2
  <2> QED
    BY <1>6, <1>11, <2>1
<1>12. CASE Max(levels) # -1
  <2> DEFINE i == Max(best)
  <2>1. i \in DOMAIN NsList /\ NodeLevel(nodes[NsList[i]]) = Max(levels) /\ nodes[NsList[i]] \in Nodes
    BY <1>1, <1>8, <1>9, <1>10, NsFacts
  <2>2. GetNs(nodes) = nodes[NsList[i]]
    BY <1>6, <1>12
  <2> HIDE DEF i
  <2>3. nodes[NsList[i]] # None /\ nodes[NsList[i]][1] = Max(levels)
    BY <1>12, <2>1, NodeLevelFacts
  <2>4. ASSUME NEW k \in NsKeys PROVE NodeLevel(nodes[k]) <= Max(levels)
    <3>0. \A x \in levels : x \in Int
      BY <1>2
    <3>1. NodeLevel(nodes[k]) \in Int /\ Max(levels) \in Int
      BY <1>3, <1>5, <3>0
    <3> QED
      BY <1>3, <1>5, <3>1
  <2>5. ASSUME NEW j \in DOMAIN NsList, NodeLevel(nodes[NsList[j]]) = Max(levels) PROVE j <= i
    <3>1. i >= j
      BY <1>8, <1>10, <2>5 DEF i
    <3>2. i \in Int /\ j \in Int
      BY <2>1, NsFacts
    <3> QED
      BY <3>1, <3>2
  <2> QED
    BY <2>1, <2>2, <2>3, <2>4, <2>5
<1> QED
  BY <1>11, <1>12

-----------------------------------------------------------------------------
(* What each action does to the updater's variables *)

UpFrame(u) == up' \in [Updaters -> UpType] /\ \A w \in Updaters \ {u} : up'[w] = up[w]

SameStart(keys) ==
    /\ start'.pc = start.pc /\ start'.level = start.level /\ start'.val = start.val /\ start'.todo = start.todo
    /\ start.raced \subseteq start'.raced /\ (start.pc # "done" => keys \subseteq start'.raced)

LEMMA NoteRaceEffect ==
    ASSUME TypeInv, NEW keys \in SUBSET Keys, NoteRace(keys)
    PROVE  start' \in StartType /\ SameStart(keys)
BY DEF TypeInv, NoteRace, SameStart, StartType

LEMMA PutEffect ==
    ASSUME TypeInv, NEW u \in Updaters, NEW k \in Keys, NEW v \in Vals, Put(u, k, v)
    PROVE  /\ UpFrame(u)
           /\ up'[u].pc = "wrap" /\ up'[u].op = "update" /\ up'[u].todo = {k} /\ up'[u].upd = NoVals
           /\ up'[u].val = [NoVals EXCEPT ![k] = v]
           /\ src' \in [Levels -> MaybeVals] /\ src'[LevelOf[u]][k] = v
           /\ \A l \in Levels, j \in Keys : l # LevelOf[u] \/ j # k => src'[l][j] = src[l][j]
           /\ v \in Written[LevelOf[u]][k] /\ k \in Owns[u] /\ k \in Held(LevelOf[u])
<1>1. LevelOf[u] \in Levels /\ v \in Written[LevelOf[u]][k] /\ k \in Owns[u] /\ k \in Held(LevelOf[u])
  BY HeldFacts DEF Put
<1>2. src' \in [Levels -> MaybeVals] /\ src'[LevelOf[u]][k] = v
      /\ \A l \in Levels, j \in Keys : l # LevelOf[u] \/ j # k => src'[l][j] = src[l][j]
  BY <1>1 DEF Put, TypeInv, MaybeVals
<1> DEFINE new == [Idle EXCEPT !.pc = "wrap", !.op = "update", !.val[k] = v, !.todo = {k}]
<1>3. new \in UpType /\ new.pc = "wrap" /\ new.op = "update" /\ new.todo = {k} /\ new.upd = NoVals
      /\ new.val = [NoVals EXCEPT ![k] = v]
  BY IdleFacts DEF UpType, MaybeVals
<1>4. up' = [up EXCEPT ![u] = new]
  BY DEF Put
<1> HIDE DEF new
<1> QED
  BY <1>1, <1>2, <1>3, <1>4 DEF UpFrame, TypeInv

LEMMA DelEffect ==
    ASSUME TypeInv, NEW u \in Updaters, NEW k \in Keys, Del(u, k)
    PROVE  /\ UpFrame(u)
           /\ up'[u].pc = "wrap" /\ up'[u].op = "delete" /\ up'[u].todo = {k} /\ up'[u].upd = NoVals
           /\ src' \in [Levels -> MaybeVals] /\ src'[LevelOf[u]][k] = None
           /\ \A l \in Levels, j \in Keys : l # LevelOf[u] \/ j # k => src'[l][j] = src[l][j]
           /\ k \in Owns[u] /\ k \in Held(LevelOf[u])
<1>1. LevelOf[u] \in Levels /\ k \in Owns[u] /\ k \in Held(LevelOf[u])
  BY HeldFacts DEF Del
<1>2. src' \in [Levels -> MaybeVals] /\ src'[LevelOf[u]][k] = None
      /\ \A l \in Levels, j \in Keys : l # LevelOf[u] \/ j # k => src'[l][j] = src[l][j]
  BY <1>1 DEF Del, TypeInv, MaybeVals
<1> DEFINE new == [Idle EXCEPT !.pc = "wrap", !.op = "delete", !.todo = {k}]
<1>3. new \in UpType /\ new.pc = "wrap" /\ new.op = "delete" /\ new.todo = {k} /\ new.upd = NoVals
  BY IdleFacts DEF UpType, MaybeVals
<1>4. up' = [up EXCEPT ![u] = new]
  BY DEF Del
<1> HIDE DEF new
<1> QED
  BY <1>1, <1>2, <1>3, <1>4 DEF UpFrame, TypeInv

LEMMA ReplaceEffect ==
    ASSUME TypeInv, NEW u \in Updaters, NEW val \in Contents(LevelOf[u]), Replace(u, val)
    PROVE  /\ UpFrame(u)
           /\ up'[u].pc = "load" /\ up'[u].op = "none" /\ up'[u].todo = {} /\ up'[u].upd = NoVals
           /\ src' \in [Levels -> MaybeVals]
           /\ \A j \in Keys : src'[LevelOf[u]][j] # None => src'[LevelOf[u]][j] \in Written[LevelOf[u]][j]
           /\ \A l \in Levels, j \in Keys : l # LevelOf[u] \/ j \notin Held(LevelOf[u]) => src'[l][j] = src[l][j]
           /\ Held(LevelOf[u]) \subseteq Owns[u]
<1>1. LevelOf[u] \in Levels /\ Held(LevelOf[u]) \subseteq Owns[u]
  BY HeldFacts DEF Replace
<1>2. val \in MaybeVals /\ \A j \in Keys : val[j] # None => val[j] \in Written[LevelOf[u]][j]
  BY DEF Contents, MaybeVals
<1>3. src' = [src EXCEPT ![LevelOf[u]] = val]
  BY DEF Replace
<1>4. src' \in [Levels -> MaybeVals] /\ src'[LevelOf[u]] = val
      /\ \A l \in Levels : l # LevelOf[u] => src'[l] = src[l]
  BY <1>1, <1>2, <1>3 DEF TypeInv
<1>5. \A j \in Keys : j \notin Held(LevelOf[u]) => src'[LevelOf[u]][j] = None /\ src[LevelOf[u]][j] = None
  BY <1>1, <1>2, <1>4 DEF Held, TypeInv
<1> DEFINE new == [Idle EXCEPT !.pc = "load"]
<1>6. new \in UpType /\ new.pc = "load" /\ new.op = "none" /\ new.todo = {} /\ new.upd = NoVals
  BY IdleFacts DEF UpType, MaybeVals
<1>7. up' = [up EXCEPT ![u] = new]
  BY DEF Replace
<1> HIDE DEF new
<1>8. UpFrame(u) /\ up'[u] = new
  BY <1>6, <1>7 DEF UpFrame, TypeInv
<1> QED
  BY <1>1, <1>2, <1>4, <1>5, <1>6, <1>8

LEMMA LoadEffect ==
    ASSUME TypeInv, NEW u \in Updaters, Load(u)
    PROVE  /\ UpFrame(u) /\ up[u].pc = "load" /\ up'[u].upd = NoVals
           /\ \/ Present(src[LevelOf[u]]) = {} /\ up'[u] = Idle
              \/ /\ up'[u].pc = "wrap" /\ up'[u].op = "sync" /\ up'[u].todo = Present(src[LevelOf[u]])
                 /\ up'[u].val = src[LevelOf[u]]
<1> DEFINE l == LevelOf[u]
           new == [Idle EXCEPT !.pc = "wrap", !.op = "sync", !.val = src[l], !.todo = Present(src[l])]
<1>1. src[l] \in MaybeVals /\ Present(src[l]) \in SUBSET Keys
  BY HeldFacts DEF TypeInv, Present
<1> HIDE DEF l
<1>2. new \in UpType /\ new.pc = "wrap" /\ new.op = "sync" /\ new.todo = Present(src[l]) /\ new.val = src[l]
      /\ new.upd = NoVals
  BY <1>1, IdleFacts DEF UpType
<1>3. up' = [up EXCEPT ![u] = IF Present(src[l]) = {} THEN Idle ELSE new]
  BY DEF Load, l
<1> HIDE DEF new
<1>4. up[u].pc = "load"
  BY DEF Load
<1>5. CASE Present(src[l]) = {}
  BY <1>3, <1>4, <1>5, IdleFacts DEF UpFrame, TypeInv, l
<1>6. CASE Present(src[l]) # {}
  <2>1. up' = [up EXCEPT ![u] = new]
    BY <1>3, <1>6
  <2>2. UpFrame(u) /\ up'[u] = new
    BY <2>1, <1>2 DEF UpFrame, TypeInv
  <2> QED
    BY <2>2, <1>2, <1>4 DEF l
<1> QED
  BY <1>5, <1>6

LEMMA SetUp ==
    ASSUME TypeInv, NEW u \in Updaters, NEW new \in UpType, up' = [up EXCEPT ![u] = new]
    PROVE  UpFrame(u) /\ up'[u] = new
BY DEF TypeInv, UpFrame

LEMMA WrapEffect ==
    ASSUME TypeInv, NEW u \in Updaters, Wrap(u)
    PROVE  /\ UpFrame(u) /\ up[u].pc = "wrap"
           /\ up'[u].pc = "next" /\ up'[u].op = up[u].op /\ up'[u].todo = up[u].todo
           /\ up'[u].val = up[u].val /\ up'[u].upd = up[u].upd
           /\ wrap' \in [Levels -> MaybeVals]
           /\ \A l \in Levels : l # LevelOf[u] => wrap'[l] = wrap[l]
           /\ \A k \in Keys : up[u].op = "delete" =>
                wrap'[LevelOf[u]][k] = IF k \in up[u].todo THEN None ELSE wrap[LevelOf[u]][k]
           /\ \A k \in Keys : up[u].op # "delete" =>
                wrap'[LevelOf[u]][k] = IF up[u].val[k] # None THEN up[u].val[k] ELSE wrap[LevelOf[u]][k]
<1> DEFINE l == LevelOf[u]
           del == [k \in Keys |-> IF k \in up[u].todo THEN None ELSE wrap[l][k]]
           upd == Overlay(wrap[l], up[u].val)
<1>1. l \in Levels /\ wrap[l] \in MaybeVals /\ up[u].val \in MaybeVals /\ up[u].pc = "wrap"
  BY HeldFacts DEF TypeInv, UpType, Wrap
<1>2. del \in MaybeVals /\ upd \in MaybeVals
  BY <1>1 DEF MaybeVals, Overlay
<1>3. wrap' = [wrap EXCEPT ![l] = IF up[u].op = "delete" THEN del ELSE upd]
  BY DEF Wrap
<1> HIDE DEF l
<1>4. wrap' \in [Levels -> MaybeVals] /\ wrap'[l] = (IF up[u].op = "delete" THEN del ELSE upd)
      /\ \A m \in Levels : m # l => wrap'[m] = wrap[m]
  BY <1>1, <1>2, <1>3 DEF TypeInv
<1>5. \A k \in Keys : /\ del[k] = IF k \in up[u].todo THEN None ELSE wrap[l][k]
                      /\ upd[k] = IF up[u].val[k] # None THEN up[u].val[k] ELSE wrap[l][k]
  BY DEF Overlay
<1>6. up' = [up EXCEPT ![u].pc = "next"]
  BY DEF Wrap
<1> DEFINE new == [up[u] EXCEPT !.pc = "next"]
<1>7. new \in UpType /\ new.pc = "next" /\ new.op = up[u].op /\ new.todo = up[u].todo
      /\ new.val = up[u].val /\ new.upd = up[u].upd
  BY DEF TypeInv, UpType
<1>8. up' = [up EXCEPT ![u] = new]
  BY <1>6
<1> HIDE DEF new
<1>9. UpFrame(u) /\ up'[u] = new
  BY <1>7, <1>8, SetUp
<1> HIDE DEF del, upd
<1> QED
  BY <1>1, <1>4, <1>5, <1>7, <1>9 DEF l

LEMMA ReadForUpdateEffect ==
    ASSUME TypeInv, NEW u \in Updaters, NEW k \in Keys, ReadForUpdate(u, k)
    PROVE  /\ UpFrame(u) /\ up[u].pc = "next" /\ up[u].op \in {"update", "sync"} /\ k \in up[u].todo
           /\ up'[u].op = up[u].op /\ up'[u].todo = up[u].todo \ {k}
           /\ up'[u].val = up[u].val /\ up'[u].upd = up[u].upd
           /\ \/ UpdateApplies(cache[k], LevelOf[u]) /\ up'[u].pc = "put" /\ up'[u].key = k /\ up'[u].node = cache[k]
              \/ ~UpdateApplies(cache[k], LevelOf[u]) /\ up'[u].pc = "next"
<1>1. up[u].pc = "next" /\ up[u].op \in {"update", "sync"} /\ k \in up[u].todo /\ cache[k] \in Nodes
  BY DEF ReadForUpdate, TypeInv
<1>2. CASE UpdateApplies(cache[k], LevelOf[u])
  <2>1. up' = [up EXCEPT ![u].todo = @ \ {k}, ![u].pc = "put", ![u].key = k, ![u].node = cache[k]]
    BY <1>2 DEF ReadForUpdate
  <2> QED
    BY <1>1, <1>2, <2>1 DEF TypeInv, UpType, UpFrame
<1>3. CASE ~UpdateApplies(cache[k], LevelOf[u])
  <2> DEFINE new == [up[u] EXCEPT !.todo = @ \ {k}]
  <2>1. new \in UpType /\ new.pc = up[u].pc /\ new.op = up[u].op /\ new.todo = up[u].todo \ {k}
        /\ new.val = up[u].val /\ new.upd = up[u].upd
    BY DEF TypeInv, UpType
  <2>2. up' = [up EXCEPT ![u] = new]
    BY <1>3 DEF ReadForUpdate
  <2> HIDE DEF new
  <2>3. UpFrame(u) /\ up'[u] = new
    BY <2>1, <2>2, SetUp
  <2> QED
    BY <1>1, <1>3, <2>1, <2>3
<1> QED
  BY <1>2, <1>3

Mine(u, k) ==
    \/ cache[k] # None /\ cache[k][1] = LevelOf[u]
    \/ cache[k] = None /\ up[u].op = "sweep" /\ LevelOf[u] = 0

LEMMA ReadForDeleteEffect ==
    ASSUME TypeInv, NEW u \in Updaters, NEW k \in Keys, ReadForDelete(u, k)
    PROVE  /\ UpFrame(u) /\ up[u].pc = "next" /\ up[u].op \in {"delete", "sweep"} /\ k \in up[u].todo
           /\ up'[u].op = up[u].op /\ up'[u].todo = up[u].todo \ {k}
           /\ up'[u].val = up[u].val /\ up'[u].upd = up[u].upd
           /\ \/ Mine(u, k) /\ up'[u].pc = "fallback" /\ up'[u].key = k /\ up'[u].node = cache[k]
              \/ ~Mine(u, k) /\ up'[u].pc = "next"
<1>1. up[u].pc = "next" /\ up[u].op \in {"delete", "sweep"} /\ k \in up[u].todo /\ cache[k] \in Nodes
  BY DEF ReadForDelete, TypeInv
<1>2. CASE Mine(u, k)
  <2>1. up' = [up EXCEPT ![u].todo = @ \ {k}, ![u].pc = "fallback", ![u].key = k, ![u].node = cache[k]]
    BY <1>2 DEF ReadForDelete, Mine
  <2> QED
    BY <1>1, <1>2, <2>1 DEF TypeInv, UpType, UpFrame
<1>3. CASE ~Mine(u, k)
  <2> DEFINE new == [up[u] EXCEPT !.todo = @ \ {k}]
  <2>1. new \in UpType /\ new.pc = up[u].pc /\ new.op = up[u].op /\ new.todo = up[u].todo \ {k}
        /\ new.val = up[u].val /\ new.upd = up[u].upd
    BY DEF TypeInv, UpType
  <2>2. up' = [up EXCEPT ![u] = new]
    BY <1>3 DEF ReadForDelete, Mine
  <2> HIDE DEF new
  <2>3. UpFrame(u) /\ up'[u] = new
    BY <2>1, <2>2, SetUp
  <2> QED
    BY <1>1, <1>3, <2>1, <2>3
<1> QED
  BY <1>2, <1>3

LEMMA SweepEffect ==
    ASSUME TypeInv, NEW u \in Updaters, Sweep(u)
    PROVE  /\ UpFrame(u) /\ up[u].pc = "next" /\ up[u].op = "sync" /\ up[u].todo = {}
           /\ up'[u].pc = "next" /\ up'[u].op = "sweep" /\ up'[u].todo = Present(cache) \ Present(up[u].val)
           /\ up'[u].val = up[u].val /\ up'[u].upd = up[u].upd
<1>1. Present(cache) \subseteq Keys
  BY DEF Present
<1> DEFINE new == [up[u] EXCEPT !.op = "sweep", !.todo = Present(cache) \ Present(up[u].val)]
<1>2. new \in UpType /\ new.pc = up[u].pc /\ new.op = "sweep" /\ new.todo = Present(cache) \ Present(up[u].val)
      /\ new.val = up[u].val /\ new.upd = up[u].upd
  BY <1>1 DEF TypeInv, UpType
<1>3. up' = [up EXCEPT ![u] = new]
  BY DEF Sweep
<1> HIDE DEF new
<1>4. UpFrame(u) /\ up'[u] = new
  BY <1>2, <1>3, SetUp
<1> QED
  BY <1>2, <1>4 DEF Sweep

LEMMA PutKeyEffect ==
    ASSUME TypeInv, NEW u \in Updaters, PutKey(u), up[u].val[up[u].key] \in Vals
    PROVE  /\ UpFrame(u) /\ up[u].pc = "put" /\ up[u].key \in Keys
           /\ up'[u].pc = "next" /\ up'[u].op = up[u].op /\ up'[u].todo = up[u].todo /\ up'[u].val = up[u].val
           /\ \A j \in Keys : j # up[u].key => up'[u].upd[j] = up[u].upd[j]
           /\ Changed(up[u].node, up[u].val[up[u].key]) => up'[u].upd[up[u].key] = up[u].val[up[u].key]
           /\ ~Changed(up[u].node, up[u].val[up[u].key]) => up'[u].upd = up[u].upd
           /\ cache' \in [Keys -> Nodes] /\ cache'[up[u].key] = <<LevelOf[u], up[u].val[up[u].key]>>
           /\ \A j \in Keys : j # up[u].key => cache'[j] = cache[j]
<1> DEFINE k == up[u].key
           v == up[u].val[k]
           new == [up[u].upd EXCEPT ![k] = IF Changed(up[u].node, v) THEN v ELSE @]
<1>1. up[u] \in UpType /\ k \in Keys /\ v \in Vals /\ up[u].upd \in MaybeVals /\ LevelOf[u] \in Levels
      /\ <<LevelOf[u], v>> \in Nodes
  BY HeldFacts, NodeFacts DEF TypeInv, UpType
<1>2. /\ cache' = [cache EXCEPT ![k] = <<LevelOf[u], v>>]
      /\ up' = [up EXCEPT ![u].pc = "next", ![u].key = Raw, ![u].node = None, ![u].upd = new]
      /\ up[u].pc = "put"
  BY DEF PutKey
<1>3. /\ new \in MaybeVals /\ \A j \in Keys : j # k => new[j] = up[u].upd[j]
      /\ Changed(up[u].node, v) => new[k] = v
  BY <1>1 DEF MaybeVals
<1>4. ~Changed(up[u].node, v) => new = up[u].upd
  BY <1>1 DEF MaybeVals
<1> HIDE DEF new
<1>5. /\ UpFrame(u) /\ up'[u].pc = "next" /\ up'[u].op = up[u].op /\ up'[u].todo = up[u].todo
      /\ up'[u].val = up[u].val /\ up'[u].upd = new
  BY <1>1, <1>2, <1>3, IdleFacts, NodeFacts DEF TypeInv, UpType, UpFrame
<1>6. /\ cache' \in [Keys -> Nodes] /\ cache'[k] = <<LevelOf[u], v>>
      /\ \A j \in Keys : j # k => cache'[j] = cache[j]
  BY <1>1, <1>2 DEF TypeInv
<1> QED
  BY <1>1, <1>2, <1>3, <1>4, <1>5, <1>6

(* The view reads a value or the empty string.                             *)
LEMMA GetRange ==
    ASSUME TypeInv
    PROVE  Get \in Vals \cup {Empty}
<1>1. GetRaw[2] \in Vals \cup {Empty}
  BY IdleFacts, NodeFacts DEF TypeInv, GetRaw
<1>2. GetNs(cache)[2] \in Vals \cup {Empty}
  <2>1. CASE GetNs(cache) = <<-1, Empty>>
    BY <2>1
  <2>2. CASE GetNs(cache) # <<-1, Empty>>
    BY <2>2, GetNsFacts, NsFacts, NodeFacts DEF TypeInv
  <2> QED
    BY <2>1, <2>2
<1> QED
  BY <1>1, <1>2 DEF Get

LEMMA NotifyUpdateEffect ==
    ASSUME TypeInv, NEW u \in Updaters, NotifyUpdate(u)
    PROVE  /\ UpFrame(u) /\ up[u].pc = "next" /\ up[u].op # "sync" /\ up[u].todo = {}
           /\ up'[u].pc = "tellUpdate" /\ up'[u].op = "none" /\ up'[u].todo = {} /\ up'[u].upd = NoVals
           /\ start.pc = "done" => up'[u].say = FilterUpdate(up[u].upd)
<1> DEFINE say == IF start.pc = "done" THEN FilterUpdate(up[u].upd) ELSE {}
           new == [Idle EXCEPT !.pc = "tellUpdate", !.del = up[u].del, !.say = say]
<1>1. up[u].del \in SUBSET Keys /\ say \in SUBSET (Vals \cup {Empty})
  BY GetRange DEF TypeInv, UpType, FilterUpdate
<1>2. up' = [up EXCEPT ![u] = new]
  BY DEF NotifyUpdate
<1>3. start.pc = "done" => say = FilterUpdate(up[u].upd)
  OBVIOUS
<1> HIDE DEF say
<1>4. new \in UpType /\ new.pc = "tellUpdate" /\ new.op = "none" /\ new.todo = {} /\ new.upd = NoVals /\ new.say = say
  BY <1>1, IdleFacts DEF UpType
<1> HIDE DEF new
<1> QED
  BY <1>2, <1>3, <1>4 DEF NotifyUpdate, UpFrame, TypeInv

LEMMA NotifyDeleteEffect ==
    ASSUME TypeInv, NEW u \in Updaters, NotifyDelete(u)
    PROVE  /\ UpFrame(u) /\ up[u].pc = "notify"
           /\ up'[u].pc = "tellDelete" /\ up'[u].op = "none" /\ up'[u].todo = {} /\ up'[u].upd = NoVals
<1> DEFINE say == IF start.pc = "done" THEN FilterDelete(up[u].del) ELSE {}
           new == [Idle EXCEPT !.pc = "tellDelete", !.say = say]
<1>1. say \in SUBSET (Vals \cup {Empty})
  BY GetRange DEF FilterDelete
<1>2. up' = [up EXCEPT ![u] = new]
  BY DEF NotifyDelete
<1> HIDE DEF say
<1>3. new \in UpType /\ new.pc = "tellDelete" /\ new.op = "none" /\ new.todo = {} /\ new.upd = NoVals
  BY <1>1, IdleFacts DEF UpType
<1> HIDE DEF new
<1> QED
  BY <1>2, <1>3 DEF NotifyDelete, UpFrame, TypeInv

LEMMA TellEffect ==
    ASSUME TypeInv, NEW u \in Updaters, TellUpdate(u) \/ TellDelete(u)
    PROVE  /\ UpFrame(u) /\ up[u].pc \in {"tellUpdate", "tellDelete"} /\ Tell(up[u].say)
           /\ up'[u].pc \in {"notify", "idle"} /\ up'[u].op = "none" /\ up'[u].todo = {} /\ up'[u].upd = NoVals
<1>1. CASE TellUpdate(u)
  <2> DEFINE new == [Idle EXCEPT !.pc = "notify", !.del = up[u].del]
  <2>1. up[u].del \in SUBSET Keys
    BY DEF TypeInv, UpType
  <2>2. new \in UpType /\ new.pc = "notify" /\ new.op = "none" /\ new.todo = {} /\ new.upd = NoVals
    BY <2>1, IdleFacts DEF UpType
  <2>3. up' = [up EXCEPT ![u] = new]
    BY <1>1 DEF TellUpdate
  <2> HIDE DEF new
  <2> QED
    BY <1>1, <2>2, <2>3 DEF TellUpdate, UpFrame, TypeInv
<1>2. CASE TellDelete(u)
  BY <1>2, IdleFacts DEF TellDelete, TypeInv, UpFrame
<1> QED
  BY <1>1, <1>2

LEMMA FallbackEffect ==
    ASSUME TypeInv, NEW u \in Updaters, Fallback(u)
    PROVE  /\ UpFrame(u) /\ up[u].pc = "fallback" /\ up[u].key \in Keys
           /\ up'[u].pc = "next" /\ up'[u].op = up[u].op /\ up'[u].todo = up[u].todo /\ up'[u].val = up[u].val
           /\ \A j \in Keys : j # up[u].key => up'[u].upd[j] = up[u].upd[j]
           /\ cache' \in [Keys -> Nodes] /\ \A j \in Keys : j # up[u].key => cache'[j] = cache[j]
           /\ \/ \E m \in Levels :
                   /\ m < LevelOf[u] /\ wrap[m][up[u].key] # None
                   /\ \A i \in Levels : i < LevelOf[u] /\ wrap[i][up[u].key] # None => m >= i
                   /\ cache'[up[u].key] = <<m, wrap[m][up[u].key]>>
              \/ /\ \A i \in Levels : i < LevelOf[u] => wrap[i][up[u].key] = None
                 /\ cache'[up[u].key] = None
<1> DEFINE k == up[u].key
           l == LevelOf[u]
           found == Lower(k, l)
           m == Max(found)
           v == wrap[m][k]
           new == [up[u].upd EXCEPT ![k] = IF Changed(up[u].node, v) THEN v ELSE @]
<1>1. up[u] \in UpType /\ k \in Keys /\ up[u].upd \in MaybeVals /\ l \in Levels /\ up[u].pc = "fallback" /\ l \in Nat
  BY HeldFacts, LevelFacts DEF TypeInv, UpType, Fallback
<1> HIDE DEF k, l, m, v
<1>2. found \in SUBSET (0..l) /\ \A i \in Levels : i \in found <=> i < l /\ wrap[i][k] # None
  <2>1. \A i \in Levels : i \in 0..(l - 1) <=> i < l
    BY <1>1, LevelFacts
  <2>2. 0..(l - 1) \subseteq 0..l
    BY <1>1
  <2> QED
    BY <2>1, <2>2 DEF Lower
<1> HIDE DEF found
<1>3. CASE found # {}
  <2>1. m \in found /\ \A i \in found : m >= i
    BY <1>1, <1>2, <1>3, MaxFacts DEF m
  <2>2. m \in Levels
    <3>1. m \in Nat /\ m <= l
      BY <1>1, <1>2, <2>1
    <3> QED
      BY <1>1, <3>1, LevelFacts
  <2>3. m < l /\ v # None /\ \A i \in Levels : i < l /\ wrap[i][k] # None => m >= i
    BY <1>2, <2>1, <2>2 DEF v
  <2>4. v \in Vals
    BY <1>1, <2>2, <2>3 DEF TypeInv, MaybeVals, v
  <2>5. /\ cache' = [cache EXCEPT ![k] = <<m, v>>]
        /\ up' = [up EXCEPT ![u].pc = "next", ![u].key = Raw, ![u].node = None, ![u].upd = new]
    BY <1>3 DEF Fallback, k, l, m, v, found
  <2>6. /\ cache' \in [Keys -> Nodes] /\ cache'[k] = <<m, v>>
        /\ \A j \in Keys : j # k => cache'[j] = cache[j]
    <3>1. <<m, v>> \in Nodes
      BY <2>2, <2>4, NodeFacts
    <3> QED
      BY <3>1, <2>5, <1>1 DEF TypeInv
  <2>7. /\ new \in MaybeVals /\ \A j \in Keys : j # k => new[j] = up[u].upd[j]
    BY <1>1, <2>4 DEF MaybeVals
  <2> HIDE DEF new
  <2>8. /\ UpFrame(u) /\ up'[u].pc = "next" /\ up'[u].op = up[u].op /\ up'[u].todo = up[u].todo
        /\ up'[u].val = up[u].val /\ up'[u].upd = new
    BY <1>1, <2>5, <2>7, IdleFacts, NodeFacts DEF TypeInv, UpType, UpFrame
  <2> QED
    BY <1>1, <2>2, <2>3, <2>6, <2>7, <2>8 DEF k, l, v
<1>4. CASE found = {}
  <2>1. /\ cache' = [cache EXCEPT ![k] = None]
        /\ up' = [up EXCEPT ![u].pc = "next", ![u].key = Raw, ![u].node = None, ![u].del = @ \cup {k}]
    BY <1>4 DEF Fallback, k, l, found
  <2>2. /\ cache' \in [Keys -> Nodes] /\ cache'[k] = None
        /\ \A j \in Keys : j # k => cache'[j] = cache[j]
    BY <2>1, <1>1, NodeFacts DEF TypeInv
  <2> DEFINE dst == [up[u] EXCEPT !.pc = "next", !.key = Raw, !.node = None, !.del = @ \cup {k}]
  <2>3. dst \in UpType /\ dst.pc = "next" /\ dst.op = up[u].op /\ dst.todo = up[u].todo
        /\ dst.val = up[u].val /\ dst.upd = up[u].upd
    BY <1>1, IdleFacts, NodeFacts DEF UpType
  <2>4. up' = [up EXCEPT ![u] = dst]
    BY <2>1
  <2> HIDE DEF dst
  <2>5. UpFrame(u) /\ up'[u] = dst
    BY <2>3, <2>4, SetUp
  <2>6. \A i \in Levels : i < l => wrap[i][k] = None
    BY <1>2, <1>4
  <2> QED
    BY <1>1, <2>2, <2>3, <2>5, <2>6 DEF k, l
<1> QED
  BY <1>3, <1>4

LEMMA SyncReadEffect ==
    ASSUME TypeInv, SyncRead
    PROVE  /\ start' \in StartType /\ start.pc = "read" /\ start'.pc = "put" /\ start'.level = start.level
           /\ start'.val = src[start.level] /\ start'.todo = Present(src[start.level]) /\ start'.raced = start.raced
           /\ wrap' \in [Levels -> MaybeVals] /\ start.level \in Levels
           /\ \A l \in Levels : l # start.level => wrap'[l] = wrap[l]
           /\ \A k \in Keys : wrap'[start.level][k] =
                IF src[start.level][k] # None THEN src[start.level][k] ELSE wrap[start.level][k]
<1> DEFINE l == start.level
           new == Overlay(wrap[l], src[l])
<1>1. l \in Levels /\ src[l] \in MaybeVals /\ wrap[l] \in MaybeVals
  BY DEF TypeInv, StartType
<1>2. Present(src[l]) \in SUBSET Keys
  BY DEF Present
<1>3. start' \in StartType /\ start.pc = "read" /\ start'.pc = "put" /\ start'.level = start.level
      /\ start'.val = src[l] /\ start'.todo = Present(src[l]) /\ start'.raced = start.raced
  BY <1>1, <1>2 DEF TypeInv, StartType, SyncRead
<1>4. new \in MaybeVals /\ \A k \in Keys : new[k] = IF src[l][k] # None THEN src[l][k] ELSE wrap[l][k]
  BY <1>1 DEF MaybeVals, Overlay
<1>5. wrap' = [wrap EXCEPT ![l] = new]
  BY DEF SyncRead
<1> HIDE DEF new, l
<1>6. wrap' \in [Levels -> MaybeVals] /\ wrap'[l] = new /\ \A m \in Levels : m # l => wrap'[m] = wrap[m]
  BY <1>1, <1>4, <1>5 DEF TypeInv
<1> QED
  BY <1>1, <1>3, <1>4, <1>6 DEF l

LEMMA SyncPutEffect ==
    ASSUME TypeInv, NEW k \in Keys, SyncPut(k), start.val[k] # None
    PROVE  /\ start' \in StartType /\ start.pc = "put" /\ start'.pc = "put" /\ start'.level = start.level
           /\ start'.val = start.val /\ start'.todo = start.todo \ {k} /\ start'.raced = start.raced /\ k \in start.todo
           /\ cache' \in [Keys -> Nodes] /\ cache'[k] = <<start.level, start.val[k]>>
           /\ \A j \in Keys : j # k => cache'[j] = cache[j]
           /\ start.level \in Levels /\ start.val[k] \in Vals
<1>1. start.level \in Levels /\ start.val[k] \in Vals
  BY DEF TypeInv, StartType, MaybeVals
<1>2. <<start.level, start.val[k]>> \in Nodes
  BY <1>1, NodeFacts
<1>3. /\ start' \in StartType /\ start.pc = "put" /\ start'.pc = "put" /\ start'.level = start.level
      /\ start'.val = start.val /\ start'.todo = start.todo \ {k} /\ start'.raced = start.raced /\ k \in start.todo
  BY DEF TypeInv, StartType, SyncPut
<1>4. /\ cache' \in [Keys -> Nodes] /\ cache'[k] = <<start.level, start.val[k]>>
      /\ \A j \in Keys : j # k => cache'[j] = cache[j]
  BY <1>2 DEF TypeInv, SyncPut
<1> QED
  BY <1>1, <1>3, <1>4

LEMMA SyncNextEffect ==
    ASSUME TypeInv, SyncNext
    PROVE  /\ start' \in StartType /\ start.pc = "put" /\ start.todo = {} /\ start'.todo = {}
           /\ start'.raced = start.raced /\ start'.val = NoVals /\ start.level \in Levels
           /\ \/ start.level = Top /\ start'.pc = "done" /\ told' = Get
              \/ start.level # Top /\ start'.pc = "read" /\ start'.level = start.level + 1
<1>1. start.level \in Levels
  BY DEF TypeInv, StartType
<1>2. CASE start.level = Top
  <2>1. start' = [start EXCEPT !.pc = "done", !.val = NoVals] /\ told' = Get
    BY <1>2 DEF SyncNext, Top
  <2> QED
    BY <1>1, <1>2, <2>1, IdleFacts DEF TypeInv, StartType, SyncNext
<1>3. CASE start.level # Top
  <2> DEFINE n == start.level + 1
  <2>1. start' = [start EXCEPT !.pc = "read", !.val = NoVals, !.level = n]
    BY <1>3 DEF SyncNext, Top
  <2>2. n \in Levels
    <3>1. start.level \in Nat /\ Top \in Nat /\ start.level <= Top
      BY <1>1, LevelFacts
    <3>2. n \in Nat /\ n <= Top
      BY <3>1, <1>3
    <3> QED
      BY <3>2, LevelFacts
  <2> HIDE DEF n
  <2>3. start' \in StartType
    BY <2>1, <2>2, IdleFacts DEF TypeInv, StartType
  <2>4. start'.pc = "read" /\ start'.todo = start.todo /\ start'.val = NoVals /\ start'.raced = start.raced
        /\ start'.level = n
    BY <2>1 DEF TypeInv, StartType
  <2> QED
    BY <1>1, <1>3, <2>3, <2>4 DEF SyncNext, n
<1> QED
  BY <1>2, <1>3

-----------------------------------------------------------------------------
(* What a step of one updater leaves alone *)

Active(u) == up[u].pc # "idle" \/ MayBegin(u)

(* Updaters at work at the same time change different keys.                *)
LEMMA Apart ==
    ASSUME TypeInv, AloneInv, DisjointKeys, NEW u \in Updaters, NEW w \in Updaters, u # w,
           Active(u), up[w].pc # "idle"
    PROVE  {u, w} \cap Exclusive = {} /\ Owns[u] \cap Owns[w] = {}
<1>1. {u, w} \cap Exclusive = {}
  BY DEF Active, AloneInv, MayBegin
<1> QED
  BY <1>1 DEF DisjointKeys

LEMMA PendingFacts ==
    ASSUME NEW u \in Updaters, JobInv(u), NEW k \in Keys, Pending(u, k)
    PROVE  up[u].pc # "idle" /\ k \in Owns[u] /\ k \in Held(LevelOf[u])
BY DEF JobInv, Pending

LEMMA Owner ==
    ASSUME TypeInv, AllJobs, AloneInv, DisjointKeys, NEW u \in Updaters, NEW w \in Updaters, NEW k \in Keys,
           Active(u), k \in Owns[u], Pending(w, k)
    PROVE  u = w
<1>1. up[w].pc # "idle" /\ k \in Owns[w]
  BY PendingFacts DEF AllJobs
<1> QED
  BY <1>1, Apart

LEMMA PendingKept ==
    ASSUME NEW u \in Updaters, UpFrame(u), NEW w \in Updaters, w # u, NEW k \in Keys
    PROVE  (Pending(w, k)' <=> Pending(w, k)) /\ (Half(w, k)' <=> Half(w, k))
BY DEF UpFrame, Pending, Half

LEMMA JobFrame ==
    ASSUME NEW w \in Updaters, JobInv(w), up'[w] = up[w],
           \A k \in Keys : Pending(w, k) =>
               /\ src'[LevelOf[w]][k] = src[LevelOf[w]][k]
               /\ \/ wrap'[LevelOf[w]][k] = wrap[LevelOf[w]][k]
                  \/ src[LevelOf[w]][k] # None /\ wrap'[LevelOf[w]][k] = src[LevelOf[w]][k],
           up[w].op \in {"sync", "sweep"} => src'[LevelOf[w]] = src[LevelOf[w]]
    PROVE  JobInv(w)'
<1>1. \A k \in Keys : (Pending(w, k)' <=> Pending(w, k)) /\ (Half(w, k)' <=> Half(w, k))
  BY DEF Pending, Half
<1>2. \A k \in Keys : Half(w, k) => Pending(w, k)
  BY DEF Half
<1> QED
  BY <1>1, <1>2 DEF JobInv

(* A source and its wrapper change only at keys that the updater owns.     *)
LEMMA OtherJobs ==
    ASSUME TypeInv, AllJobs, AloneInv, DisjointKeys, NEW u \in Updaters, Active(u), UpFrame(u),
           src' \in [Levels -> MaybeVals],
           \A l \in Levels, k \in Keys : src'[l][k] # src[l][k] \/ wrap'[l][k] # wrap[l][k] =>
               l = LevelOf[u] /\ k \in Owns[u] /\ k \in Held(l),
           JobInv(u)'
    PROVE  AllJobs'
<1> SUFFICES ASSUME NEW w \in Updaters, w # u PROVE JobInv(w)'
  BY DEF AllJobs
<1>1. JobInv(w) /\ up'[w] = up[w] /\ LevelOf[w] \in Levels
  BY HeldFacts DEF AllJobs, UpFrame
<1>2. ASSUME NEW k \in Keys, Pending(w, k)
      PROVE  src'[LevelOf[w]][k] = src[LevelOf[w]][k] /\ wrap'[LevelOf[w]][k] = wrap[LevelOf[w]][k]
  BY <1>1, <1>2, Owner
<1>3. ASSUME up[w].op \in {"sync", "sweep"} PROVE src'[LevelOf[w]] = src[LevelOf[w]]
  <2>1. up[w].pc # "idle" /\ Held(LevelOf[w]) \subseteq Owns[w]
    BY <1>1, <1>3 DEF JobInv
  <2>2. Owns[u] \cap Owns[w] = {}
    BY <2>1, Apart
  <2>3. \A k \in Keys : src'[LevelOf[w]][k] = src[LevelOf[w]][k]
    BY <1>1, <2>1, <2>2
  <2> QED
    BY <1>1, <2>3 DEF TypeInv, MaybeVals
<1> QED
  BY <1>1, <1>2, <1>3, JobFrame

LEMMA AloneFrame ==
    ASSUME AloneInv, \A w \in Updaters : up'[w].pc # "idle" => up[w].pc # "idle"
    PROVE  AloneInv'
BY DEF AloneInv

LEMMA AloneBegin ==
    ASSUME AloneInv, NEW u \in Updaters, MayBegin(u), UpFrame(u)
    PROVE  AloneInv'
BY DEF AloneInv, MayBegin, UpFrame

LEMMA SweepFrame ==
    ASSUME TypeInv, AllJobs, AloneInv, DisjointKeys, NEW u \in Updaters, Active(u), UpFrame(u),
           up'[u].op = "sweep" /\ u \in Exclusive =>
               /\ \A k \in up'[u].todo : cache'[k] # None
               /\ up'[u].pc = "fallback" => up'[u].key \notin up'[u].todo
    PROVE  SweepInv'
<1> SUFFICES ASSUME NEW w \in Exclusive, up'[w].op = "sweep", w # u PROVE FALSE
  BY DEF SweepInv
<1>1. w \in Updaters /\ up[w].op = "sweep"
  BY UpdatersAssumption DEF UpFrame
<1>2. up[w].pc # "idle"
  BY <1>1 DEF AllJobs, JobInv
<1> QED
  BY <1>1, <1>2, Apart

LEMMA HandFrame ==
    ASSUME TypeInv, AllJobs, AloneInv, HandInv, DisjointKeys, NEW u \in Updaters, Active(u), UpFrame(u),
           start.raced \subseteq start'.raced,
           \A j \in Keys : cache'[j] # cache[j] => j \in Owns[u],
           up'[u].pc \in {"put", "fallback"} /\ up'[u].key \notin start'.raced =>
               /\ up'[u].node = cache'[up'[u].key]
               /\ up'[u].pc = "put" => UpdateApplies(up'[u].node, LevelOf[u])
               /\ up'[u].pc = "fallback" => up'[u].node # None /\ up'[u].node[1] = LevelOf[u]
    PROVE  HandInv'
<1> SUFFICES ASSUME NEW w \in Updaters, up'[w].pc \in {"put", "fallback"}, up'[w].key \notin start'.raced, w # u
             PROVE  /\ up'[w].node = cache'[up'[w].key]
                    /\ up'[w].pc = "put" => UpdateApplies(up'[w].node, LevelOf[w])
                    /\ up'[w].pc = "fallback" => up'[w].node # None /\ up'[w].node[1] = LevelOf[w]
  BY DEF HandInv, UpdateApplies
<1>1. up'[w] = up[w] /\ up[w].key \in Keys /\ Pending(w, up[w].key)
  BY DEF UpFrame, TypeInv, UpType, Pending
<1>2. cache'[up[w].key] = cache[up[w].key]
  BY <1>1, Owner
<1> QED
  BY <1>1, <1>2 DEF HandInv

LEMMA RacedFrame ==
    ASSUME RacedInv, NEW u \in Updaters, UpFrame(u), start'.pc = start.pc, start.raced \subseteq start'.raced,
           start.pc # "done" =>
               /\ \A k \in Keys : Pending(u, k)' => k \in start'.raced
               /\ up'[u].pc = "load" \/ up'[u].op \in {"sync", "sweep"} => Held(LevelOf[u]) \subseteq start'.raced
    PROVE  RacedInv'
<1> SUFFICES ASSUME start.pc # "done", NEW w \in Updaters, w # u
             PROVE  /\ \A k \in Keys : Pending(w, k)' => k \in start'.raced
                    /\ up'[w].pc = "load" \/ up'[w].op \in {"sync", "sweep"} => Held(LevelOf[w]) \subseteq start'.raced
  BY DEF RacedInv
<1>1. up'[w] = up[w]
  BY DEF UpFrame
<1> QED
  BY <1>1, PendingKept DEF RacedInv

LEMMA SyncFrame ==
    ASSUME TypeInv, SyncInv, SameStart({}),
           start.pc # "done" => \A k \in Keys \ start'.raced :
               /\ cache'[k] = cache[k]
               /\ \A l \in Levels : src'[l][k] = src[l][k] /\ wrap'[l][k] = wrap[l][k]
    PROVE  SyncInv'
<1>1. \A k \in Keys : Unread(k)' = Unread(k)
  BY DEF Unread, SameStart
<1>2. start.level \in Levels
  BY DEF TypeInv, StartType
<1> QED
  BY <1>1, <1>2 DEF SyncInv, SameStart

LEMMA SyncSame ==
    ASSUME TypeInv, SyncInv, start' = start,
           start.pc # "done" => \A k \in Keys \ start.raced :
               /\ cache'[k] = cache[k]
               /\ \A l \in Levels : src'[l][k] = src[l][k] /\ wrap'[l][k] = wrap[l][k]
    PROVE  SyncInv'
BY SyncFrame DEF SameStart

LEMMA BusyFacts ==
    ASSUME NEW k \in Keys
    PROVE  /\ \A m : m \in Busy(k) <=> \E u \in Updaters : Pending(u, k) /\ m = LevelOf[u]
           /\ \A m : m \in Halves(k) <=> \E u \in Updaters : Half(u, k) /\ m = LevelOf[u]
BY DEF Busy, Halves

LEMMA BusyFactsNext ==
    ASSUME NEW k \in Keys
    PROVE  /\ \A m : m \in Busy(k)' <=> \E u \in Updaters : Pending(u, k)' /\ m = LevelOf[u]
           /\ \A m : m \in Halves(k)' <=> \E u \in Updaters : Half(u, k)' /\ m = LevelOf[u]
BY DEF Busy, Halves

(* A key stays merged while more of it gets in hand.                       *)
LEMMA MergedGrow ==
    ASSUME TypeInv, NEW u \in Updaters, UpFrame(u), NEW k \in Keys,
           Agree(k, Busy(k) \cup Unread(k), Halves(k)),
           \A m \in Levels : src'[m][k] # src[m][k] => m = LevelOf[u] /\ Pending(u, k)',
           \A m \in Levels : wrap'[m][k] # wrap[m][k] => m = LevelOf[u] /\ Half(u, k)',
           cache'[k] = cache[k], Pending(u, k) => Pending(u, k)', Half(u, k) => Half(u, k)',
           Unread(k) \subseteq Unread(k)'
    PROVE  Agree(k, Busy(k) \cup Unread(k), Halves(k))'
<1>1. \A w \in Updaters : (Pending(w, k) => Pending(w, k)') /\ (Half(w, k) => Half(w, k)')
  BY PendingKept
<1>2. Busy(k) \subseteq Busy(k)' /\ Halves(k) \subseteq Halves(k)'
  BY <1>1, BusyFacts, BusyFactsNext
<1>3. Pending(u, k)' => LevelOf[u] \in Busy(k)'
  BY BusyFactsNext
<1>4. Half(u, k)' => LevelOf[u] \in Halves(k)'
  BY BusyFactsNext
<1>5. ASSUME NEW m \in Levels \ (Busy(k)' \cup Unread(k)'), src'[m][k] # None
      PROVE  wrap'[m][k] = src'[m][k] /\ cache'[k] # None /\ cache'[k][1] >= m
  <2>1. src'[m][k] = src[m][k]
    BY <1>3, <1>5
  <2>2. wrap'[m][k] = wrap[m][k]
    <3>1. Half(u, k)' => Pending(u, k)'
      BY DEF Half
    <3> QED
      BY <1>3, <1>5, <3>1
  <2>3. m \in Levels \ (Busy(k) \cup Unread(k))
    BY <1>2, <1>5
  <2> QED
    BY <2>1, <2>2, <2>3, <1>5 DEF Agree
<1>6. ASSUME cache'[k] # None, cache'[k][1] \notin Halves(k)'
      PROVE  wrap'[cache'[k][1]][k] = cache'[k][2]
  <2>1. cache[k] # None /\ cache[k][1] \notin Halves(k) /\ cache[k][1] \in Levels
    BY <1>2, <1>6, NodeFacts DEF TypeInv
  <2>2. wrap'[cache[k][1]][k] = wrap[cache[k][1]][k]
    BY <1>4, <1>6, <2>1
  <2> QED
    BY <2>1, <2>2 DEF Agree
<1> QED
  BY <1>5, <1>6 DEF Agree

(* A key in hand that did not change while NewConfig ran.                  *)
LEMMA OneBusy ==
    ASSUME TypeInv, AllJobs, AloneInv, RacedInv, DisjointKeys, NEW u \in Updaters, NEW k \in Keys \ start.raced,
           Pending(u, k)
    PROVE  /\ start.pc = "done" /\ Unread(k) = {}
           /\ \A m : m \in Busy(k) <=> m = LevelOf[u]
           /\ \A m : m \in Halves(k) <=> Half(u, k) /\ m = LevelOf[u]
<1>1. start.pc = "done"
  BY DEF RacedInv
<1>2. Unread(k) = {}
  BY <1>1 DEF Unread
<1>3. k \in Owns[u] /\ Active(u)
  BY PendingFacts DEF AllJobs, Active
<1>4. \A w \in Updaters : Pending(w, k) => w = u
  BY <1>3, Owner
<1>5. \A w \in Updaters : Half(w, k) => w = u
  BY <1>4 DEF Half
<1> QED
  BY <1>1, <1>2, <1>4, <1>5, BusyFacts

(* An updater leaves a key alone: its source does not hold it or is behind *)
(* the merged cache already.                                               *)
LEMMA MergedDrop ==
    ASSUME TypeInv, AllJobs, AloneInv, RacedInv, DisjointKeys, NEW u \in Updaters, NEW k \in Keys \ start.raced,
           Agree(k, Busy(k) \cup Unread(k), Halves(k)), Pending(u, k),
           \A m \in Levels : src'[m][k] = src[m][k] /\ wrap'[m][k] = wrap[m][k],
           cache'[k] = cache[k],
           LET l == LevelOf[u] IN
               /\ src[l][k] # None => wrap[l][k] = src[l][k] /\ cache[k] # None /\ cache[k][1] >= l
               /\ Half(u, k) /\ cache[k] # None => cache[k][1] # l
    PROVE  Agree(k, Busy(k) \cup Unread(k), Halves(k))'
<1>1. /\ \A m : m \in Busy(k) <=> m = LevelOf[u]
      /\ \A m : m \in Halves(k) <=> Half(u, k) /\ m = LevelOf[u]
      /\ Unread(k) = {}
  BY OneBusy
<1>2. \A m \in Levels : src[m][k] # None => wrap[m][k] = src[m][k] /\ cache[k] # None /\ cache[k][1] >= m
  BY <1>1 DEF Agree
<1>3. cache[k] # None => wrap[cache[k][1]][k] = cache[k][2]
  BY <1>1 DEF Agree
<1>4. cache[k] # None => cache[k][1] \in Levels
  BY NodeFacts DEF TypeInv
<1> QED
  BY <1>2, <1>3, <1>4 DEF Agree

LEMMA StartSame ==
    ASSUME SameStart({}), NEW k \in Keys
    PROVE  Unread(k)' = Unread(k)
BY DEF SameStart, Unread

-----------------------------------------------------------------------------
(* The steps that change a source *)

(* Common to Put, Del and Replace: keys is what the step changes.          *)
LEMMA BeginKeeps ==
    ASSUME IndInv, DisjointKeys, NEW u \in Updaters, MayBegin(u), UpFrame(u),
           NEW keys \in SUBSET (Owns[u] \cap Held(LevelOf[u])), NoteRace(keys),
           src' \in [Levels -> MaybeVals],
           \A l \in Levels, k \in Keys : src'[l][k] # src[l][k] => l = LevelOf[u] /\ k \in keys,
           \A k \in Keys : src'[LevelOf[u]][k] # None => src'[LevelOf[u]][k] \in Written[LevelOf[u]][k],
           wrap' = wrap, cache' = cache,
           up'[u].pc \in {"load", "wrap"}, up'[u].op \notin {"sync", "sweep"},
           up'[u].pc = "load" => keys = Held(LevelOf[u]),
           \A k \in Keys : Pending(u, k)' <=> k \in keys,
           JobInv(u)'
    PROVE  IndInv'
<1>a. TypeInv /\ AllJobs /\ AloneInv /\ SweepInv /\ HandInv /\ RacedInv /\ SyncInv /\ MergedInv
  BY DEF IndInv
<1>b. LevelOf[u] \in Levels /\ keys \in SUBSET Keys /\ Active(u) /\ up[u].pc = "idle" /\ JobInv(u)
  BY <1>a, HeldFacts DEF Active, MayBegin, AllJobs
<1>c. start' \in StartType /\ SameStart(keys)
  BY <1>a, <1>b, NoteRaceEffect
<1>d. SameStart({}) /\ start'.pc = start.pc /\ start.raced \subseteq start'.raced
  BY <1>c DEF SameStart
<1>e. \A k \in Keys : ~Half(u, k)'
  BY DEF Half
<1>f. \A k \in Keys : ~Pending(u, k) /\ ~Half(u, k)
  BY <1>b, PendingFacts DEF Half
<1>1. TypeInv'
  <2>1. \A l \in Levels, k \in Keys : src'[l][k] # None => src'[l][k] \in Written[l][k]
    BY <1>a, <1>b DEF TypeInv
  <2>2. \A k \in Keys : start'.pc = "put" /\ start'.val[k] # None => start'.val[k] \in Written[start'.level][k]
    BY <1>a, <1>c DEF TypeInv, SameStart
  <2> QED
    BY <1>a, <1>c, <2>1, <2>2 DEF TypeInv, UpFrame
<1>2. AllJobs'
  BY <1>a, <1>b, OtherJobs
<1>3. AloneInv'
  BY <1>a, AloneBegin
<1>4. SweepInv'
  BY <1>a, <1>b, SweepFrame
<1>5. HandInv'
  BY <1>a, <1>b, <1>d, HandFrame
<1>6. RacedInv'
  <2>1. start.pc # "done" => keys \subseteq start'.raced
    BY <1>c DEF SameStart
  <2> QED
    BY <1>a, <1>d, <2>1, RacedFrame
<1>7. SyncInv'
  <2>1. start.pc # "done" => \A k \in Keys \ start'.raced : \A l \in Levels : src'[l][k] = src[l][k]
    BY <1>c DEF SameStart
  <2> QED
    BY <1>a, <1>d, <2>1, SyncFrame
<1>8. MergedInv'
  <2> SUFFICES ASSUME NEW k \in Keys \ start'.raced PROVE Agree(k, Busy(k) \cup Unread(k), Halves(k))'
    BY DEF MergedInv
  <2>1. Agree(k, Busy(k) \cup Unread(k), Halves(k))
    BY <1>a, <1>d DEF MergedInv
  <2>2. Unread(k)' = Unread(k)
    BY <1>d, StartSame
  <2> QED
    BY <1>a, <1>f, <2>1, <2>2, MergedGrow
<1> QED
  BY <1>1, <1>2, <1>3, <1>4, <1>5, <1>6, <1>7, <1>8 DEF IndInv

LEMMA PutKeeps ==
    ASSUME IndInv, DisjointKeys, NEW u \in Updaters, NEW k \in Keys, NEW v \in Vals, Put(u, k, v)
    PROVE  IndInv'
<1>a. TypeInv
  BY DEF IndInv
<1>b. /\ UpFrame(u)
      /\ up'[u].pc = "wrap" /\ up'[u].op = "update" /\ up'[u].todo = {k} /\ up'[u].upd = NoVals
      /\ up'[u].val = [NoVals EXCEPT ![k] = v]
      /\ src' \in [Levels -> MaybeVals] /\ src'[LevelOf[u]][k] = v
      /\ \A l \in Levels, j \in Keys : l # LevelOf[u] \/ j # k => src'[l][j] = src[l][j]
      /\ v \in Written[LevelOf[u]][k] /\ k \in Owns[u] /\ k \in Held(LevelOf[u])
  BY <1>a, PutEffect
<1>c. MayBegin(u) /\ NoteRace({k}) /\ wrap' = wrap /\ cache' = cache
  BY DEF Put
<1>d. LevelOf[u] \in Levels /\ v # None
  BY HeldFacts, NoneAssumption
<1>e. \A j \in Keys : up'[u].val[j] = IF j = k THEN v ELSE None
  BY <1>b DEF NoVals
<1>f. \A j \in Keys : Pending(u, j)' <=> j = k
  BY <1>b DEF Pending
<1>g. up'[u].todo = Present(up'[u].val)
  BY <1>b, <1>d, <1>e DEF Present
<1>1. JobInv(u)'
  <2>1. \A j \in Keys : ~Half(u, j)'
    BY <1>b DEF Half
  <2> QED
    BY <1>b, <1>d, <1>e, <1>f, <1>g, <2>1 DEF JobInv
<1>2. {k} \in SUBSET (Owns[u] \cap Held(LevelOf[u]))
  BY <1>b
<1>3. \A l \in Levels, j \in Keys : src'[l][j] # src[l][j] => l = LevelOf[u] /\ j \in {k}
  BY <1>b
<1>4. \A j \in Keys : src'[LevelOf[u]][j] # None => src'[LevelOf[u]][j] \in Written[LevelOf[u]][j]
  BY <1>a, <1>b, <1>d DEF TypeInv
<1>5. \A j \in Keys : Pending(u, j)' <=> j \in {k}
  BY <1>f
<1> QED
  BY <1>b, <1>c, <1>1, <1>2, <1>3, <1>4, <1>5, BeginKeeps

LEMMA DelKeeps ==
    ASSUME IndInv, DisjointKeys, NEW u \in Updaters, NEW k \in Keys, Del(u, k)
    PROVE  IndInv'
<1>a. TypeInv
  BY DEF IndInv
<1>b. /\ UpFrame(u)
      /\ up'[u].pc = "wrap" /\ up'[u].op = "delete" /\ up'[u].todo = {k} /\ up'[u].upd = NoVals
      /\ src' \in [Levels -> MaybeVals] /\ src'[LevelOf[u]][k] = None
      /\ \A l \in Levels, j \in Keys : l # LevelOf[u] \/ j # k => src'[l][j] = src[l][j]
      /\ k \in Owns[u] /\ k \in Held(LevelOf[u])
  BY <1>a, DelEffect
<1>c. MayBegin(u) /\ NoteRace({k}) /\ wrap' = wrap /\ cache' = cache
  BY DEF Del
<1>d. LevelOf[u] \in Levels
  BY HeldFacts
<1>f. \A j \in Keys : Pending(u, j)' <=> j = k
  BY <1>b DEF Pending
<1>1. JobInv(u)'
  BY <1>b, <1>d, <1>f DEF JobInv
<1>2. {k} \in SUBSET (Owns[u] \cap Held(LevelOf[u]))
  BY <1>b
<1>3. \A l \in Levels, j \in Keys : src'[l][j] # src[l][j] => l = LevelOf[u] /\ j \in {k}
  BY <1>b
<1>4. \A j \in Keys : src'[LevelOf[u]][j] # None => src'[LevelOf[u]][j] \in Written[LevelOf[u]][j]
  BY <1>a, <1>b, <1>d DEF TypeInv
<1>5. \A j \in Keys : Pending(u, j)' <=> j \in {k}
  BY <1>f
<1> QED
  BY <1>b, <1>c, <1>1, <1>2, <1>3, <1>4, <1>5, BeginKeeps

LEMMA ReplaceKeeps ==
    ASSUME IndInv, DisjointKeys, NEW u \in Updaters, NEW val \in Contents(LevelOf[u]), Replace(u, val)
    PROVE  IndInv'
<1>a. TypeInv
  BY DEF IndInv
<1>b. /\ UpFrame(u)
      /\ up'[u].pc = "load" /\ up'[u].op = "none" /\ up'[u].todo = {} /\ up'[u].upd = NoVals
      /\ src' \in [Levels -> MaybeVals]
      /\ \A j \in Keys : src'[LevelOf[u]][j] # None => src'[LevelOf[u]][j] \in Written[LevelOf[u]][j]
      /\ \A l \in Levels, j \in Keys : l # LevelOf[u] \/ j \notin Held(LevelOf[u]) => src'[l][j] = src[l][j]
      /\ Held(LevelOf[u]) \subseteq Owns[u]
  BY <1>a, ReplaceEffect
<1>c. MayBegin(u) /\ NoteRace(Held(LevelOf[u])) /\ wrap' = wrap /\ cache' = cache
  BY DEF Replace
<1>f. \A j \in Keys : Pending(u, j)' <=> j \in Held(LevelOf[u])
  BY <1>b DEF Pending
<1>1. JobInv(u)'
  BY <1>b, <1>f DEF JobInv
<1>2. Held(LevelOf[u]) \in SUBSET (Owns[u] \cap Held(LevelOf[u]))
  BY <1>b
<1>3. \A l \in Levels, j \in Keys : src'[l][j] # src[l][j] => l = LevelOf[u] /\ j \in Held(LevelOf[u])
  BY <1>b
<1> QED
  BY <1>b, <1>c, <1>f, <1>1, <1>2, <1>3, BeginKeeps

-----------------------------------------------------------------------------
(* The steps between a change of a source and its notifications *)

(* Common to them: wrapper and merged cache change at keys in hand.        *)
LEMMA StepKeeps ==
    ASSUME IndInv, DisjointKeys, NEW u \in Updaters, up[u].pc # "idle", UpFrame(u), start' = start, src' = src,
           wrap' \in [Levels -> MaybeVals], cache' \in [Keys -> Nodes],
           \A l \in Levels, k \in Keys : wrap'[l][k] # wrap[l][k] =>
               /\ l = LevelOf[u] /\ Pending(u, k)
               /\ wrap'[l][k] # None => wrap'[l][k] \in Written[l][k],
           \A k \in Keys : cache'[k] # cache[k] =>
               /\ Pending(u, k)
               /\ cache'[k] # None => k \in Held(cache'[k][1]),
           JobInv(u)',
           up'[u].op = "sweep" /\ u \in Exclusive =>
               /\ \A k \in up'[u].todo : cache'[k] # None
               /\ up'[u].pc = "fallback" => up'[u].key \notin up'[u].todo,
           up'[u].pc \in {"put", "fallback"} /\ up'[u].key \notin start.raced =>
               /\ up'[u].node = cache'[up'[u].key]
               /\ up'[u].pc = "put" => UpdateApplies(up'[u].node, LevelOf[u])
               /\ up'[u].pc = "fallback" => up'[u].node # None /\ up'[u].node[1] = LevelOf[u],
           start.pc # "done" => \A k \in Keys : Pending(u, k)' => Pending(u, k) \/ k \in start.raced,
           up'[u].pc = "load" \/ up'[u].op \in {"sync", "sweep"} => up[u].pc = "load" \/ up[u].op \in {"sync", "sweep"},
           \A k \in Keys \ start.raced : Agree(k, Busy(k) \cup Unread(k), Halves(k))'
    PROVE  IndInv'
<1>a. TypeInv /\ AllJobs /\ AloneInv /\ SweepInv /\ HandInv /\ RacedInv /\ SyncInv /\ MergedInv
  BY DEF IndInv
<1>b. Active(u) /\ JobInv(u)
  BY <1>a DEF Active, AllJobs
<1>c. \A k \in Keys : Pending(u, k) => k \in Owns[u] /\ k \in Held(LevelOf[u])
  BY <1>b, PendingFacts
<1>d. start.pc # "done" => \A k \in Keys : Pending(u, k) => k \in start.raced
  BY <1>a DEF RacedInv
<1>1. TypeInv'
  <2>1. \A l \in Levels, k \in Keys : wrap'[l][k] # None => wrap'[l][k] \in Written[l][k]
    BY <1>a DEF TypeInv
  <2>2. \A k \in Keys : cache'[k] # None => k \in Held(cache'[k][1])
    BY <1>a DEF TypeInv
  <2> QED
    BY <1>a, <2>1, <2>2 DEF TypeInv, UpFrame
<1>2. AllJobs'
  <2>1. \A l \in Levels, k \in Keys : src'[l][k] # src[l][k] \/ wrap'[l][k] # wrap[l][k] =>
               l = LevelOf[u] /\ k \in Owns[u] /\ k \in Held(l)
    BY <1>c
  <2>2. src' \in [Levels -> MaybeVals]
    BY <1>a DEF TypeInv
  <2> QED
    BY <1>a, <1>b, <2>1, <2>2, OtherJobs
<1>3. AloneInv'
  BY <1>a, AloneFrame DEF UpFrame
<1>4. SweepInv'
  BY <1>a, <1>b, SweepFrame
<1>5. HandInv'
  BY <1>a, <1>b, <1>c, HandFrame
<1>6. RacedInv'
  <2>1. start.pc # "done" => \A k \in Keys : Pending(u, k)' => k \in start'.raced
    BY <1>d
  <2>2. start.pc # "done" /\ (up'[u].pc = "load" \/ up'[u].op \in {"sync", "sweep"}) =>
            Held(LevelOf[u]) \subseteq start'.raced
    BY <1>a DEF RacedInv
  <2> QED
    BY <1>a, <2>1, <2>2, RacedFrame
<1>7. SyncInv'
  <2>1. start.pc # "done" => \A k \in Keys \ start.raced : cache'[k] = cache[k]
    BY <1>d
  <2>2. start.pc # "done" => \A k \in Keys \ start.raced : \A l \in Levels : wrap'[l][k] = wrap[l][k]
    BY <1>d
  <2> QED
    BY <1>a, <2>1, <2>2, SyncSame
<1>8. MergedInv'
  BY DEF MergedInv
<1> QED
  BY <1>1, <1>2, <1>3, <1>4, <1>5, <1>6, <1>7, <1>8 DEF IndInv

LEMMA LoadKeeps ==
    ASSUME IndInv, DisjointKeys, NEW u \in Updaters, Load(u)
    PROVE  IndInv'
<1> DEFINE l == LevelOf[u]
<1>a. TypeInv /\ AllJobs /\ AloneInv /\ RacedInv /\ MergedInv /\ JobInv(u) /\ l \in Levels
  BY HeldFacts DEF IndInv, AllJobs
<1>b. /\ UpFrame(u) /\ up[u].pc = "load" /\ up'[u].upd = NoVals
      /\ \/ Present(src[l]) = {} /\ up'[u] = Idle
         \/ /\ up'[u].pc = "wrap" /\ up'[u].op = "sync" /\ up'[u].todo = Present(src[l])
            /\ up'[u].val = src[l]
  BY <1>a, LoadEffect
<1>c. src' = src /\ wrap' = wrap /\ cache' = cache /\ start' = start
  BY DEF Load
<1>d. up'[u].pc \in {"idle", "wrap"} /\ (up'[u].pc = "idle" <=> up'[u].op = "none") /\ up'[u].op \in {"none", "sync"}
      /\ up'[u].todo = Present(src[l]) /\ (up'[u].pc = "idle" => Present(src[l]) = {})
      /\ (up'[u].op = "sync" => up'[u].val = src[l])
  BY <1>b, IdleFacts
<1>e. \A k \in Keys : (Pending(u, k)' <=> src[l][k] # None) /\ ~Half(u, k)'
  <2>1. \A k \in Keys : Pending(u, k)' <=> k \in Present(src[l])
    BY <1>d DEF Pending
  <2> QED
    BY <1>d, <2>1 DEF Half, Present
<1>f. \A k \in Keys : (Pending(u, k) <=> k \in Held(l)) /\ ~Half(u, k)
  BY <1>a, <1>b DEF Pending, Half, JobInv
<1>g. \A k \in Keys : src[l][k] # None => k \in Held(l)
  BY <1>a DEF TypeInv, Held
<1>h. Held(l) \subseteq Owns[u] /\ up[u].op = "none"
  BY <1>a, <1>b DEF JobInv
<1>i. up'[u].op = "sync" => up'[u].todo = Present(up'[u].val)
  BY <1>d
<1>1. JobInv(u)'
  BY <1>b, <1>c, <1>d, <1>e, <1>g, <1>h, <1>i DEF JobInv
<1>2. ASSUME NEW k \in Keys \ start.raced PROVE Agree(k, Busy(k) \cup Unread(k), Halves(k))'
  <2>1. Agree(k, Busy(k) \cup Unread(k), Halves(k))
    BY <1>a DEF MergedInv
  <2>2. CASE Pending(u, k)'
    <3>1. Unread(k)' = Unread(k)
      BY <1>c DEF Unread
    <3> QED
      BY <1>a, <1>b, <1>c, <1>f, <2>1, <2>2, <3>1, MergedGrow
  <2>3. CASE ~Pending(u, k)' /\ Pending(u, k)
    BY <1>a, <1>c, <1>e, <1>f, <2>1, <2>3, MergedDrop
  <2>4. CASE ~Pending(u, k)' /\ ~Pending(u, k)
    <3>1. Unread(k)' = Unread(k)
      BY <1>c DEF Unread
    <3> QED
      BY <1>a, <1>b, <1>c, <1>f, <2>1, <2>4, <3>1, MergedGrow
  <2> QED
    BY <2>2, <2>3, <2>4
<1>3. wrap' \in [Levels -> MaybeVals] /\ cache' \in [Keys -> Nodes]
  BY <1>a, <1>c DEF TypeInv
<1>4. up[u].pc # "idle" /\ up'[u].op # "sweep" /\ up'[u].pc \notin {"put", "fallback"}
      /\ \A k \in Keys : Pending(u, k)' => Pending(u, k)
  BY <1>b, <1>d, <1>e, <1>f, <1>g
<1> QED
  BY <1>b, <1>c, <1>1, <1>2, <1>3, <1>4, StepKeeps

LEMMA WrapKeeps ==
    ASSUME IndInv, DisjointKeys, NEW u \in Updaters, Wrap(u)
    PROVE  IndInv'
<1> DEFINE l == LevelOf[u]
<1>a. TypeInv /\ AllJobs /\ AloneInv /\ RacedInv /\ MergedInv /\ JobInv(u) /\ l \in Levels
  BY HeldFacts DEF IndInv, AllJobs
<1>b. /\ UpFrame(u) /\ up[u].pc = "wrap"
      /\ up'[u].pc = "next" /\ up'[u].op = up[u].op /\ up'[u].todo = up[u].todo
      /\ up'[u].val = up[u].val /\ up'[u].upd = up[u].upd
      /\ wrap' \in [Levels -> MaybeVals]
      /\ \A m \in Levels : m # l => wrap'[m] = wrap[m]
      /\ \A k \in Keys : up[u].op = "delete" => wrap'[l][k] = IF k \in up[u].todo THEN None ELSE wrap[l][k]
      /\ \A k \in Keys : up[u].op # "delete" =>
           wrap'[l][k] = IF up[u].val[k] # None THEN up[u].val[k] ELSE wrap[l][k]
  BY <1>a, WrapEffect
<1> HIDE DEF l
<1>c. src' = src /\ cache' = cache /\ start' = start
  BY DEF Wrap
<1>d. up[u].op \in {"update", "delete", "sync"} /\ (up[u].op # "delete" => up[u].todo = Present(up[u].val))
  <2>1. up[u].op \in {"none", "update", "delete", "sync", "sweep"}
    BY <1>a DEF TypeInv, UpType
  <2> QED
    BY <1>a, <1>b, <2>1 DEF JobInv
<1>e. \A k \in Keys : (Pending(u, k)' <=> k \in up[u].todo) /\ (Half(u, k)' <=> k \in up[u].todo)
  BY <1>b, <1>d DEF Pending, Half
<1>f. \A k \in Keys : (Pending(u, k) <=> k \in up[u].todo) /\ ~Half(u, k)
  BY <1>b, <1>d DEF Pending, Half
<1>g. \A k \in Keys : up[u].op # "delete" => (k \in up[u].todo <=> up[u].val[k] # None)
  BY <1>d DEF Present
<1>1. JobInv(u)'
  <2>1. up[u].op \in {"update", "sync"} => \A k \in Keys : k \in up[u].todo => wrap'[l][k] = up[u].val[k]
    BY <1>b, <1>g
  <2> QED
    BY <1>a, <1>b, <1>c, <1>d, <1>e, <1>f, <2>1 DEF JobInv, l
<1>2. \A m \in Levels, k \in Keys : wrap'[m][k] # wrap[m][k] => m = l /\ k \in up[u].todo
  BY <1>a, <1>b, <1>g
<1>3. ASSUME NEW m \in Levels, NEW k \in Keys, wrap'[m][k] # wrap[m][k], wrap'[m][k] # None
      PROVE  wrap'[m][k] \in Written[m][k]
  <2>1. m = l /\ k \in up[u].todo /\ Pending(u, k)
    BY <1>2, <1>3, <1>f
  <2>2. up[u].op # "delete" /\ wrap'[l][k] = up[u].val[k]
    BY <1>3, <2>1, <1>b
  <2>3. up[u].val[k] = src[l][k]
    BY <1>a, <1>d, <2>1, <2>2 DEF JobInv, l
  <2> QED
    BY <1>a, <1>3, <2>1, <2>2, <2>3 DEF TypeInv
<1>4. ASSUME NEW k \in Keys \ start.raced PROVE Agree(k, Busy(k) \cup Unread(k), Halves(k))'
  <2>1. Agree(k, Busy(k) \cup Unread(k), Halves(k))
    BY <1>a DEF MergedInv
  <2>2. Unread(k)' = Unread(k)
    BY <1>c DEF Unread
  <2> QED
    BY <1>a, <1>b, <1>c, <1>e, <1>f, <1>2, <2>1, <2>2, MergedGrow DEF l
<1>5. cache' \in [Keys -> Nodes]
  BY <1>a, <1>c DEF TypeInv
<1>6. /\ up[u].pc # "idle" /\ up'[u].op # "sweep" /\ up'[u].pc \notin {"put", "fallback", "load"}
      /\ \A k \in Keys : Pending(u, k)' => Pending(u, k)
      /\ up'[u].op \in {"sync", "sweep"} => up[u].op \in {"sync", "sweep"}
      /\ \A m \in Levels, k \in Keys : wrap'[m][k] # wrap[m][k] => m = LevelOf[u] /\ Pending(u, k)
  BY <1>b, <1>d, <1>e, <1>f, <1>2 DEF l
<1> QED
  BY <1>b, <1>c, <1>1, <1>3, <1>4, <1>5, <1>6, StepKeeps

LEMMA ReadForUpdateKeeps ==
    ASSUME IndInv, DisjointKeys, NEW u \in Updaters, NEW k \in Keys, ReadForUpdate(u, k)
    PROVE  IndInv'
<1> DEFINE l == LevelOf[u]
<1>a. TypeInv /\ AllJobs /\ AloneInv /\ RacedInv /\ MergedInv /\ JobInv(u) /\ l \in Levels
  BY HeldFacts DEF IndInv, AllJobs
<1>b. /\ UpFrame(u) /\ up[u].pc = "next" /\ up[u].op \in {"update", "sync"} /\ k \in up[u].todo
      /\ up'[u].op = up[u].op /\ up'[u].todo = up[u].todo \ {k}
      /\ up'[u].val = up[u].val /\ up'[u].upd = up[u].upd
      /\ \/ UpdateApplies(cache[k], l) /\ up'[u].pc = "put" /\ up'[u].key = k /\ up'[u].node = cache[k]
         \/ ~UpdateApplies(cache[k], l) /\ up'[u].pc = "next"
  BY <1>a, ReadForUpdateEffect
<1>c. src' = src /\ wrap' = wrap /\ cache' = cache /\ start' = start
  BY DEF ReadForUpdate
<1>d. \A j \in Keys : (Pending(u, j) <=> j \in up[u].todo) /\ (Half(u, j) <=> j \in up[u].todo)
  BY <1>b DEF Pending, Half
<1>e. \A j \in Keys : /\ Pending(u, j)' <=> j \in up[u].todo /\ (j = k => up'[u].pc = "put")
                      /\ Half(u, j)' <=> Pending(u, j)'
  BY <1>b DEF Pending, Half
<1>1. JobInv(u)'
  BY <1>a, <1>b, <1>c, <1>d, <1>e DEF JobInv
<1>2. ASSUME NEW j \in Keys \ start.raced PROVE Agree(j, Busy(j) \cup Unread(j), Halves(j))'
  <2>1. Agree(j, Busy(j) \cup Unread(j), Halves(j)) /\ Unread(j)' = Unread(j)
    BY <1>a, <1>c DEF MergedInv, Unread
  <2>2. CASE j # k \/ up'[u].pc = "put"
    BY <1>a, <1>b, <1>c, <1>d, <1>e, <2>1, <2>2, MergedGrow
  <2>3. CASE j = k /\ up'[u].pc # "put"
    <3>1. cache[k] # None /\ cache[k][1] > l
      <4>1. ~UpdateApplies(cache[k], l)
        BY <1>b, <2>3
      <4>2. cache[k] # None => cache[k][1] \in Levels
        BY <1>a, NodeFacts DEF TypeInv
      <4>3. cache[k] # None /\ ~(cache[k][1] <= l)
        BY <4>1 DEF UpdateApplies
      <4>4. cache[k][1] \in Nat /\ l \in Nat
        BY <1>a, <4>2, <4>3, LevelFacts
      <4> QED
        BY <4>3, <4>4
    <3>2. cache[k][1] \in Nat /\ l \in Nat
      BY <1>a, <3>1, NodeFacts, LevelFacts DEF TypeInv
    <3>3. wrap[l][k] = src[l][k]
      BY <1>a, <1>b, <1>d DEF JobInv
    <3> QED
      BY <1>a, <1>b, <1>c, <1>d, <2>1, <2>3, <3>1, <3>2, <3>3, MergedDrop
  <2> QED
    BY <2>2, <2>3
<1>3. wrap' \in [Levels -> MaybeVals] /\ cache' \in [Keys -> Nodes]
  BY <1>a, <1>c DEF TypeInv
<1>4. /\ up[u].pc # "idle" /\ up'[u].op # "sweep" /\ up'[u].pc \notin {"fallback", "load"}
      /\ \A j \in Keys : Pending(u, j)' => Pending(u, j)
      /\ up'[u].op \in {"sync", "sweep"} => up[u].op \in {"sync", "sweep"}
      /\ up'[u].pc = "put" => up'[u].node = cache'[up'[u].key] /\ UpdateApplies(up'[u].node, LevelOf[u])
  BY <1>b, <1>c, <1>d, <1>e
<1> QED
  BY <1>b, <1>c, <1>1, <1>2, <1>3, <1>4, StepKeeps

(* What an updater deletes is an entry of its own level.                   *)
LEMMA MineIsThere ==
    ASSUME IndInv, LowestAlone, NEW u \in Updaters, NEW k \in Keys, k \in up[u].todo, Mine(u, k)
    PROVE  cache[k] # None /\ cache[k][1] = LevelOf[u] /\ k \in Held(LevelOf[u])
<1>1. ASSUME cache[k] = None, up[u].op = "sweep", LevelOf[u] = 0 PROVE FALSE
  <2>1. Held(0) \subseteq Owns[u]
    BY <1>1 DEF IndInv, AllJobs, JobInv
  <2>2. u \in Exclusive
    BY <1>1, <2>1 DEF LowestAlone
  <2> QED
    BY <1>1, <2>2 DEF IndInv, SweepInv
<1>2. cache[k] # None /\ cache[k][1] = LevelOf[u]
  BY <1>1 DEF Mine
<1> QED
  BY <1>2 DEF IndInv, TypeInv

LEMMA ReadForDeleteKeeps ==
    ASSUME IndInv, DisjointKeys, LowestAlone, NEW u \in Updaters, NEW k \in Keys, ReadForDelete(u, k)
    PROVE  IndInv'
<1> DEFINE l == LevelOf[u]
<1>a. TypeInv /\ AllJobs /\ AloneInv /\ SweepInv /\ RacedInv /\ MergedInv /\ JobInv(u) /\ l \in Levels
  BY HeldFacts DEF IndInv, AllJobs
<1>b. /\ UpFrame(u) /\ up[u].pc = "next" /\ up[u].op \in {"delete", "sweep"} /\ k \in up[u].todo
      /\ up'[u].op = up[u].op /\ up'[u].todo = up[u].todo \ {k}
      /\ up'[u].val = up[u].val /\ up'[u].upd = up[u].upd
      /\ \/ Mine(u, k) /\ up'[u].pc = "fallback" /\ up'[u].key = k /\ up'[u].node = cache[k]
         \/ ~Mine(u, k) /\ up'[u].pc = "next"
  BY <1>a, ReadForDeleteEffect
<1>c. src' = src /\ wrap' = wrap /\ cache' = cache /\ start' = start
  BY DEF ReadForDelete
<1>d. \A j \in Keys : (Pending(u, j) <=> up[u].op = "delete" /\ j \in up[u].todo) /\ (Half(u, j) <=> Pending(u, j))
  BY <1>b DEF Pending, Half
<1>e. \A j \in Keys : /\ Pending(u, j)' <=> \/ j = k /\ up'[u].pc = "fallback"
                                            \/ j # k /\ up[u].op = "delete" /\ j \in up[u].todo
                      /\ Half(u, j)' <=> Pending(u, j)'
  BY <1>b DEF Pending, Half
<1>f. up'[u].pc = "fallback" => cache[k] # None /\ cache[k][1] = l /\ k \in Held(l)
  BY <1>b, MineIsThere
<1>g. k \in Held(l) => k \in Owns[u] /\ src[l][k] = None
  <2>1. CASE up[u].op = "delete"
    BY <1>a, <1>b, <1>d, <2>1 DEF JobInv
  <2>2. CASE up[u].op = "sweep"
    <3>1. Held(l) \subseteq Owns[u] /\ up[u].val = src[l] /\ up[u].todo \cap Present(up[u].val) = {}
      BY <1>a, <2>2 DEF JobInv
    <3> QED
      BY <1>b, <3>1 DEF Present
  <2> QED
    BY <1>b, <2>1, <2>2
<1>1. JobInv(u)'
  BY <1>a, <1>b, <1>c, <1>d, <1>e, <1>f, <1>g DEF JobInv
<1>2. ASSUME NEW j \in Keys \ start.raced PROVE Agree(j, Busy(j) \cup Unread(j), Halves(j))'
  <2>1. Agree(j, Busy(j) \cup Unread(j), Halves(j)) /\ Unread(j)' = Unread(j)
    BY <1>a, <1>c DEF MergedInv, Unread
  <2>2. CASE Pending(u, j) => Pending(u, j)'
    BY <1>a, <1>b, <1>c, <1>d, <1>e, <2>1, <2>2, MergedGrow
  <2>3. CASE Pending(u, j) /\ ~Pending(u, j)'
    <3>1. j = k /\ ~Mine(u, k)
      BY <1>b, <1>d, <1>e, <2>3
    <3>2. cache[k] = None \/ cache[k][1] # l
      BY <3>1 DEF Mine
    <3>3. src[l][k] = None
      BY <1>a, <1>b, <2>3, <3>1 DEF JobInv
    <3> QED
      BY <1>a, <1>c, <2>1, <2>3, <3>1, <3>2, <3>3, MergedDrop
  <2> QED
    BY <2>2, <2>3
<1>3. wrap' \in [Levels -> MaybeVals] /\ cache' \in [Keys -> Nodes]
  BY <1>a, <1>c DEF TypeInv
<1>4. up'[u].op = "sweep" /\ u \in Exclusive =>
               /\ \A j \in up'[u].todo : cache'[j] # None
               /\ up'[u].pc = "fallback" => up'[u].key \notin up'[u].todo
  BY <1>a, <1>b, <1>c DEF SweepInv
<1>5. start.pc # "done" => \A j \in Keys : Pending(u, j)' => Pending(u, j) \/ j \in start.raced
  <2>1. start.pc # "done" /\ up[u].op = "sweep" => Held(l) \subseteq start.raced
    BY <1>a DEF RacedInv
  <2> QED
    BY <1>b, <1>d, <1>e, <1>f, <2>1
<1>6. /\ up[u].pc # "idle" /\ up'[u].pc \notin {"put", "load"}
      /\ up'[u].op \in {"sync", "sweep"} => up[u].op \in {"sync", "sweep"}
      /\ up'[u].pc = "fallback" =>
           up'[u].node = cache'[up'[u].key] /\ up'[u].node # None /\ up'[u].node[1] = LevelOf[u]
  BY <1>b, <1>c, <1>f
<1> QED
  BY <1>b, <1>c, <1>1, <1>2, <1>3, <1>4, <1>5, <1>6, StepKeeps

LEMMA SweepKeeps ==
    ASSUME IndInv, DisjointKeys, NEW u \in Updaters, Sweep(u)
    PROVE  IndInv'
<1> DEFINE l == LevelOf[u]
<1>a. TypeInv /\ AllJobs /\ AloneInv /\ RacedInv /\ MergedInv /\ JobInv(u) /\ l \in Levels
  BY HeldFacts DEF IndInv, AllJobs
<1>b. /\ UpFrame(u) /\ up[u].pc = "next" /\ up[u].op = "sync" /\ up[u].todo = {}
      /\ up'[u].pc = "next" /\ up'[u].op = "sweep" /\ up'[u].todo = Present(cache) \ Present(up[u].val)
      /\ up'[u].val = up[u].val /\ up'[u].upd = up[u].upd
  BY <1>a, SweepEffect
<1>c. src' = src /\ wrap' = wrap /\ cache' = cache /\ start' = start
  BY DEF Sweep
<1>d. \A j \in Keys : ~Pending(u, j) /\ ~Half(u, j) /\ ~Pending(u, j)' /\ ~Half(u, j)'
  BY <1>b DEF Pending, Half
<1>1. JobInv(u)'
  BY <1>a, <1>b, <1>c, <1>d DEF JobInv
<1>2. ASSUME NEW j \in Keys \ start.raced PROVE Agree(j, Busy(j) \cup Unread(j), Halves(j))'
  <2>1. Agree(j, Busy(j) \cup Unread(j), Halves(j)) /\ Unread(j)' = Unread(j)
    BY <1>a, <1>c DEF MergedInv, Unread
  <2> QED
    BY <1>a, <1>b, <1>c, <1>d, <2>1, MergedGrow
<1>3. wrap' \in [Levels -> MaybeVals] /\ cache' \in [Keys -> Nodes]
  BY <1>a, <1>c DEF TypeInv
<1>4. \A j \in up'[u].todo : cache'[j] # None
  BY <1>b, <1>c DEF Present
<1> QED
  BY <1>b, <1>c, <1>d, <1>1, <1>2, <1>3, <1>4, StepKeeps

LEMMA PutKeyKeeps ==
    ASSUME IndInv, DisjointKeys, NEW u \in Updaters, PutKey(u)
    PROVE  IndInv'
<1> DEFINE l == LevelOf[u]
           k == up[u].key
           v == up[u].val[k]
<1>a. TypeInv /\ AllJobs /\ AloneInv /\ HandInv /\ RacedInv /\ MergedInv /\ JobInv(u) /\ l \in Levels
  BY HeldFacts DEF IndInv, AllJobs
<1>b. up[u].pc = "put" /\ up[u].op \in {"update", "sync"} /\ k \in Keys
  BY <1>a DEF PutKey, JobInv, TypeInv, UpType
<1>c. Pending(u, k) /\ Half(u, k)
  BY <1>b DEF Pending, Half
<1>d. v = src[l][k] /\ v # None /\ wrap[l][k] = v /\ k \in Held(l)
  BY <1>a, <1>b, <1>c DEF JobInv
<1>e. v \in Vals
  BY <1>a, <1>b, <1>d DEF TypeInv, MaybeVals
<1>f. /\ UpFrame(u)
      /\ up'[u].pc = "next" /\ up'[u].op = up[u].op /\ up'[u].todo = up[u].todo /\ up'[u].val = up[u].val
      /\ cache' \in [Keys -> Nodes] /\ cache'[k] = <<l, v>>
      /\ \A j \in Keys : j # k => cache'[j] = cache[j]
  BY <1>a, <1>e, PutKeyEffect
<1>g. src' = src /\ wrap' = wrap /\ start' = start
  BY DEF PutKey
<1> HIDE DEF l, k, v
<1>h. \A j \in Keys : (Pending(u, j) <=> j \in up[u].todo \/ j = k) /\ (Half(u, j) <=> Pending(u, j))
  BY <1>b DEF Pending, Half, k
<1>i. \A j \in Keys : (Pending(u, j)' <=> j \in up[u].todo) /\ (Half(u, j)' <=> Pending(u, j)')
  BY <1>b, <1>f DEF Pending, Half
<1>1. JobInv(u)'
  BY <1>a, <1>b, <1>f, <1>g, <1>h, <1>i DEF JobInv
<1>2. ASSUME NEW j \in Keys \ start.raced PROVE Agree(j, Busy(j) \cup Unread(j), Halves(j))'
  <2>1. Agree(j, Busy(j) \cup Unread(j), Halves(j)) /\ Unread(j)' = Unread(j)
    BY <1>a, <1>g DEF MergedInv, Unread
  <2>2. CASE j # k
    BY <1>a, <1>f, <1>g, <1>h, <1>i, <2>1, <2>2, MergedGrow
  <2>3. CASE j = k
    <3>1. Unread(k) = {} /\ \A m : m \in Busy(k) <=> m = l
      BY <1>a, <1>c, <2>3, OneBusy DEF k, l
    <3>2. cache[k] = None \/ cache[k][1] <= l
      <4>1. up[u].node = cache[k] /\ UpdateApplies(up[u].node, l)
        BY <1>a, <1>b, <2>3 DEF HandInv, k, l
      <4> QED
        BY <4>1 DEF UpdateApplies
    <3>3. cache'[k] # None /\ cache'[k][1] = l /\ cache'[k][2] = v
      BY <1>a, <1>e, <1>f, NodeFacts
    <3>4. ASSUME NEW m \in Levels, src[m][k] # None PROVE wrap[m][k] = src[m][k] /\ l >= m
      <4>1. CASE m = l
        BY <1>a, <1>d, <4>1, LevelFacts
      <4>2. CASE m # l
        <5>1. wrap[m][k] = src[m][k] /\ cache[k] # None /\ cache[k][1] >= m
          BY <2>1, <2>3, <3>1, <3>4, <4>2 DEF Agree
        <5>2. cache[k][1] \in Levels
          BY <1>a, <1>b, <5>1, NodeFacts DEF TypeInv
        <5>3. cache[k][1] \in Nat /\ m \in Nat /\ l \in Nat
          BY <1>a, <5>2, LevelFacts
        <5> QED
          BY <3>2, <5>1, <5>3
      <4> QED
        BY <4>1, <4>2
    <3> QED
      BY <1>d, <1>g, <2>3, <3>3, <3>4 DEF Agree
  <2> QED
    BY <2>2, <2>3
<1>3. wrap' \in [Levels -> MaybeVals]
  BY <1>a, <1>g DEF TypeInv
<1>4. \A j \in Keys : cache'[j] # cache[j] => Pending(u, j) /\ (cache'[j] # None => j \in Held(cache'[j][1]))
  <2>1. cache'[k][1] = l
    BY <1>f
  <2> QED
    BY <1>d, <1>f, <1>h, <2>1
<1>5. /\ up[u].pc # "idle" /\ up'[u].pc \notin {"put", "fallback", "load"} /\ up'[u].op # "sweep"
      /\ up'[u].op \in {"sync", "sweep"} => up[u].op \in {"sync", "sweep"}
      /\ \A j \in Keys : Pending(u, j)' => Pending(u, j)
  BY <1>b, <1>f, <1>h, <1>i
<1> QED
  BY <1>f, <1>g, <1>1, <1>2, <1>3, <1>4, <1>5, StepKeeps

LEMMA FallbackKeeps ==
    ASSUME IndInv, DisjointKeys, NEW u \in Updaters, Fallback(u)
    PROVE  IndInv'
<1> DEFINE l == LevelOf[u]
           k == up[u].key
<1>a. TypeInv /\ AllJobs /\ AloneInv /\ SweepInv /\ HandInv /\ RacedInv /\ MergedInv /\ JobInv(u) /\ l \in Levels
  BY HeldFacts DEF IndInv, AllJobs
<1>b. /\ UpFrame(u) /\ up[u].pc = "fallback" /\ k \in Keys
      /\ up'[u].pc = "next" /\ up'[u].op = up[u].op /\ up'[u].todo = up[u].todo /\ up'[u].val = up[u].val
      /\ cache' \in [Keys -> Nodes] /\ \A j \in Keys : j # k => cache'[j] = cache[j]
      /\ \/ \E m \in Levels :
              /\ m < l /\ wrap[m][k] # None
              /\ \A i \in Levels : i < l /\ wrap[i][k] # None => m >= i
              /\ cache'[k] = <<m, wrap[m][k]>>
         \/ /\ \A i \in Levels : i < l => wrap[i][k] = None
            /\ cache'[k] = None
  BY <1>a, FallbackEffect
<1>c. src' = src /\ wrap' = wrap /\ start' = start
  BY DEF Fallback
<1>d. Pending(u, k) /\ Half(u, k)
  BY <1>b DEF Pending, Half
<1>e. up[u].op \in {"delete", "sweep"} /\ src[l][k] = None
  BY <1>a, <1>b, <1>d DEF JobInv
<1> HIDE DEF l, k
<1>f. \A j \in Keys : (Pending(u, j) <=> (up[u].op = "delete" /\ j \in up[u].todo) \/ j = k)
                      /\ (Half(u, j) <=> Pending(u, j))
  BY <1>b, <1>e DEF Pending, Half, k
<1>g. \A j \in Keys : (Pending(u, j)' <=> up[u].op = "delete" /\ j \in up[u].todo)
                      /\ (Half(u, j)' <=> Pending(u, j)')
  BY <1>b, <1>e DEF Pending, Half
<1>1. JobInv(u)'
  BY <1>a, <1>b, <1>c, <1>e, <1>f, <1>g DEF JobInv
<1>2. cache'[k] # None =>
        /\ cache'[k][1] \in Levels /\ cache'[k][2] = wrap[cache'[k][1]][k] /\ wrap[cache'[k][1]][k] # None
        /\ \A i \in Levels : i < l /\ wrap[i][k] # None => cache'[k][1] >= i
  BY <1>b
<1>3. cache'[k] = None => \A i \in Levels : i < l => wrap[i][k] = None
  <2>1. ASSUME NEW m \in Levels, wrap[m][k] # None PROVE <<m, wrap[m][k]>> # None
    <3>1. wrap[m][k] \in Vals
      BY <1>a, <1>b, <2>1 DEF TypeInv, MaybeVals
    <3> QED
      BY <3>1, NodeFacts
  <2> QED
    BY <1>b, <2>1
<1>4. ASSUME NEW j \in Keys \ start.raced PROVE Agree(j, Busy(j) \cup Unread(j), Halves(j))'
  <2>1. Agree(j, Busy(j) \cup Unread(j), Halves(j)) /\ Unread(j)' = Unread(j)
    BY <1>a, <1>c DEF MergedInv, Unread
  <2>2. CASE j # k
    BY <1>a, <1>b, <1>c, <1>f, <1>g, <2>1, <2>2, MergedGrow
  <2>3. CASE j = k
    <3>1. Unread(k) = {} /\ \A m : m \in Busy(k) <=> m = l
      BY <1>a, <1>d, <2>3, OneBusy DEF k, l
    <3>2. cache[k] # None /\ cache[k][1] = l
      <4>1. up[u].node = cache[k] /\ up[u].node # None /\ up[u].node[1] = l
        BY <1>a, <1>b, <2>3 DEF HandInv, k, l
      <4> QED
        BY <4>1
    <3>3. ASSUME NEW i \in Levels, src[i][k] # None
          PROVE  wrap[i][k] = src[i][k] /\ cache'[k] # None /\ cache'[k][1] >= i
      <4>1. i # l
        BY <1>e, <3>3
      <4>2. wrap[i][k] = src[i][k] /\ cache[k][1] >= i
        BY <2>1, <2>3, <3>1, <3>3, <4>1 DEF Agree
      <4>3. i \in Nat /\ l \in Nat
        BY <1>a, LevelFacts
      <4>4. i < l
        BY <3>2, <4>1, <4>2, <4>3
      <4> QED
        BY <1>2, <1>3, <3>3, <4>2, <4>4
    <3> QED
      BY <1>c, <1>2, <2>3, <3>3 DEF Agree
  <2> QED
    BY <2>2, <2>3
<1>5. wrap' \in [Levels -> MaybeVals]
  BY <1>a, <1>c DEF TypeInv
<1>6. \A j \in Keys : cache'[j] # cache[j] => Pending(u, j) /\ (cache'[j] # None => j \in Held(cache'[j][1]))
  <2>1. cache'[k] # None => k \in Held(cache'[k][1])
    BY <1>a, <1>b, <1>2 DEF TypeInv, Held
  <2> QED
    BY <1>b, <1>f, <2>1
<1>7. up'[u].op = "sweep" /\ u \in Exclusive => \A j \in up'[u].todo : cache'[j] # None
  <2>1. up[u].op = "sweep" /\ u \in Exclusive => k \notin up[u].todo /\ \A j \in up[u].todo : cache[j] # None
    BY <1>a, <1>b DEF SweepInv, k
  <2>2. up[u].todo \subseteq Keys
    BY <1>a DEF TypeInv, UpType
  <2> QED
    BY <1>b, <2>1, <2>2
<1>8. /\ up[u].pc # "idle" /\ up'[u].pc \notin {"put", "fallback", "load"}
      /\ up'[u].op \in {"sync", "sweep"} => up[u].op \in {"sync", "sweep"}
      /\ \A j \in Keys : Pending(u, j)' => Pending(u, j)
  BY <1>b, <1>f, <1>g
<1> QED
  BY <1>b, <1>c, <1>1, <1>4, <1>5, <1>6, <1>7, <1>8, StepKeeps

LEMMA NotifyKeeps ==
    ASSUME IndInv, DisjointKeys, NEW u \in Updaters,
           NotifyUpdate(u) \/ NotifyDelete(u) \/ TellUpdate(u) \/ TellDelete(u)
    PROVE  IndInv'
<1>a. TypeInv /\ AllJobs /\ AloneInv /\ RacedInv /\ MergedInv /\ JobInv(u)
  BY DEF IndInv, AllJobs
<1>b. /\ UpFrame(u) /\ up[u].pc \in {"next", "notify", "tellUpdate", "tellDelete"} /\ (up[u].pc = "next" => up[u].todo = {})
      /\ up'[u].pc \in {"notify", "idle", "tellUpdate", "tellDelete"} /\ up'[u].op = "none" /\ up'[u].upd = NoVals
  BY <1>a, NotifyUpdateEffect, NotifyDeleteEffect, TellEffect
<1>c. src' = src /\ wrap' = wrap /\ cache' = cache /\ start' = start
  BY DEF NotifyUpdate, NotifyDelete, TellUpdate, TellDelete, Tell
<1>d. \A j \in Keys : ~Pending(u, j) /\ ~Half(u, j) /\ ~Pending(u, j)' /\ ~Half(u, j)'
  <2>1. up[u].pc # "next" => up[u].op = "none"
    BY <1>a, <1>b DEF JobInv
  <2> QED
    BY <1>b, <2>1 DEF Pending, Half
<1>1. JobInv(u)'
  BY <1>b, <1>d DEF JobInv
<1>2. ASSUME NEW j \in Keys \ start.raced PROVE Agree(j, Busy(j) \cup Unread(j), Halves(j))'
  <2>1. Agree(j, Busy(j) \cup Unread(j), Halves(j)) /\ Unread(j)' = Unread(j)
    BY <1>a, <1>c DEF MergedInv, Unread
  <2> QED
    BY <1>a, <1>b, <1>c, <1>d, <2>1, MergedGrow
<1>3. wrap' \in [Levels -> MaybeVals] /\ cache' \in [Keys -> Nodes]
  BY <1>a, <1>c DEF TypeInv
<1> QED
  BY <1>b, <1>c, <1>d, <1>1, <1>2, <1>3, StepKeeps

-----------------------------------------------------------------------------
(* NewConfig's sync *)

LEMMA SyncKeeps ==
    ASSUME IndInv, start.pc # "done", up' = up, src' = src, start' \in StartType, start'.raced = start.raced,
           wrap' \in [Levels -> MaybeVals], cache' \in [Keys -> Nodes],
           \A l \in Levels, k \in Keys : wrap'[l][k] # wrap[l][k] => src[l][k] # None /\ wrap'[l][k] = src[l][k],
           \A k \in Keys : cache'[k] # cache[k] => cache'[k] # None /\ k \in Held(cache'[k][1]),
           \A k \in Keys : start'.pc = "put" /\ start'.val[k] # None => start'.val[k] \in Written[start'.level][k],
           SyncInv', MergedInv'
    PROVE  IndInv'
<1>a. TypeInv /\ AllJobs /\ AloneInv /\ SweepInv /\ HandInv /\ RacedInv
  BY DEF IndInv
<1>1. TypeInv'
  <2>1. \A l \in Levels, k \in Keys : wrap'[l][k] # None => wrap'[l][k] \in Written[l][k]
    BY <1>a DEF TypeInv
  <2>2. \A k \in Keys : cache'[k] # None => k \in Held(cache'[k][1])
    BY <1>a DEF TypeInv
  <2> QED
    BY <1>a, <2>1, <2>2 DEF TypeInv
<1>2. AllJobs'
  <2> SUFFICES ASSUME NEW w \in Updaters PROVE JobInv(w)'
    BY DEF AllJobs
  <2>1. JobInv(w) /\ LevelOf[w] \in Levels
    BY <1>a, HeldFacts DEF AllJobs
  <2> QED
    BY <2>1, JobFrame
<1>3. AloneInv'
  BY <1>a DEF AloneInv
<1>4. SweepInv'
  <2>1. \A w \in Exclusive : up[w].todo \subseteq Keys
    BY <1>a, UpdatersAssumption DEF TypeInv, UpType
  <2>2. \A k \in Keys : cache[k] # None => cache'[k] # None
    OBVIOUS
  <2> QED
    BY <1>a, <2>1, <2>2 DEF SweepInv
<1>5. HandInv'
  <2> SUFFICES ASSUME NEW w \in Updaters, up[w].pc \in {"put", "fallback"}, up[w].key \notin start.raced PROVE FALSE
    BY DEF HandInv
  <2>1. up[w].key \in Keys /\ Pending(w, up[w].key)
    BY <1>a DEF TypeInv, UpType, Pending
  <2> QED
    BY <1>a, <2>1 DEF RacedInv
<1>6. RacedInv'
  BY <1>a DEF RacedInv, Pending
<1> QED
  BY <1>1, <1>2, <1>3, <1>4, <1>5, <1>6 DEF IndInv

(* No updater has a key in hand that is not raced.                         *)
LEMMA Quiet ==
    ASSUME RacedInv, start.pc # "done", NEW k \in Keys \ start.raced
    PROVE  Busy(k) = {} /\ Halves(k) = {}
<1>1. \A u \in Updaters : ~Pending(u, k) /\ ~Half(u, k)
  BY DEF RacedInv, Half
<1> QED
  BY <1>1, BusyFacts

LEMMA SyncReadKeeps ==
    ASSUME IndInv, SyncRead
    PROVE  IndInv'
<1> DEFINE l == start.level
<1>a. TypeInv /\ SyncInv /\ RacedInv /\ MergedInv
  BY DEF IndInv
<1>b. /\ start' \in StartType /\ start.pc = "read" /\ start'.pc = "put" /\ start'.level = l
      /\ start'.val = src[l] /\ start'.todo = Present(src[l]) /\ start'.raced = start.raced
      /\ wrap' \in [Levels -> MaybeVals] /\ l \in Levels
      /\ \A m \in Levels : m # l => wrap'[m] = wrap[m]
      /\ \A k \in Keys : wrap'[l][k] = IF src[l][k] # None THEN src[l][k] ELSE wrap[l][k]
  BY <1>a, SyncReadEffect
<1>c. src' = src /\ cache' = cache /\ up' = up
  BY DEF SyncRead
<1> HIDE DEF l
<1>d. \A k \in Keys : k \in start'.todo <=> src[l][k] # None
  BY <1>b DEF Present
<1>e. \A k \in Keys, m \in Levels : m \in Unread(k) <=> m > l \/ m = l
  BY <1>b DEF Unread, l
<1>f. \A k \in Keys, m \in Levels : m \in Unread(k)' <=> m > l \/ (m = l /\ src[l][k] # None)
  BY <1>b, <1>d DEF Unread
<1>g. \A k \in Keys : cache[k] # None => cache[k][1] \in Levels
  BY <1>a, NodeFacts DEF TypeInv
<1>h. \A k \in Keys \ start.raced : cache[k] # None => ~(cache[k][1] > l) /\ cache[k][1] # l
  BY <1>a, <1>b, <1>e, <1>g DEF SyncInv
<1>1. SyncInv'
  <2>1. \A k \in Keys \ start.raced : cache[k] # None => cache[k][1] \notin Unread(k)'
    BY <1>f, <1>g, <1>h
  <2> QED
    BY <1>a, <1>b, <1>c, <1>d, <2>1 DEF SyncInv
<1>2. MergedInv'
  <2> SUFFICES ASSUME NEW k \in Keys \ start.raced PROVE Agree(k, Busy(k) \cup Unread(k), Halves(k))'
    BY <1>b DEF MergedInv
  <2>1. Agree(k, Busy(k) \cup Unread(k), Halves(k)) /\ Busy(k) = {} /\ Halves(k) = {}
    BY <1>a, <1>b, Quiet DEF MergedInv
  <2>2. ASSUME NEW m \in Levels \ Unread(k)', src[m][k] # None
        PROVE  wrap'[m][k] = src[m][k] /\ cache[k] # None /\ cache[k][1] >= m
    <3>1. m # l /\ m \notin Unread(k)
      BY <1>e, <1>f, <2>2
    <3> QED
      BY <1>b, <2>1, <2>2, <3>1 DEF Agree
  <2>3. cache[k] # None => wrap'[cache[k][1]][k] = cache[k][2]
    BY <1>b, <1>g, <1>h, <2>1 DEF Agree
  <2> QED
    BY <1>c, <2>2, <2>3 DEF Agree
<1>3. cache' \in [Keys -> Nodes]
  BY <1>a, <1>c DEF TypeInv
<1>4. \A m \in Levels, k \in Keys : wrap'[m][k] # wrap[m][k] => src[m][k] # None /\ wrap'[m][k] = src[m][k]
  BY <1>b
<1>5. \A k \in Keys : start'.val[k] # None => start'.val[k] \in Written[start'.level][k]
  BY <1>a, <1>b DEF TypeInv
<1> QED
  BY <1>b, <1>c, <1>1, <1>2, <1>3, <1>4, <1>5, SyncKeeps

LEMMA SyncPutKeeps ==
    ASSUME IndInv, NEW k \in Keys, SyncPut(k)
    PROVE  IndInv'
<1> DEFINE l == start.level
<1>a. TypeInv /\ SyncInv /\ RacedInv /\ MergedInv
  BY DEF IndInv
<1>b. start.val[k] # None
  BY <1>a DEF SyncInv, SyncPut, Present
<1>c. /\ start' \in StartType /\ start.pc = "put" /\ start'.pc = "put" /\ start'.level = l
      /\ start'.val = start.val /\ start'.todo = start.todo \ {k} /\ start'.raced = start.raced /\ k \in start.todo
      /\ cache' \in [Keys -> Nodes] /\ cache'[k] = <<l, start.val[k]>>
      /\ \A j \in Keys : j # k => cache'[j] = cache[j]
      /\ l \in Levels /\ start.val[k] \in Vals
  BY <1>a, <1>b, SyncPutEffect
<1>d. src' = src /\ wrap' = wrap /\ up' = up
  BY DEF SyncPut
<1> HIDE DEF l
<1>e. cache'[k] # None /\ cache'[k][1] = l /\ cache'[k][2] = start.val[k]
  BY <1>c, NodeFacts
<1>f. \A j \in Keys, m \in Levels : m \in Unread(j) <=> m > l \/ (m = l /\ j \in start.todo)
  BY <1>c DEF Unread, l
<1>g. \A j \in Keys, m \in Levels : m \in Unread(j)' <=> m > l \/ (m = l /\ j \in start.todo /\ j # k)
  BY <1>c DEF Unread
<1>h. \A m \in Levels : m \in Nat
  BY LevelFacts
<1>1. SyncInv'
  <2>1. \A j \in Keys \ start.raced : cache'[j] # None => cache'[j][1] \notin Unread(j)'
    <3> SUFFICES ASSUME NEW j \in Keys \ start.raced, cache'[j] # None PROVE cache'[j][1] \notin Unread(j)'
      OBVIOUS
    <3>1. cache'[j][1] \in Levels
      BY <1>c, NodeFacts
    <3>2. CASE j = k
      <4>1. ~(l > l)
        BY <1>c, <1>h
      <4> QED
        BY <1>e, <1>g, <3>1, <3>2, <4>1
    <3>3. CASE j # k
      <4>1. cache[j] # None /\ cache[j][1] \notin Unread(j)
        BY <1>a, <1>c, <3>3 DEF SyncInv
      <4> QED
        BY <1>c, <1>f, <1>g, <3>1, <3>3, <4>1
    <3> QED
      BY <3>2, <3>3
  <2> QED
    BY <1>a, <1>c, <1>d, <2>1 DEF SyncInv, l
<1>2. MergedInv'
  <2> SUFFICES ASSUME NEW j \in Keys \ start.raced PROVE Agree(j, Busy(j) \cup Unread(j), Halves(j))'
    BY <1>c DEF MergedInv
  <2>1. Agree(j, Busy(j) \cup Unread(j), Halves(j)) /\ Busy(j) = {} /\ Halves(j) = {}
    BY <1>a, <1>c, Quiet DEF MergedInv
  <2>2. CASE j # k
    <3>1. \A m \in Levels : m \in Unread(j)' <=> m \in Unread(j)
      BY <1>f, <1>g, <2>2
    <3> QED
      BY <1>c, <1>d, <2>1, <2>2, <3>1 DEF Agree
  <2>3. CASE j = k
    <3>1. start.val[k] = src[l][k] /\ wrap[l][k] = start.val[k]
      BY <1>a, <1>c, <2>3 DEF SyncInv, l
    <3>2. ASSUME NEW m \in Levels \ Unread(k)', src[m][k] # None PROVE wrap[m][k] = src[m][k] /\ l >= m
      <4>1. ~(m > l)
        BY <1>g, <3>2
      <4>2. m = l \/ m \notin Unread(k)
        BY <1>f, <4>1
      <4>3. wrap[m][k] = src[m][k]
        BY <2>1, <2>3, <3>1, <3>2, <4>2 DEF Agree
      <4> QED
        BY <1>c, <1>h, <4>1, <4>3
    <3> QED
      BY <1>d, <1>e, <2>3, <3>1, <3>2 DEF Agree
  <2> QED
    BY <2>2, <2>3
<1>3. wrap' \in [Levels -> MaybeVals]
  BY <1>a, <1>d DEF TypeInv
<1>4. start.val[k] \in Written[l][k]
  BY <1>a, <1>b, <1>c DEF TypeInv, l
<1>5. k \in Held(l)
  BY <1>4 DEF Held
<1>6. \A j \in Keys : start'.val[j] # None => start'.val[j] \in Written[start'.level][j]
  BY <1>a, <1>c DEF TypeInv, l
<1>7. \A j \in Keys : cache'[j] # cache[j] => cache'[j] # None /\ j \in Held(cache'[j][1])
  BY <1>c, <1>e, <1>5
<1> QED
  BY <1>c, <1>d, <1>1, <1>2, <1>3, <1>6, <1>7, SyncKeeps

LEMMA SyncNextKeeps ==
    ASSUME IndInv, SyncNext
    PROVE  IndInv'
<1>a. TypeInv /\ SyncInv /\ RacedInv /\ MergedInv
  BY DEF IndInv
<1>b. /\ start' \in StartType /\ start.pc = "put" /\ start.todo = {} /\ start'.todo = {}
      /\ start'.raced = start.raced /\ start'.val = NoVals /\ start.level \in Levels
      /\ \/ start.level = Top /\ start'.pc = "done"
         \/ start.level # Top /\ start'.pc = "read" /\ start'.level = start.level + 1
  BY <1>a, SyncNextEffect
<1>c. src' = src /\ wrap' = wrap /\ cache' = cache /\ up' = up
  BY DEF SyncNext
<1>d. \A k \in Keys : Unread(k)' = Unread(k)
  <2> SUFFICES ASSUME NEW k \in Keys, NEW m \in Levels PROVE m \in Unread(k)' <=> m \in Unread(k)
    BY DEF Unread
  <2>1. m \in Unread(k) <=> m > start.level
    BY <1>b DEF Unread
  <2>2. m \in Nat /\ start.level \in Nat /\ Top \in Nat /\ m <= Top
    BY <1>b, LevelFacts
  <2>3. CASE start.level = Top /\ start'.pc = "done"
    BY <2>1, <2>2, <2>3 DEF Unread
  <2>4. CASE start.level # Top /\ start'.pc = "read" /\ start'.level = start.level + 1
    <3>1. m \in Unread(k)' <=> m > start.level + 1 \/ m = start.level + 1
      BY <2>4 DEF Unread
    <3> QED
      BY <2>1, <2>2, <3>1
  <2> QED
    BY <1>b, <2>3, <2>4
<1>1. SyncInv'
  BY <1>a, <1>b, <1>c, <1>d DEF SyncInv
<1>2. MergedInv'
  BY <1>a, <1>b, <1>c, <1>d DEF MergedInv, Agree, Busy, Halves, Pending, Half
<1>3. wrap' \in [Levels -> MaybeVals] /\ cache' \in [Keys -> Nodes]
  BY <1>a, <1>c DEF TypeInv
<1> QED
  BY <1>b, <1>c, <1>1, <1>2, <1>3, SyncKeeps

-----------------------------------------------------------------------------
LEMMA IndInvInit ==
    ASSUME Init
    PROVE  IndInv
<1>1. TypeInv
  <2>1. src \in [Levels -> MaybeVals] /\ \A l \in Levels, k \in Keys : src[l][k] # None => src[l][k] \in Written[l][k]
    BY DEF Init, Contents, MaybeVals
  <2>2. wrap \in [Levels -> MaybeVals] /\ \A l \in Levels, k \in Keys : wrap[l][k] = None
    BY IdleFacts DEF Init, NoVals
  <2>3. cache \in [Keys -> Nodes] /\ \A k \in Keys : cache[k] = None
    BY NodeFacts DEF Init, NoVals
  <2>4. up \in [Updaters -> UpType] /\ start \in StartType /\ start.pc = "read"
    BY IdleFacts, LevelFacts DEF Init, StartType
  <2> QED
    BY <2>1, <2>2, <2>3, <2>4 DEF TypeInv
<1>2. \A u \in Updaters : up[u] = Idle
  BY DEF Init
<1>3. \A u \in Updaters, k \in Keys : ~Pending(u, k) /\ ~Half(u, k)
  BY <1>2, IdleFacts DEF Pending, Half
<1>4. AllJobs
  BY <1>2, <1>3, IdleFacts DEF AllJobs, JobInv
<1>5. AloneInv /\ SweepInv /\ HandInv /\ RacedInv
  BY <1>2, <1>3, IdleFacts, UpdatersAssumption DEF AloneInv, SweepInv, HandInv, RacedInv
<1>6. start.pc = "read" /\ start.level = 0 /\ start.todo = {} /\ start.val = NoVals /\ \A k \in Keys : cache[k] = None
  BY DEF Init, NoVals
<1>7. SyncInv
  BY <1>6 DEF SyncInv
<1>8. \A k \in Keys : Unread(k) = Levels
  <2>1. \A m \in Levels : m > 0 \/ m = 0
    BY LevelFacts
  <2> QED
    BY <1>6, <2>1 DEF Unread
<1>9. MergedInv
  BY <1>6, <1>8 DEF MergedInv, Agree
<1> QED
  BY <1>1, <1>4, <1>5, <1>7, <1>9 DEF IndInv

LEMMA IndInvNext ==
    ASSUME Discipline, IndInv, Next
    PROVE  IndInv'
<1>a. DisjointKeys /\ LowestAlone
  BY DEF Discipline
<1>1. CASE SyncRead
  BY <1>1, SyncReadKeeps
<1>2. CASE \E k \in Keys : SyncPut(k)
  BY <1>2, SyncPutKeeps
<1>3. CASE SyncNext
  BY <1>3, SyncNextKeeps
<1>4. ASSUME NEW u \in Updaters, Change(u) PROVE IndInv'
  BY <1>a, <1>4, PutKeeps, DelKeeps, ReplaceKeeps DEF Change
<1>5. ASSUME NEW u \in Updaters, Step(u) PROVE IndInv'
  BY <1>a, <1>5, LoadKeeps, WrapKeeps, ReadForUpdateKeeps, ReadForDeleteKeeps, PutKeyKeeps, SweepKeeps,
     FallbackKeeps, NotifyKeeps DEF Step
<1> QED
  BY <1>1, <1>2, <1>3, <1>4, <1>5 DEF Next

LEMMA IndInvStutter ==
    ASSUME IndInv, UNCHANGED vars
    PROVE  IndInv'
BY DEF vars, IndInv, TypeInv, AllJobs, JobInv, AloneInv, SweepInv, HandInv, RacedInv, SyncInv, MergedInv, Agree,
       Busy, Halves, Unread, Pending, Half

(* Every wrapper and the merged cache keep up with the sources.            *)
THEOREM IndInvHolds == Discipline => (Spec => []IndInv)
<1> SUFFICES ASSUME Discipline PROVE Spec => []IndInv
  OBVIOUS
<1>1. Init => IndInv
  BY IndInvInit
<1>2. IndInv /\ [Next]_vars => IndInv'
  BY IndInvNext, IndInvStutter
<1> QED
  BY <1>1, <1>2, PTL DEF Spec

-----------------------------------------------------------------------------
(* What the view reads *)

(* When all is settled the merged cache has what the sources hold.         *)
LEMMA SettledFollows ==
    ASSUME IndInv, Settled, NEW k \in Keys \ start.raced, ~Forgotten(k)
    PROVE  cache[k] = Effective(k)
<1> DEFINE holders == {l \in Levels : src[l][k] # None}
<1>a. TypeInv /\ AllJobs /\ MergedInv
  BY DEF IndInv
<1>1. \A u \in Updaters : ~Pending(u, k) /\ ~Half(u, k)
  BY <1>a, PendingFacts DEF Settled, AllJobs, Half
<1>2. Busy(k) = {} /\ Halves(k) = {}
  BY <1>1, BusyFacts
<1>3. Unread(k) = {}
  BY DEF Unread, Settled
<1>4. Agree(k, {}, {})
  BY <1>a, <1>2, <1>3 DEF MergedInv
<1>5. \A m \in Levels : src[m][k] # None => wrap[m][k] = src[m][k] /\ cache[k] # None /\ cache[k][1] >= m
  BY <1>4 DEF Agree
<1>6. CASE cache[k] = None
  BY <1>5, <1>6 DEF Effective
<1>7. CASE cache[k] # None
  <2>1. cache[k][1] \in Levels /\ cache[k][2] # None /\ cache[k] = <<cache[k][1], cache[k][2]>>
    BY <1>a, <1>7, NodeFacts, NoneAssumption DEF TypeInv
  <2>2. wrap[cache[k][1]][k] = cache[k][2]
    BY <1>4, <1>7 DEF Agree
  <2>3. src[cache[k][1]][k] = cache[k][2]
    BY <1>5, <2>1, <2>2 DEF Forgotten
  <2>4. cache[k][1] \in holders /\ \A m \in holders : cache[k][1] >= m
    BY <1>5, <2>1, <2>3
  <2>5. holders \in SUBSET (0..Top) /\ Top \in Nat
    BY LevelFacts DEF Levels, Top
  <2>6. Effective(k) = IF holders = {} THEN None ELSE <<Max(holders), src[Max(holders)][k]>>
    BY DEF Effective
  <2> HIDE DEF holders
  <2>7. Max(holders) \in holders /\ \A m \in holders : Max(holders) >= m
    BY <2>4, <2>5, MaxFacts
  <2>8. Max(holders) = cache[k][1]
    <3>1. Max(holders) >= cache[k][1] /\ cache[k][1] >= Max(holders)
      BY <2>4, <2>7
    <3>0. \A x \in holders : x \in Nat
      BY <2>5
    <3>2. Max(holders) \in Nat /\ cache[k][1] \in Nat
      BY <2>4, <2>7, <3>0
    <3> QED
      BY <3>1, <3>2
  <2> QED
    BY <2>1, <2>3, <2>4, <2>6, <2>8
<1> QED
  BY <1>6, <1>7

LEMMA ReadsFollow ==
    ASSUME IndInv, LowestIsBare
    PROVE  ReadsFollowSources
<1> DEFINE raw == IF Effective(Raw) # None /\ Effective(Raw)[1] \in IgnoreNs THEN Effective(Raw) ELSE <<-1, Empty>>
           ns == GetNs([k \in Keys |-> Effective(k)])
<1>a. TypeInv
  BY DEF IndInv
<1>1. Settled => \A k \in Keys \ start.raced : ~Forgotten(k) => cache[k] = Effective(k)
  BY SettledFollows
<1>2. ASSUME Settled, start.raced = {}, ~(\E k \in Keys : Forgotten(k))
      PROVE  Get = (IF raw[1] > ns[1] THEN raw[2] ELSE ns[2])
  <2>1. \A k \in Keys : cache[k] = Effective(k)
    BY <1>1, <1>2
  <2>2. cache = [k \in Keys |-> Effective(k)]
    BY <1>a, <2>1 DEF TypeInv
  <2>3. ns = GetNs(cache)
    BY <2>2
  <2>4. Effective(Raw) = cache[Raw]
    BY <2>1, IdleFacts
  <2>5. CASE cache[Raw] # None /\ cache[Raw][1] \in IgnoreNs
    BY <2>3, <2>4, <2>5 DEF Get, GetRaw
  <2>6. CASE ~(cache[Raw] # None /\ cache[Raw][1] \in IgnoreNs)
    <3>1. GetRaw = <<1, Empty>> /\ raw = <<-1, Empty>>
      BY <2>4, <2>6 DEF GetRaw
    <3> HIDE DEF raw, ns
    <3>2. CASE GetNs(cache) = <<-1, Empty>>
      <4>1. 1 > -1 /\ ~(-1 > -1)
        OBVIOUS
      <4> QED
        BY <2>3, <3>1, <3>2, <4>1 DEF Get
    <3>3. CASE GetNs(cache) # <<-1, Empty>>
      <4>1. cache \in [Keys -> Nodes]
        BY <1>a DEF TypeInv
      <4>2. PICK i \in DOMAIN NsList : cache[NsList[i]] # None /\ GetNs(cache) = cache[NsList[i]]
        BY <3>3, <4>1, GetNsFacts
      <4>3. NsList[i] \in NsKeys /\ NsList[i] \in Keys
        BY NsFacts
      <4>4. cache[NsList[i]][1] \in Nat /\ NsList[i] \in Held(cache[NsList[i]][1])
        BY <1>a, <4>1, <4>2, <4>3, NodeLevelFacts DEF TypeInv
      <4>5. cache[NsList[i]][1] # 0
        BY <4>3, <4>4 DEF LowestIsBare
      <4>6. ~(1 > GetNs(cache)[1]) /\ ~(-1 > GetNs(cache)[1])
        BY <4>2, <4>4, <4>5
      <4> QED
        BY <2>3, <3>1, <4>6 DEF Get
    <3> QED
      BY <3>2, <3>3
  <2> QED
    BY <2>5, <2>6
<1> QED
  BY <1>1, <1>2 DEF ReadsFollowSources

(* ReadsFollowSources (Config): once NewConfig has returned and no change   *)
(* is under way, the merged cache has for every key the value of the       *)
(* highest source that holds it, and the view reads the highest source,    *)
(* then the last namespace, and the bare name only from a source that      *)
(* ignores namespaces, for any sources, namespaces and updaters of         *)
(* different keys.                                                         *)
THEOREM ReadsFollowSourcesThm == Discipline => (Spec => []ReadsFollowSources)
<1> SUFFICES ASSUME Discipline PROVE Spec => []ReadsFollowSources
  OBVIOUS
<1>1. IndInv => ReadsFollowSources
  BY ReadsFollow DEF Discipline
<1> QED
  BY <1>1, IndInvHolds, PTL

-----------------------------------------------------------------------------
(* What the watcher is told *)

(* The last namespace wins with a value of the last source.                *)
LEMMA GetTail ==
    ASSUME TypeInv, LowestIsBare, cache[Tail1] # None, cache[Tail1][1] = Top
    PROVE  Get = cache[Tail1][2]
<1>1. cache \in [Keys -> Nodes] /\ Tail1 \in NsKeys /\ Tail1 \in Keys /\ cache[Tail1] \in Nodes /\ Top \in Nat
  BY NsFacts, LevelFacts DEF TypeInv
<1>2. PICK i \in DOMAIN NsList :
        /\ cache[NsList[i]] # None /\ GetNs(cache) = cache[NsList[i]]
        /\ \A k \in NsKeys : NodeLevel(cache[k]) <= cache[NsList[i]][1]
        /\ \A j \in DOMAIN NsList : NodeLevel(cache[NsList[j]]) = cache[NsList[i]][1] => j <= i
  BY <1>1, GetNsFacts
<1>3. NodeLevel(cache[Tail1]) = Top
  BY <1>1, NodeLevelFacts
<1>4. cache[NsList[i]][1] = Top
  <2>1. cache[NsList[i]] \in Nodes
    BY <1>1, NsFacts
  <2>2. cache[NsList[i]][1] \in Nat /\ cache[NsList[i]][1] <= Top
    BY <1>2, <2>1, NodeLevelFacts, LevelFacts
  <2>3. Top <= cache[NsList[i]][1]
    BY <1>1, <1>2, <1>3
  <2> QED
    BY <1>1, <2>2, <2>3
<1>5. i = Len(NsList)
  <2>1. Len(NsList) \in DOMAIN NsList /\ i <= Len(NsList) /\ i \in Nat /\ Len(NsList) \in Nat
    BY NsFacts
  <2>2. Len(NsList) <= i
    BY <1>2, <1>3, <1>4, <2>1, NsFacts
  <2> QED
    BY <2>1, <2>2
<1>6. GetNs(cache) = cache[Tail1]
  BY <1>2, <1>5, NsFacts
<1>7. ~(GetRaw[1] > Top)
  <2>1. CASE cache[Raw] # None /\ cache[Raw][1] \in IgnoreNs
    <3>1. GetRaw[1] = cache[Raw][1] /\ cache[Raw] \in Nodes
      BY <1>1, <2>1, IdleFacts DEF GetRaw
    <3>2. cache[Raw][1] \in Nat /\ cache[Raw][1] <= Top
      BY <2>1, <3>1, NodeLevelFacts, LevelFacts
    <3> QED
      BY <1>1, <3>1, <3>2
  <2>2. CASE ~(cache[Raw] # None /\ cache[Raw][1] \in IgnoreNs)
    <3>1. GetRaw[1] = 1
      BY <2>2 DEF GetRaw
    <3>2. Tail1 \in Held(Top)
      BY <1>1 DEF TypeInv
    <3>3. Top # 0
      BY <1>1, <3>2 DEF LowestIsBare
    <3> QED
      BY <1>1, <3>1, <3>3
  <2> QED
    BY <2>1, <2>2
<1> QED
  BY <1>6, <1>7 DEF Get

(* The last namespace has entries of the last source only.                 *)
LEMMA TailFacts ==
    ASSUME TypeInv, TailOnTop, cache[Tail1] # None
    PROVE  cache[Tail1][1] = Top /\ cache[Tail1][2] \in Vals /\ cache[Tail1][2] # None
<1>1. Tail1 \in Keys /\ cache[Tail1] \in Nodes
  BY NsFacts DEF TypeInv
<1>2. cache[Tail1][1] \in Levels /\ cache[Tail1][2] \in Vals
  BY <1>1, NodeFacts
<1>3. Tail1 \in Held(cache[Tail1][1])
  BY <1>1 DEF TypeInv
<1> QED
  BY <1>2, <1>3, NoneAssumption DEF TailOnTop, Tail1, Top

LEMMA ToldFrame ==
    ASSUME TypeInv, TailOnTop, ToldInv, NEW u \in Updaters, UpFrame(u),
           start'.pc = start.pc, start.raced \subseteq start'.raced,
           cache'[Tail1] = cache[Tail1], told' = told, late' = late,
           up[u].upd[Tail1] = None \/ up'[u].upd[Tail1] = up[u].upd[Tail1],
           up[u].pc \notin {"tellUpdate", "tellDelete"}
    PROVE  ToldInv'
<1> SUFFICES ASSUME start.pc = "done", Tail1 \notin start.raced, cache[Tail1] # None, cache[Tail1][1] = Top,
                    ToTell(cache[Tail1][2])
             PROVE  ToTell(cache[Tail1][2])'
  BY DEF ToldInv
<1>1. PICK w \in Updaters : up[w].upd[Tail1] = cache[Tail1][2] \/ Telling(w, cache[Tail1][2])
  BY DEF ToTell
<1>2. cache[Tail1][2] # None
  BY TailFacts
<1>3. up'[w].upd[Tail1] = cache[Tail1][2] \/ Telling(w, cache[Tail1][2])'
  BY <1>1, <1>2 DEF UpFrame, Telling
<1> QED
  BY <1>3 DEF ToTell

(* An updater that has nothing to tell.                                    *)
LEMMA NothingToTell ==
    ASSUME NEW u \in Updaters, JobInv(u), up[u].pc \in {"idle", "load", "wrap", "notify", "tellUpdate", "tellDelete"}
    PROVE  up[u].upd[Tail1] = None
<1>1. Tail1 \in Keys
  BY NsFacts
<1> QED
  BY <1>1 DEF JobInv, NoVals

LEMMA ToldChange ==
    ASSUME IndInv, TailOnTop, ToldInv, NEW u \in Updaters, Change(u)
    PROVE  ToldInv'
<1>a. TypeInv /\ JobInv(u)
  BY DEF IndInv, AllJobs
<1>b. up[u].pc = "idle" /\ cache' = cache /\ told' = told /\ late' = late
  BY DEF Change, Put, Del, Replace, MayBegin
<1>c. \E keys \in SUBSET Keys : NoteRace(keys)
  <2>1. Held(LevelOf[u]) \in SUBSET Keys
    BY HeldFacts
  <2> QED
    BY <2>1 DEF Change, Put, Del, Replace
<1>d. start'.pc = start.pc /\ start.raced \subseteq start'.raced
  BY <1>a, <1>c, NoteRaceEffect DEF SameStart
<1>e. UpFrame(u)
  BY <1>a, PutEffect, DelEffect, ReplaceEffect DEF Change
<1>f. up[u].upd[Tail1] = None
  BY <1>a, <1>b, NothingToTell
<1> QED
  BY <1>a, <1>b, <1>d, <1>e, <1>f, ToldFrame

TellingNext(u, v) == up'[u].pc \in {"tellUpdate", "tellDelete"} /\ v \in up'[u].say

LEMMA ToldPutKey ==
    ASSUME IndInv, TailOnTop, ToldInv, NEW u \in Updaters, PutKey(u)
    PROVE  ToldInv'
<1> DEFINE l == LevelOf[u]
           k == up[u].key
           v == up[u].val[k]
<1>a. TypeInv /\ JobInv(u) /\ HandInv /\ l \in Levels
  BY HeldFacts DEF IndInv, AllJobs
<1>b. up[u].pc = "put" /\ up[u].op \in {"update", "sync"} /\ k \in Keys
  BY <1>a DEF PutKey, JobInv, TypeInv, UpType
<1>c. Pending(u, k)
  BY <1>b DEF Pending
<1>d. v = src[l][k] /\ v # None /\ k \in Held(l)
  BY <1>a, <1>b, <1>c DEF JobInv
<1>e. v \in Vals
  BY <1>a, <1>b, <1>d DEF TypeInv, MaybeVals
<1>f. /\ UpFrame(u)
      /\ \A j \in Keys : j # k => up'[u].upd[j] = up[u].upd[j]
      /\ Changed(up[u].node, v) => up'[u].upd[k] = v
      /\ ~Changed(up[u].node, v) => up'[u].upd = up[u].upd
      /\ cache'[k] = <<l, v>> /\ \A j \in Keys : j # k => cache'[j] = cache[j]
  BY <1>a, <1>e, PutKeyEffect
<1>g. start' = start /\ told' = told /\ late' = late
  BY DEF PutKey
<1>h. Tail1 \in Keys
  BY NsFacts
<1> HIDE DEF l, k, v
<1>1. CASE k # Tail1
  BY <1>a, <1>b, <1>f, <1>g, <1>h, <1>1, ToldFrame
<1>2. CASE k = Tail1
  <2> SUFFICES ASSUME start.pc = "done", Tail1 \notin start.raced
               PROVE  told = v \/ late \/ \E w \in Updaters : up'[w].upd[Tail1] = v \/ TellingNext(w, v)
    <3>1. cache'[Tail1][2] = v
      BY <1>f, <1>2
    <3>2. (\E w \in Updaters : up'[w].upd[Tail1] = v \/ TellingNext(w, v)) => ToTell(cache[Tail1][2])'
      BY <3>1 DEF ToTell, Telling, TellingNext
    <3> QED
      BY <1>g, <3>1, <3>2 DEF ToldInv
  <2>1. CASE Changed(up[u].node, v)
    BY <1>f, <1>2, <2>1
  <2>2. CASE ~Changed(up[u].node, v)
    <3>1. up[u].node = cache[Tail1]
      BY <1>a, <1>b, <1>2 DEF HandInv, k
    <3>2. cache[Tail1] # None /\ cache[Tail1][2] = v
      BY <2>2, <3>1 DEF Changed
    <3>3. cache[Tail1][1] = Top
      BY <1>a, <3>2, TailFacts
    <3>4. told = v \/ late \/ \E w \in Updaters : up[w].upd[Tail1] = v \/ Telling(w, v)
      BY <3>2, <3>3 DEF ToldInv, ToTell
    <3>5. ~Telling(u, v)
      BY <1>b DEF Telling
    <3>6. \A w \in Updaters \ {u} : Telling(w, v) => up'[w] = up[w]
      BY <1>f DEF UpFrame
    <3> QED
      BY <1>f, <2>2, <3>4, <3>5, <3>6 DEF UpFrame, Telling, TellingNext
  <2> QED
    BY <2>1, <2>2
<1> QED
  BY <1>1, <1>2

LEMMA ToldFallback ==
    ASSUME IndInv, TailOnTop, ToldInv, NEW u \in Updaters, Fallback(u)
    PROVE  ToldInv'
<1> DEFINE l == LevelOf[u]
           k == up[u].key
<1>a. TypeInv /\ JobInv(u) /\ l \in Levels /\ Tail1 \in Keys
  BY HeldFacts, NsFacts DEF IndInv, AllJobs
<1>b. /\ UpFrame(u) /\ up[u].pc = "fallback" /\ k \in Keys
      /\ \A j \in Keys : j # k => up'[u].upd[j] = up[u].upd[j] /\ cache'[j] = cache[j]
      /\ \/ \E m \in Levels : m < l /\ wrap[m][k] # None
         \/ cache'[k] = None
  BY <1>a, FallbackEffect
<1>c. start' = start /\ told' = told /\ late' = late
  BY DEF Fallback
<1>1. CASE k # Tail1
  BY <1>a, <1>b, <1>c, <1>1, ToldFrame
<1>2. CASE k = Tail1
  <2>1. Pending(u, Tail1)
    BY <1>b, <1>2 DEF Pending
  <2>2. l = Top
    <3>1. Tail1 \in Held(l)
      BY <1>a, <2>1 DEF JobInv
    <3> QED
      BY <1>a, <3>1 DEF TailOnTop, Tail1, Top
  <2>3. ASSUME NEW m \in Levels, m < l, wrap[m][k] # None PROVE FALSE
    <3>1. Tail1 \in Held(m)
      BY <1>a, <1>2, <2>3 DEF TypeInv, Held
    <3>2. m = Top
      BY <3>1 DEF TailOnTop, Tail1, Top
    <3> QED
      BY <2>2, <2>3, <3>2, LevelFacts
  <2> QED
    BY <1>b, <1>2, <2>3 DEF ToldInv
<1> QED
  BY <1>1, <1>2

LEMMA ToldNotify ==
    ASSUME IndInv, LowestIsBare, TailOnTop, ToldInv, NEW u \in Updaters, NotifyUpdate(u) \/ NotifyDelete(u)
    PROVE  ToldInv'
<1>a. TypeInv /\ JobInv(u) /\ Tail1 \in NsKeys
  BY NsFacts DEF IndInv, AllJobs
<1>b. start' = start /\ cache' = cache /\ told' = told /\ late' = late
  BY DEF NotifyUpdate, NotifyDelete
<1>1. CASE NotifyDelete(u)
  <2>1. UpFrame(u) /\ up[u].pc = "notify"
    BY <1>a, <1>1, NotifyDeleteEffect
  <2>2. up[u].upd[Tail1] = None
    BY <1>a, <2>1, NothingToTell
  <2> QED
    BY <1>a, <1>b, <2>1, <2>2, ToldFrame
<1>2. CASE NotifyUpdate(u)
  <2>1. UpFrame(u) /\ up[u].pc = "next" /\ up'[u].pc = "tellUpdate"
        /\ (start.pc = "done" => up'[u].say = FilterUpdate(up[u].upd))
    BY <1>a, <1>2, NotifyUpdateEffect
  <2> SUFFICES ASSUME start.pc = "done", Tail1 \notin start.raced, cache[Tail1] # None, cache[Tail1][1] = Top,
                      ToTell(cache[Tail1][2])
               PROVE  ToTell(cache[Tail1][2])'
    BY <1>b DEF ToldInv
  <2>2. Get = cache[Tail1][2]
    BY <1>a, GetTail
  <2>3. PICK w \in Updaters : up[w].upd[Tail1] = cache[Tail1][2] \/ Telling(w, cache[Tail1][2])
    BY DEF ToTell
  <2>4. CASE w = u
    <3>1. up[u].upd[Tail1] = Get
      BY <2>1, <2>2, <2>3, <2>4 DEF Telling
    <3>2. Get \in up'[u].say
      BY <1>a, <2>1, <3>1 DEF FilterUpdate
    <3>3. Telling(u, cache[Tail1][2])'
      BY <1>b, <2>1, <2>2, <3>2 DEF Telling
    <3> QED
      BY <3>3 DEF ToTell
  <2>5. CASE w # u
    <3>1. up'[w].upd[Tail1] = cache[Tail1][2] \/ Telling(w, cache[Tail1][2])'
      BY <1>b, <2>1, <2>3, <2>5 DEF UpFrame, Telling
    <3> QED
      BY <1>b, <3>1 DEF ToTell
  <2> QED
    BY <2>4, <2>5
<1> QED
  BY <1>1, <1>2

(* A call of the watcher tells what the view reads, or is late.            *)
LEMMA ToldTell ==
    ASSUME IndInv, LowestIsBare, TailOnTop, ToldInv, NEW u \in Updaters, TellUpdate(u) \/ TellDelete(u)
    PROVE  ToldInv'
<1>a. TypeInv /\ JobInv(u)
  BY DEF IndInv, AllJobs
<1>b. UpFrame(u) /\ up[u].pc \in {"tellUpdate", "tellDelete"} /\ Tell(up[u].say)
  BY <1>a, TellEffect
<1>c. start' = start /\ cache' = cache
  BY <1>b DEF Tell
<1> SUFFICES ASSUME start.pc = "done", Tail1 \notin start.raced, cache[Tail1] # None, cache[Tail1][1] = Top
             PROVE  told' = cache[Tail1][2] \/ late' \/ ToTell(cache[Tail1][2])'
  BY <1>c DEF ToldInv
<1>d. Get = cache[Tail1][2] /\ cache[Tail1][2] # None
  BY <1>a, GetTail, TailFacts
<1>1. CASE told' \in up[u].say /\ late' = (told' # Get)
  BY <1>d, <1>1
<1>2. CASE up[u].say = {} /\ UNCHANGED <<told, late>>
  <2> SUFFICES ASSUME ToTell(cache[Tail1][2]) PROVE ToTell(cache[Tail1][2])'
    BY <1>2 DEF ToldInv
  <2>1. PICK w \in Updaters : up[w].upd[Tail1] = cache[Tail1][2] \/ Telling(w, cache[Tail1][2])
    BY DEF ToTell
  <2>2. w # u
    BY <1>a, <1>b, <1>d, <1>2, <2>1, NothingToTell DEF Telling
  <2>3. up'[w].upd[Tail1] = cache[Tail1][2] \/ Telling(w, cache[Tail1][2])'
    BY <1>b, <1>c, <2>1, <2>2 DEF UpFrame, Telling
  <2> QED
    BY <1>c, <2>3 DEF ToTell
<1> QED
  BY <1>b, <1>1, <1>2 DEF Tell

LEMMA ToldRest ==
    ASSUME IndInv, TailOnTop, ToldInv, NEW u \in Updaters, NEW k \in Keys,
           Load(u) \/ Wrap(u) \/ ReadForUpdate(u, k) \/ ReadForDelete(u, k) \/ Sweep(u)
    PROVE  ToldInv'
<1>a. TypeInv /\ JobInv(u)
  BY DEF IndInv, AllJobs
<1>b. start' = start /\ cache' = cache /\ told' = told /\ late' = late
  BY DEF Load, Wrap, ReadForUpdate, ReadForDelete, Sweep
<1>c. UpFrame(u) /\ (up[u].pc = "load" \/ up'[u].upd = up[u].upd) /\ up[u].pc \in {"load", "wrap", "next"}
  BY <1>a, LoadEffect, WrapEffect, ReadForUpdateEffect, ReadForDeleteEffect, SweepEffect
     DEF Load, Wrap, ReadForUpdate, ReadForDelete, Sweep
<1>d. up[u].pc = "load" => up[u].upd[Tail1] = None
  BY <1>a, NothingToTell
<1> QED
  BY <1>a, <1>b, <1>c, <1>d, ToldFrame

LEMMA ToldSync ==
    ASSUME IndInv, LowestIsBare, TailOnTop, ToldInv, SyncRead \/ (\E k \in Keys : SyncPut(k)) \/ SyncNext
    PROVE  ToldInv'
<1>a. TypeInv /\ SyncInv
  BY DEF IndInv
<1>1. CASE SyncRead
  BY <1>a, <1>1, SyncReadEffect DEF ToldInv
<1>2. ASSUME NEW k \in Keys, SyncPut(k) PROVE ToldInv'
  <2>1. start.val[k] # None
    BY <1>a, <1>2 DEF SyncInv, SyncPut, Present
  <2> QED
    BY <1>a, <1>2, <2>1, SyncPutEffect DEF ToldInv
<1>3. CASE SyncNext
  <2>1. cache' = cache
    BY <1>3 DEF SyncNext
  <2>2. start'.pc = "done" => told' = Get
    BY <1>a, <1>3, SyncNextEffect
  <2> QED
    BY <1>a, <2>1, <2>2, GetTail DEF ToldInv
<1> QED
  BY <1>1, <1>2, <1>3

LEMMA ToldNext ==
    ASSUME IndInv, Discipline, TailOnTop, ToldInv, Next
    PROVE  ToldInv'
<1>a. LowestIsBare
  BY DEF Discipline
<1>1. CASE SyncRead \/ (\E k \in Keys : SyncPut(k)) \/ SyncNext
  BY <1>a, <1>1, ToldSync
<1>2. ASSUME NEW u \in Updaters, Change(u) PROVE ToldInv'
  BY <1>2, ToldChange
<1>3. ASSUME NEW u \in Updaters, Step(u) PROVE ToldInv'
  BY <1>a, <1>3, ToldRest, ToldPutKey, ToldFallback, ToldNotify, ToldTell, IdleFacts DEF Step
<1> QED
  BY <1>1, <1>2, <1>3 DEF Next

LEMMA ToldAgrees ==
    ASSUME IndInv, LowestIsBare, ToldInv
    PROVE  WatcherAgrees
<1> SUFFICES ASSUME Settled, ~late, Tail1 \notin start.raced, NodeLevel(cache[Tail1]) = Top PROVE told = Get
  BY DEF WatcherAgrees, Tail1, Top
<1>a. TypeInv /\ AllJobs
  BY DEF IndInv
<1>1. cache[Tail1] \in Nodes
  BY <1>a, NsFacts DEF TypeInv
<1>2. cache[Tail1] # None /\ cache[Tail1][1] = Top
  <2>1. Top # -1
    BY LevelFacts
  <2> QED
    BY <1>1, <2>1, NodeLevelFacts
<1>3. cache[Tail1][2] # None
  BY <1>1, <1>2, NodeFacts, NoneAssumption
<1>4. \A u \in Updaters : up[u].upd[Tail1] = None
  BY <1>a, NothingToTell DEF Settled, AllJobs
<1> QED
  BY <1>a, <1>2, <1>3, <1>4, GetTail DEF ToldInv, ToTell, Telling, Settled

(* WatcherAgrees (Config): the watcher of a view was told the value the     *)
(* view has, once all is settled and if the last namespace takes it from   *)
(* the last source, which alone uses that namespace, unless the last call  *)
(* of the watcher passed a value that was filtered before the view changed.*)
THEOREM WatcherAgreesThm == Discipline /\ TailOnTop => (Spec => []WatcherAgrees)
<1> SUFFICES ASSUME Discipline, TailOnTop PROVE Spec => []WatcherAgrees
  OBVIOUS
<1>1. Init => ToldInv
  BY DEF Init, ToldInv
<1>2. IndInv /\ ToldInv /\ [Next]_vars => ToldInv'
  <2>1. ASSUME IndInv, ToldInv, Next PROVE ToldInv'
    BY <2>1, ToldNext
  <2>2. ASSUME ToldInv, UNCHANGED vars PROVE ToldInv'
    BY <2>2 DEF vars, ToldInv, ToTell, Telling
  <2> QED
    BY <2>1, <2>2
<1>3. IndInv /\ ToldInv => WatcherAgrees
  BY ToldAgrees DEF Discipline
<1> QED
  BY <1>1, <1>2, <1>3, IndInvHolds, PTL DEF Spec
=============================================================================
