---------------------------- MODULE ServerProofs ----------------------------
(* Proofs about Server, for any processes, services, aliases and options:   *)
(* what is announced is backed, and a server that takes calls is started    *)
(* and announced under all its names.                                       *)
EXTENDS Server, TLAPS

MainSteps == {"parse", "build", "listen", "serve", "fatal", "returned"}
SrvSteps == {"off", "wait", "prepare", "hooks", "register", "prepared", "serving", "stop", "fatal", "returned"}
SvcSteps == {"off", "start", "memory", "list", "register", "ready", "fatal"}

\* What is kept of a process is a function of the process, or of its services.
TypeInv ==
    /\ main \in [Procs -> MainSteps]
    /\ srv \in [Procs -> [grpc : SrvSteps, http : SrvSteps]]
    /\ exit \in [Procs -> {"no", "finalizing", "dead"}]
    /\ DOMAIN svc = Procs /\ \A p \in Procs : svc[p] \in [Svcs(p) -> SvcSteps]
    /\ DOMAIN listed = Procs /\ \A p \in Procs : DOMAIN listed[p] = GrpcSvcs[p]
    /\ DOMAIN opts = Procs /\ DOMAIN started = Procs /\ DOMAIN memory = Procs /\ DOMAIN hooks = Procs

\* The start hooks run only once their server prepares, and what a service has
\* got through of its start hook goroutine has left its traces.
GrpcSvcInv(p, s) ==
    /\ srv[p].grpc \in {"off", "prepare"} => svc[p][s] = "off"
    /\ svc[p][s] \in {"memory", "list", "register", "ready"} => s \in started[p]
    /\ svc[p][s] \in {"list", "register", "ready"} => NamesOf(s) \subseteq memory[p]
    /\ svc[p][s] = "register" => s \in hooks[p]

HttpSvcInv(p, s) ==
    /\ srv[p].http \in {"off", "wait", "prepare"} => svc[p][s] = "off"
    /\ svc[p][s] = "ready" => s \in started[p]

\* The servers wait for their services, and the http server in front of the
\* grpc server waits for that one's.
SrvInv(p) ==
    /\ main[p] \in {"parse", "build", "listen"} => srv[p].grpc = "off" /\ srv[p].http = "off"
    /\ srv[p].grpc \in {"prepared", "serving"} => GrpcSvcs[p] \subseteq started[p]
    /\ srv[p].http \in {"register", "serving"} => HttpSvcs[p] \subseteq started[p]
    /\ Mode(p) = "muxtls" /\ srv[p].http \notin {"off", "wait"} => srv[p].grpc \notin {"off", "prepare", "hooks"}
    /\ Mode(p) = "muxtls" /\ srv[p].http \notin {"off", "wait"} => GrpcSvcs[p] \subseteq started[p]

ProcInv(p) ==
    /\ \A s \in GrpcSvcs[p] : GrpcSvcInv(p, s)
    /\ \A s \in HttpSvcs[p] : HttpSvcInv(p, s)
    /\ SrvInv(p)

\* A grpc entry of the registry was made by the loop of registerService: the
\* service behind it is past ListAllService.
EntryInv(e) ==
    /\ e.proc \in Procs /\ e.svc \in GrpcSvcs[e.proc]
    /\ Alive(e.proc) =>
         /\ svc[e.proc][e.svc] \in {"register", "ready", "fatal"}
         /\ e.svc \in started[e.proc] /\ e.name \in memory[e.proc] /\ e.svc \in hooks[e.proc]

IndInv ==
    /\ TypeInv
    /\ \A p \in Procs : ProcInv(p)
    /\ \A e \in registry : e.kind = "grpc" => EntryInv(e)

-----------------------------------------------------------------------------
(* A step of one process leaves the others alone *)

Step(p) ==
    \/ \E o \in Configs[p] : Run(p, o)
    \/ NewServers(p) \/ Listen(p) \/ MuxFails(p)
    \/ Prepare(p) \/ PrepareHttp(p)
    \/ \E s \in Svcs(p) : Service(p, s)
    \/ \E k \in {"grpc", "http"} : ServeFails(p, k) \/ StopHooks(p, k)
    \/ Signal(p) \/ Exit(p) \/ RunHooks(p)

\* Nothing of process q changes.
Same(q) ==
    /\ opts'[q] = opts[q] /\ main'[q] = main[q] /\ srv'[q] = srv[q] /\ svc'[q] = svc[q]
    /\ started'[q] = started[q] /\ memory'[q] = memory[q] /\ listed'[q] = listed[q]
    /\ hooks'[q] = hooks[q] /\ exit'[q] = exit[q]

\* The registry only grows, and only by an entry of the process that registers.
LEMMA RegistryStep ==
    ASSUME NEW p \in Procs, Step(p)
    PROVE  registry' = registry \/ \E e : e.proc = p /\ registry' = registry \cup {e}
<1>1. CASE \E s \in Svcs(p) : s \in GrpcSvcs[p] /\ Register(p, s)
  <2>1. PICK s : Register(p, s)
    BY <1>1
  <2>2. \A n : Entry(p, n, s, "grpc").proc = p
    BY DEF Entry
  <2>3. registry' = registry \/ \E n : registry' = registry \cup {Entry(p, n, s, "grpc")}
    BY <2>1 DEF Register
  <2> QED
    BY <2>2, <2>3
<1>2. CASE HttpRegister(p)
  <2> DEFINE open == Endpoints(p) \ registry
             c == CHOOSE e \in open : TRUE
  <2>1. CASE open # {} /\ registry' = registry \cup {c}
    <3>1. c \in Endpoints(p)
      BY <2>1
    <3>2. c.proc = p
      BY <3>1 DEF Endpoints, Entry
    <3> QED
      BY <2>1, <3>2
  <2>2. CASE registry' = registry \/ registry' = registry \cup {Rules(p)}
    <3>1. Rules(p).proc = p
      BY DEF Rules, Entry
    <3> QED
      BY <2>2, <3>1
  <2> QED
    BY <1>2, <2>1, <2>2 DEF HttpRegister
<1> QED
  BY <1>1, <1>2 DEF Step, Run, NewServers, Listen, MuxFails, Prepare, GrpcPrepare, GrpcPrepared,
     PrepareHttp, HttpPrepare, HttpHooksDone, Service, StartHook, MemoryRegister, ListAllService,
     ServeFails, StopHooks, Signal, Exit, RunHooks

\* The handlers change only what belongs to their process.
LEMMA Frame ==
    ASSUME TypeInv, NEW p \in Procs, Step(p), NEW q \in Procs, q # p
    PROVE  Same(q)
<1> USE DEF TypeInv, Same
<1>1. CASE \E o \in Configs[p] : Run(p, o)
  BY <1>1 DEF Run
<1>2. CASE NewServers(p) \/ Listen(p) \/ MuxFails(p)
  BY <1>2 DEF NewServers, Listen, MuxFails, Die
<1>3. CASE Prepare(p)
  BY <1>3 DEF Prepare, GrpcPrepare, GrpcPrepared
<1>4. CASE PrepareHttp(p)
  BY <1>4 DEF PrepareHttp, HttpPrepare, HttpHooksDone, HttpRegister
<1>5. ASSUME NEW s \in Svcs(p), Service(p, s) PROVE Same(q)
  BY <1>5 DEF Service, StartHook, MemoryRegister, ListAllService, Register
<1>6. ASSUME NEW k \in {"grpc", "http"}, ServeFails(p, k) \/ StopHooks(p, k) PROVE Same(q)
  BY <1>6 DEF ServeFails, StopHooks
<1>7. CASE Signal(p) \/ Exit(p) \/ RunHooks(p)
  BY <1>7 DEF Signal, Exit, RunHooks, Die
<1> QED
  BY <1>1, <1>2, <1>3, <1>4, <1>5, <1>6, <1>7 DEF Step

\* The invariant of a process survives the steps of the others.
LEMMA OthersProc ==
    ASSUME TypeInv, NEW p \in Procs, Step(p), NEW q \in Procs, q # p, ProcInv(q)
    PROVE  ProcInv(q)'
<1>1. Same(q)
  BY Frame
<1>2. Mode(q)' = Mode(q)
  BY <1>1 DEF Same, Mode
<1>3. \A s \in GrpcSvcs[q] : GrpcSvcInv(q, s)'
  BY <1>1 DEF ProcInv, GrpcSvcInv, Same
<1>4. \A s \in HttpSvcs[q] : HttpSvcInv(q, s)'
  BY <1>1 DEF ProcInv, HttpSvcInv, Same
<1>5. SrvInv(q)'
  BY <1>1, <1>2 DEF ProcInv, SrvInv, Same
<1> QED
  BY <1>3, <1>4, <1>5 DEF ProcInv

-----------------------------------------------------------------------------
(* Types *)

LEMMA InitType == Init => TypeInv
BY DEF Init, TypeInv, MainSteps, SrvSteps, SvcSteps

LEMMA DieType ==
    ASSUME TypeInv, NEW p \in Procs, Die(p)
    PROVE  TypeInv'
<1> USE DEF TypeInv, Die, MainSteps, SrvSteps, SvcSteps
<1>1. main' \in [Procs -> MainSteps] /\ exit' \in [Procs -> {"no", "finalizing", "dead"}]
  OBVIOUS
<1>2. srv' \in [Procs -> [grpc : SrvSteps, http : SrvSteps]]
  OBVIOUS
<1>3. DOMAIN svc' = Procs /\ \A q \in Procs : svc'[q] \in [Svcs(q) -> SvcSteps]
  OBVIOUS
<1>4. DOMAIN listed' = Procs /\ \A q \in Procs : DOMAIN listed'[q] = GrpcSvcs[q]
  OBVIOUS
<1> QED
  BY <1>1, <1>2, <1>3, <1>4

\* Updates of one server and of one service keep the types.
SrvType(f) == f \in [Procs -> [grpc : SrvSteps, http : SrvSteps]]
SvcType(f) == DOMAIN f = Procs /\ \A p \in Procs : f[p] \in [Svcs(p) -> SvcSteps]

LEMMA SvcUpdate ==
    ASSUME TypeInv, NEW p \in Procs, NEW s \in Svcs(p), NEW w \in SvcSteps
    PROVE  SvcType([svc EXCEPT ![p][s] = w])
BY DEF TypeInv, SvcType

LEMMA SrvUpdate ==
    ASSUME TypeInv, NEW p \in Procs, NEW k \in {"grpc", "http"}, NEW w \in SrvSteps
    PROVE  SrvType([srv EXCEPT ![p][k] = w])
<1>1. CASE k = "grpc"
  BY <1>1 DEF TypeInv, SrvType
<1>2. CASE k = "http"
  BY <1>2 DEF TypeInv, SrvType
<1> QED
  BY <1>1, <1>2

LEMMA TypeStep ==
    ASSUME TypeInv, NEW p \in Procs, Step(p)
    PROVE  TypeInv'
<1>0. GrpcSvcs[p] \subseteq Svcs(p)
  BY DEF Svcs
<1>a. ASSUME SrvType(srv'), UNCHANGED <<main, svc, listed, exit, opts, started, memory>>, DOMAIN hooks' = Procs
      PROVE  TypeInv'
  BY <1>a DEF TypeInv, SrvType
<1>b. ASSUME SvcType(svc'), UNCHANGED <<main, srv, exit, opts>>,
             DOMAIN listed' = Procs /\ \A q \in Procs : DOMAIN listed'[q] = GrpcSvcs[q],
             DOMAIN hooks' = Procs, DOMAIN started' = Procs, DOMAIN memory' = Procs
      PROVE  TypeInv'
  BY <1>b DEF TypeInv, SvcType
<1>c. ASSUME main' \in [Procs -> MainSteps], SrvType(srv'),
             UNCHANGED <<svc, listed, exit, opts, started, memory, hooks>>
      PROVE  TypeInv'
  BY <1>c DEF TypeInv, SrvType
<1> USE DEF MainSteps, SrvSteps, SvcSteps
<1>1. CASE \E o \in Configs[p] : Run(p, o)
  BY <1>1 DEF Run, TypeInv
<1>2. CASE NewServers(p)
  BY <1>2, DieType DEF NewServers, TypeInv
<1>3. CASE Listen(p)
  <2>1. main' \in [Procs -> MainSteps]
    BY <1>3 DEF Listen, TypeInv
  <2>2. SrvType(srv')
    BY <1>3 DEF Listen, TypeInv, SrvType
  <2> QED
    BY <1>3, <1>c, <2>1, <2>2 DEF Listen
<1>4. CASE MuxFails(p)
  BY <1>4 DEF MuxFails, TypeInv
<1>5. CASE GrpcPrepare(p)
  <2>1. SrvType(srv')
    BY <1>5, SrvUpdate DEF GrpcPrepare
  <2>2. SvcType(svc')
    <3> DEFINE new == [s \in Svcs(p) |-> IF s \in GrpcSvcs[p] THEN "start" ELSE svc[p][s]]
    <3>1. new \in [Svcs(p) -> SvcSteps]
      BY DEF TypeInv
    <3>2. svc' = [svc EXCEPT ![p] = new]
      BY <1>5 DEF GrpcPrepare
    <3> HIDE DEF new
    <3> QED
      BY <3>1, <3>2 DEF TypeInv, SvcType
  <2>3. DOMAIN hooks' = Procs /\ DOMAIN memory' = Procs /\ UNCHANGED <<main, exit, opts, listed, started>>
    BY <1>5 DEF GrpcPrepare, TypeInv
  <2> QED
    BY <2>1, <2>2, <2>3 DEF TypeInv, SrvType, SvcType
<1>6. CASE GrpcPrepared(p)
  <2>1. SrvType(srv')
    <3>1. CASE srv' = [srv EXCEPT ![p] = [grpc |-> "prepared", http |-> "prepare"]]
      BY <3>1 DEF TypeInv, SrvType
    <3>2. CASE srv' = [srv EXCEPT ![p].grpc = "serving"]
      BY <3>2 DEF TypeInv, SrvType
    <3> QED
      BY <1>6, <3>1, <3>2 DEF GrpcPrepared
  <2>2. DOMAIN hooks' = Procs
    BY <1>6 DEF GrpcPrepared, TypeInv
  <2> QED
    BY <1>6, <1>a, <2>1, <2>2 DEF GrpcPrepared
<1>7. CASE HttpPrepare(p)
  BY <1>7 DEF HttpPrepare, TypeInv
<1>8. CASE HttpHooksDone(p)
  BY <1>8 DEF HttpHooksDone, TypeInv
<1>9. CASE HttpRegister(p)
  <2>1. SrvType(srv')
    <3>1. \/ srv' = srv \/ srv' = [srv EXCEPT ![p].http = "serving"] \/ srv' = [srv EXCEPT ![p].http = "fatal"]
      BY <1>9 DEF HttpRegister
    <3> QED
      BY <3>1 DEF TypeInv, SrvType
  <2>2. DOMAIN hooks' = Procs
    BY <1>9 DEF HttpRegister, TypeInv
  <2> QED
    BY <1>9, <1>a, <2>1, <2>2 DEF HttpRegister
<1>10. ASSUME NEW s \in Svcs(p), StartHook(p, s) PROVE TypeInv'
  <2>1. SvcType(svc')
    BY <1>10, SvcUpdate DEF StartHook
  <2>2. DOMAIN started' = Procs
    BY <1>10 DEF StartHook, TypeInv
  <2> QED
    BY <1>10, <1>b, <2>1, <2>2 DEF StartHook, TypeInv
<1>11. ASSUME NEW s \in GrpcSvcs[p], MemoryRegister(p, s) PROVE TypeInv'
  BY <1>11 DEF MemoryRegister, TypeInv
<1>12. ASSUME NEW s \in GrpcSvcs[p], ListAllService(p, s) PROVE TypeInv'
  <2>1. SvcType(svc')
    BY <1>12, <1>0, SvcUpdate DEF ListAllService
  <2>2. DOMAIN listed' = Procs /\ \A q \in Procs : DOMAIN listed'[q] = GrpcSvcs[q]
    BY <1>12 DEF ListAllService, TypeInv
  <2>3. DOMAIN hooks' = Procs
    BY <1>12 DEF ListAllService, TypeInv
  <2> QED
    BY <1>12, <1>b, <2>1, <2>2, <2>3 DEF ListAllService, TypeInv
<1>13. ASSUME NEW s \in GrpcSvcs[p], Register(p, s) PROVE TypeInv'
  <2>1. SvcType(svc')
    <3>1. \/ svc' = [svc EXCEPT ![p][s] = "ready"] \/ svc' = [svc EXCEPT ![p][s] = "register"]
          \/ svc' = [svc EXCEPT ![p][s] = "fatal"]
      BY <1>13 DEF Register
    <3> QED
      BY <1>0, <3>1, SvcUpdate
  <2> QED
    BY <1>13, <1>b, <2>1 DEF Register, TypeInv
<1>14. ASSUME NEW k \in {"grpc", "http"}, ServeFails(p, k) PROVE TypeInv'
  <2>1. SrvType(srv')
    BY <1>14, SrvUpdate DEF ServeFails
  <2> QED
    BY <1>14, <1>a, <2>1 DEF ServeFails, TypeInv
<1>15. ASSUME NEW k \in {"grpc", "http"}, StopHooks(p, k) PROVE TypeInv'
  <2>1. SrvType(srv')
    BY <1>15, SrvUpdate DEF StopHooks
  <2>2. main' \in [Procs -> MainSteps]
    BY <1>15 DEF StopHooks, TypeInv
  <2> QED
    BY <1>15, <1>c, <2>1, <2>2 DEF StopHooks
<1>16. CASE Signal(p) \/ Exit(p)
  <2>1. /\ exit' = [exit EXCEPT ![p] = "finalizing"]
        /\ UNCHANGED <<opts, main, srv, svc, started, memory, listed, hooks>>
    BY <1>16 DEF Signal, Exit
  <2> QED
    BY <2>1 DEF TypeInv
<1>17. CASE RunHooks(p)
  BY <1>17, DieType DEF RunHooks
<1> QED
  BY <1>1, <1>2, <1>3, <1>4, <1>5, <1>6, <1>7, <1>8, <1>9, <1>10, <1>11, <1>12, <1>13, <1>14, <1>15,
     <1>16, <1>17 DEF Step, Prepare, PrepareHttp, Service

-----------------------------------------------------------------------------
(* The process that takes the step *)

\* Only registerService adds grpc entries.
LEMMA HttpRegistersOther ==
    ASSUME NEW p \in Procs, HttpRegister(p)
    PROVE  \A e \in registry' : e.kind = "grpc" => e \in registry
<1> DEFINE open == Endpoints(p) \ registry
           c == CHOOSE e \in open : TRUE
<1>1. CASE open # {} /\ registry' = registry \cup {c}
  <2>1. c \in Endpoints(p)
    BY <1>1
  <2>2. c.kind = "endpoint"
    BY <2>1 DEF Endpoints, Entry
  <2> QED
    BY <1>1, <2>2
<1>2. CASE registry' = registry \/ registry' = registry \cup {Rules(p)}
  <2>1. Rules(p).kind = "rules"
    BY DEF Rules, Entry
  <2> QED
    BY <1>2, <2>1
<1> QED
  BY <1>1, <1>2 DEF HttpRegister

\* A process that ended keeps no state.
LEMMA DieProc ==
    ASSUME TypeInv, NEW p \in Procs, Die(p)
    PROVE  ProcInv(p)'
<1>1. /\ srv'[p].grpc = "off" /\ srv'[p].http = "off"
      /\ \A s \in Svcs(p) : svc'[p][s] = "off"
  BY DEF TypeInv, Die
<1> QED
  BY <1>1 DEF ProcInv, GrpcSvcInv, HttpSvcInv, SrvInv, Svcs

\* Run, NewServers, Listen and MuxFails: no start hook runs before the servers
\* prepare.
LEMMA MainProc ==
    ASSUME TypeInv, NEW p \in Procs, ProcInv(p),
           (\E o \in Configs[p] : Run(p, o)) \/ NewServers(p) \/ Listen(p) \/ MuxFails(p)
    PROVE  ProcInv(p)'
<1> USE DEF TypeInv
<1>1. CASE \E o \in Configs[p] : Run(p, o)
  <2>1. main[p] = "parse" /\ UNCHANGED <<srv, svc, started, memory>>
    BY <1>1 DEF Run
  <2>2. srv[p].grpc = "off" /\ srv[p].http = "off"
    BY <2>1 DEF ProcInv, SrvInv
  <2> QED
    BY <2>1, <2>2 DEF ProcInv, GrpcSvcInv, HttpSvcInv, SrvInv
<1>2. CASE NewServers(p)
  <2>1. CASE Die(p)
    BY <2>1, DieProc
  <2>2. CASE main' = [main EXCEPT ![p] = "listen"] /\ UNCHANGED <<opts, srv, svc, started, memory, listed, hooks, exit>>
    <3>1. Mode(p)' = Mode(p) /\ srv[p].grpc = "off" /\ srv[p].http = "off"
      BY <1>2, <2>2 DEF NewServers, Mode, ProcInv, SrvInv
    <3> QED
      BY <2>2, <3>1 DEF ProcInv, GrpcSvcInv, HttpSvcInv, SrvInv
  <2>3. CASE main' = [main EXCEPT ![p] = "fatal"] /\ UNCHANGED <<opts, srv, svc, started, memory, listed, hooks, exit>>
    <3>1. Mode(p)' = Mode(p) /\ srv[p].grpc = "off" /\ srv[p].http = "off"
      BY <1>2, <2>3 DEF NewServers, Mode, ProcInv, SrvInv
    <3> QED
      BY <2>3, <3>1 DEF ProcInv, GrpcSvcInv, HttpSvcInv, SrvInv
  <2> QED
    BY <1>2, <2>1, <2>2, <2>3 DEF NewServers
<1>3. CASE Listen(p)
  <2>1. /\ main[p] = "listen" /\ UNCHANGED <<opts, svc, started, memory, registry, hooks>>
        /\ main'[p] \in {"serve", "fatal"}
    BY <1>3 DEF Listen
  <2>2. /\ srv[p].grpc = "off" /\ srv[p].http = "off"
        /\ \A s \in GrpcSvcs[p] : svc[p][s] = "off"
        /\ \A s \in HttpSvcs[p] : svc[p][s] = "off"
    BY <2>1 DEF ProcInv, SrvInv, GrpcSvcInv, HttpSvcInv
  <2>3. Mode(p)' = Mode(p)
    BY <2>1 DEF Mode
  <2>4. /\ srv'[p].grpc \in {"off", "prepare"} /\ srv'[p].http \in {"off", "wait", "prepare"}
        /\ Mode(p) = "muxtls" => srv'[p].http \in {"off", "wait"}
    <3>1. CASE UNCHANGED srv
      BY <2>2, <3>1
    <3>2. CASE srv' = [srv EXCEPT ![p] = [grpc |-> "prepare",
                         http |-> CASE Mode(p) = "grpc" -> "off"
                                    [] Mode(p) = "muxtls" -> "wait"
                                    [] OTHER -> "prepare"]]
      <4>1. CASE Mode(p) = "grpc"
        BY <3>2, <4>1
      <4>2. CASE Mode(p) = "muxtls"
        BY <3>2, <4>2
      <4>3. CASE Mode(p) \notin {"grpc", "muxtls"}
        BY <3>2, <4>3
      <4> QED
        BY <4>1, <4>2, <4>3
    <3> QED
      BY <1>3, <3>1, <3>2 DEF Listen
  <2> QED
    BY <2>1, <2>2, <2>3, <2>4 DEF ProcInv, GrpcSvcInv, HttpSvcInv, SrvInv
<1>4. CASE MuxFails(p)
  <2>1. main'[p] = "returned" /\ UNCHANGED <<opts, srv, svc, started, memory, registry, hooks>>
    BY <1>4 DEF MuxFails
  <2>2. Mode(p)' = Mode(p)
    BY <2>1 DEF Mode
  <2> QED
    BY <2>1, <2>2 DEF ProcInv, GrpcSvcInv, HttpSvcInv, SrvInv
<1> QED
  BY <1>1, <1>2, <1>3, <1>4

\* The servers' preparation: a server goes on once its services are ready.
LEMMA PrepareProc ==
    ASSUME TypeInv, NEW p \in Procs, ProcInv(p), Prepare(p) \/ PrepareHttp(p)
    PROVE  ProcInv(p)'
<1> USE DEF TypeInv
<1>0. /\ GrpcSvcs[p] \subseteq Svcs(p) /\ HttpSvcs[p] \subseteq Svcs(p)
      /\ \A s \in HttpSvcs[p] : s \notin GrpcSvcs[p]
  BY SvcsAssumption DEF Svcs
<1>1. CASE GrpcPrepare(p)
  <2>1. /\ srv[p].grpc = "prepare" /\ srv'[p].grpc = "hooks" /\ srv'[p].http = srv[p].http
        /\ UNCHANGED <<opts, main, started, registry>>
    <3>1. /\ srv[p].grpc = "prepare" /\ srv' = [srv EXCEPT ![p].grpc = "hooks"]
          /\ UNCHANGED <<opts, main, started, registry>>
      BY <1>1 DEF GrpcPrepare
    <3> QED
      BY <3>1
  <2>2. /\ \A s \in GrpcSvcs[p] : svc'[p][s] = "start"
        /\ \A s \in HttpSvcs[p] : svc'[p][s] = svc[p][s]
    BY <1>0, <1>1 DEF GrpcPrepare
  <2>3. Mode(p)' = Mode(p)
    BY <2>1 DEF Mode
  <2> QED
    BY <2>1, <2>2, <2>3 DEF ProcInv, GrpcSvcInv, HttpSvcInv, SrvInv
<1>2. CASE GrpcPrepared(p)
  <2>1. /\ srv[p].grpc = "hooks" /\ \A s \in GrpcSvcs[p] : svc[p][s] = "ready"
        /\ UNCHANGED <<opts, main, svc, started, memory, registry>>
    BY <1>2 DEF GrpcPrepared
  <2>2. GrpcSvcs[p] \subseteq started[p]
    BY <2>1 DEF ProcInv, GrpcSvcInv
  <2>3. Mode(p)' = Mode(p)
    BY <2>1 DEF Mode
  <2>4. CASE Mode(p) = "muxtls"
    <3>1. srv'[p].grpc = "prepared" /\ srv'[p].http = "prepare"
      BY <1>2, <2>4 DEF GrpcPrepared
    <3>2. \A s \in HttpSvcs[p] : svc[p][s] = "off"
      BY <2>1, <2>4 DEF ProcInv, SrvInv, HttpSvcInv
    <3> QED
      BY <2>1, <2>2, <2>3, <3>1, <3>2 DEF ProcInv, GrpcSvcInv, HttpSvcInv, SrvInv
  <2>5. CASE Mode(p) # "muxtls"
    <3>1. srv'[p].grpc = "serving" /\ srv'[p].http = srv[p].http
      BY <1>2, <2>5 DEF GrpcPrepared
    <3> QED
      BY <2>1, <2>2, <2>3, <2>5, <3>1 DEF ProcInv, GrpcSvcInv, HttpSvcInv, SrvInv
  <2> QED
    BY <2>4, <2>5
<1>3. CASE HttpPrepare(p)
  <2>1. /\ srv[p].http = "prepare" /\ srv'[p].http = "hooks" /\ srv'[p].grpc = srv[p].grpc
        /\ UNCHANGED <<opts, main, started, memory, registry>> /\ hooks[p] \subseteq hooks'[p]
    BY <1>3 DEF HttpPrepare
  <2>2. /\ \A s \in HttpSvcs[p] : svc'[p][s] = "start"
        /\ \A s \in GrpcSvcs[p] : svc'[p][s] = svc[p][s]
    BY <1>0, <1>3 DEF HttpPrepare
  <2>3. Mode(p)' = Mode(p)
    BY <2>1 DEF Mode
  <2> QED
    BY <2>1, <2>2, <2>3 DEF ProcInv, GrpcSvcInv, HttpSvcInv, SrvInv
<1>4. CASE HttpHooksDone(p)
  <2>1. /\ srv[p].http = "hooks" /\ \A s \in HttpSvcs[p] : svc[p][s] = "ready"
        /\ srv'[p].http = "register" /\ srv'[p].grpc = srv[p].grpc
        /\ UNCHANGED <<opts, main, svc, started, memory, registry, hooks>>
    BY <1>4 DEF HttpHooksDone
  <2>2. HttpSvcs[p] \subseteq started[p]
    BY <2>1 DEF ProcInv, HttpSvcInv
  <2>3. Mode(p)' = Mode(p)
    BY <2>1 DEF Mode
  <2> QED
    BY <2>1, <2>2, <2>3 DEF ProcInv, GrpcSvcInv, HttpSvcInv, SrvInv
<1>5. CASE HttpRegister(p)
  <2>1. /\ srv[p].http = "register" /\ srv'[p].grpc = srv[p].grpc
        /\ srv'[p].http \in {"register", "serving", "fatal"}
    <3>1. \/ srv' = srv \/ srv' = [srv EXCEPT ![p].http = "serving"] \/ srv' = [srv EXCEPT ![p].http = "fatal"]
      BY <1>5 DEF HttpRegister
    <3>2. srv[p].http = "register"
      BY <1>5 DEF HttpRegister
    <3> QED
      BY <3>1, <3>2
  <2>2. UNCHANGED <<opts, main, svc, started, memory>> /\ hooks[p] \subseteq hooks'[p]
    <3>1. hooks' = hooks \/ hooks' = [hooks EXCEPT ![p] = @ \cup {"http unregister"}]
      BY <1>5 DEF HttpRegister
    <3>2. UNCHANGED <<opts, main, svc, started, memory>>
      BY <1>5 DEF HttpRegister
    <3> QED
      BY <3>1, <3>2
  <2>3. Mode(p)' = Mode(p)
    BY <2>2 DEF Mode
  <2> QED
    BY <2>1, <2>2, <2>3 DEF ProcInv, GrpcSvcInv, HttpSvcInv, SrvInv
<1> QED
  BY <1>1, <1>2, <1>3, <1>4, <1>5 DEF Prepare, PrepareHttp

\* Serving ends, hooks stop, the process is signalled or ends.
LEMMA StopProc ==
    ASSUME TypeInv, NEW p \in Procs, ProcInv(p),
           \/ \E k \in {"grpc", "http"} : ServeFails(p, k) \/ StopHooks(p, k)
           \/ Signal(p) \/ Exit(p) \/ RunHooks(p)
    PROVE  ProcInv(p)'
<1> USE DEF TypeInv
<1>1. ASSUME NEW k \in {"grpc", "http"}, ServeFails(p, k) \/ StopHooks(p, k) PROVE ProcInv(p)'
  <2>1. /\ srv[p][k] \in {"serving", "stop"}
        /\ UNCHANGED <<opts, svc, started, memory, registry, hooks>>
        /\ main'[p] = main[p] \/ main'[p] = "returned"
    BY <1>1 DEF ServeFails, StopHooks, Serving
  <2>2. \E w \in {"stop", "returned", "fatal"} : srv' = [srv EXCEPT ![p][k] = w]
    <3>1. \/ srv' = [srv EXCEPT ![p][k] = "stop"] \/ srv' = [srv EXCEPT ![p][k] = "returned"]
          \/ srv' = [srv EXCEPT ![p][k] = "fatal"]
      BY <1>1 DEF ServeFails, StopHooks
    <3> QED
      BY <3>1
  <2>3. Mode(p)' = Mode(p)
    BY <2>1 DEF Mode
  <2>4. CASE k = "grpc"
    <3>1. /\ srv[p].grpc \in {"serving", "stop"} /\ srv'[p].grpc \in {"stop", "returned", "fatal"}
          /\ srv'[p].http = srv[p].http
      <4>1. srv[p]["grpc"] \in {"serving", "stop"}
        BY <2>1, <2>4
      <4>2. PICK w \in {"stop", "returned", "fatal"} : srv' = [srv EXCEPT ![p]["grpc"] = w]
        BY <2>2, <2>4
      <4> QED
        BY <4>1, <4>2
    <3> QED
      BY <2>1, <2>3, <3>1 DEF ProcInv, GrpcSvcInv, HttpSvcInv, SrvInv
  <2>5. CASE k = "http"
    <3>1. /\ srv[p].http \in {"serving", "stop"} /\ srv'[p].http \in {"stop", "returned", "fatal"}
          /\ srv'[p].grpc = srv[p].grpc
      <4>1. srv[p]["http"] \in {"serving", "stop"}
        BY <2>1, <2>5
      <4>2. PICK w \in {"stop", "returned", "fatal"} : srv' = [srv EXCEPT ![p]["http"] = w]
        BY <2>2, <2>5
      <4> QED
        BY <4>1, <4>2
    <3> QED
      BY <2>1, <2>3, <3>1 DEF ProcInv, GrpcSvcInv, HttpSvcInv, SrvInv
  <2> QED
    BY <2>4, <2>5
<1>2. CASE Signal(p) \/ Exit(p)
  <2>1. UNCHANGED <<opts, main, srv, svc, started, memory, registry, hooks>>
    BY <1>2 DEF Signal, Exit
  <2>2. Mode(p)' = Mode(p)
    BY <2>1 DEF Mode
  <2> QED
    BY <2>1, <2>2 DEF ProcInv, GrpcSvcInv, HttpSvcInv, SrvInv
<1>3. CASE RunHooks(p)
  BY <1>3, DieProc DEF RunHooks
<1> QED
  BY <1>1, <1>2, <1>3

\* The start hook goroutine of a service, step by step.
LEMMA ServiceProc ==
    ASSUME IndInv, NEW p \in Procs, Alive(p), NEW s \in Svcs(p), Service(p, s)
    PROVE  ProcInv(p)'
<1> USE DEF TypeInv
<1>0. /\ TypeInv /\ ProcInv(p)
      /\ \A t \in HttpSvcs[p] : t \notin GrpcSvcs[p]
      /\ GrpcSvcs[p] \subseteq Svcs(p) /\ HttpSvcs[p] \subseteq Svcs(p)
  BY SvcsAssumption DEF Svcs, IndInv
<1>1. CASE StartHook(p, s)
  <2>1. /\ svc[p][s] = "start" /\ UNCHANGED <<opts, main, srv, memory, registry, hooks>>
        /\ started[p] \subseteq started'[p]
        /\ \A t \in Svcs(p) : t # s => svc'[p][t] = svc[p][t]
    <3>1. svc' = [svc EXCEPT ![p][s] = "fatal"] \/ svc' = [svc EXCEPT ![p][s] = "ready"]
          \/ svc' = [svc EXCEPT ![p][s] = "memory"]
      BY <1>1 DEF StartHook
    <3>2. started' = started \/ started' = [started EXCEPT ![p] = @ \cup {s}]
      BY <1>1 DEF StartHook
    <3>3. \A t \in Svcs(p) : t # s => svc'[p][t] = svc[p][t]
      BY <1>0, <3>1
    <3> QED
      BY <1>0, <1>1, <3>2, <3>3 DEF StartHook
  <2>2. \/ svc'[p][s] = "fatal"
        \/ s \in started'[p] /\ s \in HttpSvcs[p] /\ svc'[p][s] = "ready"
        \/ s \in started'[p] /\ s \notin HttpSvcs[p] /\ svc'[p][s] = "memory"
    BY <1>0, <1>1 DEF StartHook
  <2>3. Mode(p)' = Mode(p)
    BY <2>1 DEF Mode
  <2>4. ASSUME NEW t \in GrpcSvcs[p] PROVE GrpcSvcInv(p, t)'
    <3>1. CASE t # s
      BY <1>0, <2>1, <2>3, <3>1 DEF ProcInv, GrpcSvcInv
    <3>2. CASE t = s
      BY <1>0, <2>1, <2>2, <3>2 DEF ProcInv, GrpcSvcInv
    <3> QED
      BY <3>1, <3>2
  <2>5. ASSUME NEW t \in HttpSvcs[p] PROVE HttpSvcInv(p, t)'
    <3>1. CASE t # s
      BY <1>0, <2>1, <3>1 DEF ProcInv, HttpSvcInv
    <3>2. CASE t = s
      BY <1>0, <2>1, <2>2, <3>2 DEF ProcInv, HttpSvcInv
    <3> QED
      BY <3>1, <3>2
  <2>6. SrvInv(p)'
    BY <1>0, <2>1, <2>3 DEF ProcInv, SrvInv
  <2> QED
    BY <2>4, <2>5, <2>6 DEF ProcInv
<1>2. CASE s \in GrpcSvcs[p] /\ MemoryRegister(p, s)
  <2>1. /\ svc[p][s] = "memory" /\ UNCHANGED <<opts, main, srv, started, registry, hooks>>
        /\ memory'[p] = memory[p] \cup NamesOf(s)
        /\ svc'[p][s] = "list" /\ \A t \in Svcs(p) : t # s => svc'[p][t] = svc[p][t]
    BY <1>0, <1>2 DEF MemoryRegister
  <2>2. Mode(p)' = Mode(p)
    BY <2>1 DEF Mode
  <2>3. ASSUME NEW t \in GrpcSvcs[p] PROVE GrpcSvcInv(p, t)'
    <3>1. CASE t # s
      BY <1>0, <2>1, <2>2, <3>1 DEF ProcInv, GrpcSvcInv
    <3>2. CASE t = s
      BY <1>0, <2>1, <3>2 DEF ProcInv, GrpcSvcInv
    <3> QED
      BY <3>1, <3>2
  <2>4. ASSUME NEW t \in HttpSvcs[p] PROVE HttpSvcInv(p, t)'
    BY <1>0, <1>2, <2>1 DEF ProcInv, HttpSvcInv
  <2>5. SrvInv(p)'
    BY <1>0, <2>1, <2>2 DEF ProcInv, SrvInv
  <2> QED
    BY <2>3, <2>4, <2>5 DEF ProcInv
<1>3. CASE s \in GrpcSvcs[p] /\ ListAllService(p, s)
  <2>1. /\ svc[p][s] = "list" /\ UNCHANGED <<opts, main, srv, started, memory, registry>>
        /\ hooks'[p] = hooks[p] \cup {s}
    BY <1>0, <1>3 DEF ListAllService
  <2>2. /\ svc'[p][s] \in {"register", "ready", "fatal"}
        /\ \A t \in Svcs(p) : t # s => svc'[p][t] = svc[p][t]
    <3>1. svc' = [svc EXCEPT ![p][s] = "register"] \/ svc' = [svc EXCEPT ![p][s] = "ready"]
          \/ svc' = [svc EXCEPT ![p][s] = "fatal"]
      BY <1>3 DEF ListAllService
    <3> QED
      BY <1>0, <3>1
  <2>3. Mode(p)' = Mode(p)
    BY <2>1 DEF Mode
  <2>6. ASSUME NEW t \in GrpcSvcs[p] PROVE GrpcSvcInv(p, t)'
    <3>1. CASE t # s
      BY <1>0, <2>1, <2>2, <2>3, <3>1 DEF ProcInv, GrpcSvcInv
    <3>2. CASE t = s
      BY <1>0, <2>1, <2>2, <3>2 DEF ProcInv, GrpcSvcInv
    <3> QED
      BY <3>1, <3>2
  <2>7. ASSUME NEW t \in HttpSvcs[p] PROVE HttpSvcInv(p, t)'
    BY <1>0, <1>3, <2>1, <2>2 DEF ProcInv, HttpSvcInv
  <2>8. SrvInv(p)'
    BY <1>0, <2>1, <2>3 DEF ProcInv, SrvInv
  <2> QED
    BY <2>6, <2>7, <2>8 DEF ProcInv
<1>4. CASE s \in GrpcSvcs[p] /\ Register(p, s)
  <2>1. /\ svc[p][s] = "register" /\ UNCHANGED <<opts, main, srv, started, memory, hooks>>
        /\ \/ svc' = [svc EXCEPT ![p][s] = "ready"] \/ svc' = [svc EXCEPT ![p][s] = "register"]
           \/ svc' = [svc EXCEPT ![p][s] = "fatal"]
    BY <1>4 DEF Register
  <2>2. /\ svc'[p][s] \in {"register", "ready", "fatal"}
        /\ \A t \in Svcs(p) : t # s => svc'[p][t] = svc[p][t]
    BY <1>0, <2>1
  <2>3. Mode(p)' = Mode(p)
    BY <2>1 DEF Mode
  <2>4. ASSUME NEW t \in GrpcSvcs[p] PROVE GrpcSvcInv(p, t)'
    <3>1. CASE t # s
      BY <1>0, <2>1, <2>2, <3>1 DEF ProcInv, GrpcSvcInv
    <3>2. CASE t = s
      BY <1>0, <2>1, <2>2, <3>2 DEF ProcInv, GrpcSvcInv
    <3> QED
      BY <3>1, <3>2
  <2>5. ASSUME NEW t \in HttpSvcs[p] PROVE HttpSvcInv(p, t)'
    BY <1>0, <1>4, <2>1, <2>2 DEF ProcInv, HttpSvcInv
  <2>6. SrvInv(p)'
    BY <1>0, <2>1, <2>3 DEF ProcInv, SrvInv
  <2> QED
    BY <2>4, <2>5, <2>6 DEF ProcInv
<1> QED
  BY <1>1, <1>2, <1>3, <1>4 DEF Service

\* A step of a process keeps what is announced of it.
LEMMA OldEntry ==
    ASSUME IndInv, NEW p \in Procs, Alive(p), Step(p), NEW e \in registry, e.kind = "grpc", e.proc = p
    PROVE  EntryInv(e)'
<1> DEFINE s == e.svc
<1> USE DEF TypeInv
<1>0. /\ TypeInv /\ ProcInv(p) /\ EntryInv(e)
      /\ \A t \in HttpSvcs[p] : t \notin GrpcSvcs[p]
      /\ s \in GrpcSvcs[p] /\ s \in Svcs(p)
      /\ svc[p][s] \in {"register", "ready", "fatal"}
      /\ srv[p].grpc \notin {"off", "prepare"}
  BY SvcsAssumption DEF Svcs, IndInv, EntryInv, ProcInv, GrpcSvcInv
<1>a. ASSUME opts'[p] = opts[p], svc'[p][s] = svc[p][s], listed'[p][s] = listed[p][s],
             started[p] \subseteq started'[p], memory[p] \subseteq memory'[p], hooks[p] \subseteq hooks'[p]
      PROVE  EntryInv(e)'
  BY <1>0, <1>a DEF EntryInv, Alive
<1>b. ASSUME Die(p) PROVE EntryInv(e)'
  <2>1. exit'[p] = "dead" /\ listed'[p][s] = {}
    BY <1>0, <1>b DEF Die
  <2> QED
    BY <1>0, <2>1 DEF EntryInv, Alive
<1>1. CASE \E o \in Configs[p] : Run(p, o)
  BY <1>0, <1>1 DEF Run, ProcInv, SrvInv
<1>2. CASE NewServers(p) \/ Listen(p) \/ MuxFails(p)
  BY <1>2, <1>a, <1>b DEF NewServers, Listen, MuxFails
<1>3. CASE GrpcPrepare(p)
  BY <1>0, <1>3 DEF GrpcPrepare
<1>4. CASE GrpcPrepared(p)
  <2>1. hooks[p] \subseteq hooks'[p]
    BY <1>0, <1>4 DEF GrpcPrepared
  <2> QED
    BY <1>4, <1>a, <2>1 DEF GrpcPrepared
<1>5. CASE HttpPrepare(p)
  <2>1. hooks[p] \subseteq hooks'[p] /\ svc'[p][s] = svc[p][s]
    BY <1>0, <1>5 DEF HttpPrepare
  <2> QED
    BY <1>5, <1>a, <2>1 DEF HttpPrepare
<1>6. CASE HttpHooksDone(p)
  BY <1>6, <1>a DEF HttpHooksDone
<1>7. CASE HttpRegister(p)
  <2>1. hooks' = hooks \/ hooks' = [hooks EXCEPT ![p] = @ \cup {"http unregister"}]
    BY <1>7 DEF HttpRegister
  <2>2. hooks[p] \subseteq hooks'[p]
    <3>1. DOMAIN hooks = Procs
      BY <1>0
    <3> QED
      BY <2>1, <3>1
  <2>3. UNCHANGED <<opts, svc, started, memory, listed>>
    BY <1>7 DEF HttpRegister
  <2> QED
    BY <1>a, <2>2, <2>3
<1>8. ASSUME NEW t \in Svcs(p), StartHook(p, t) PROVE EntryInv(e)'
  <2>1. t # s /\ UNCHANGED <<opts, memory, listed, hooks>>
    BY <1>0, <1>8 DEF StartHook
  <2>2. svc' = [svc EXCEPT ![p][t] = "fatal"] \/ svc' = [svc EXCEPT ![p][t] = "ready"]
        \/ svc' = [svc EXCEPT ![p][t] = "memory"]
    BY <1>8 DEF StartHook
  <2>3. started' = started \/ started' = [started EXCEPT ![p] = @ \cup {t}]
    BY <1>8 DEF StartHook
  <2>4. svc'[p][s] = svc[p][s] /\ started[p] \subseteq started'[p]
    BY <1>0, <2>1, <2>2, <2>3
  <2> QED
    BY <1>a, <2>1, <2>4
<1>9. ASSUME NEW t \in GrpcSvcs[p], MemoryRegister(p, t) PROVE EntryInv(e)'
  <2>1. t # s /\ UNCHANGED <<opts, started, listed, hooks>>
    BY <1>0, <1>9 DEF MemoryRegister
  <2>2. svc'[p][s] = svc[p][s] /\ memory[p] \subseteq memory'[p]
    BY <1>0, <1>9, <2>1 DEF MemoryRegister
  <2> QED
    BY <1>a, <2>1, <2>2
<1>10. ASSUME NEW t \in GrpcSvcs[p], ListAllService(p, t) PROVE EntryInv(e)'
  <2>1. t # s /\ UNCHANGED <<opts, started, memory>>
    BY <1>0, <1>10 DEF ListAllService
  <2>2. svc' = [svc EXCEPT ![p][t] = "fatal"] \/ svc' = [svc EXCEPT ![p][t] = "ready"]
        \/ svc' = [svc EXCEPT ![p][t] = "register"]
    BY <1>10 DEF ListAllService
  <2>3. listed' = listed \/ listed' = [listed EXCEPT ![p][t] = registry]
    BY <1>10 DEF ListAllService
  <2>4. hooks[p] \subseteq hooks'[p]
    BY <1>0, <1>10 DEF ListAllService
  <2>5. svc'[p][s] = svc[p][s] /\ listed'[p][s] = listed[p][s]
    BY <1>0, <2>1, <2>2, <2>3
  <2> QED
    BY <1>a, <2>1, <2>4, <2>5
<1>11. ASSUME NEW t \in GrpcSvcs[p], Register(p, t) PROVE EntryInv(e)'
  <2>1. svc' = [svc EXCEPT ![p][t] = "fatal"] \/ svc' = [svc EXCEPT ![p][t] = "ready"]
        \/ svc' = [svc EXCEPT ![p][t] = "register"]
    BY <1>11 DEF Register
  <2>2. svc'[p][s] \in {"register", "ready", "fatal"}
    <3>1. CASE t = s
      BY <1>0, <2>1, <3>1
    <3>2. CASE t # s
      BY <1>0, <2>1, <3>2
    <3> QED
      BY <3>1, <3>2
  <2>3. UNCHANGED <<opts, started, memory, listed, hooks, exit>>
    BY <1>11 DEF Register
  <2> QED
    BY <1>0, <2>2, <2>3 DEF EntryInv, Alive
<1>12. ASSUME NEW k \in {"grpc", "http"}, ServeFails(p, k) \/ StopHooks(p, k) PROVE EntryInv(e)'
  BY <1>12, <1>a DEF ServeFails, StopHooks
<1>13. CASE Signal(p) \/ Exit(p)
  BY <1>13, <1>a DEF Signal, Exit
<1>14. CASE RunHooks(p)
  BY <1>14, <1>b DEF RunHooks
<1> QED
  BY <1>1, <1>2, <1>3, <1>4, <1>5, <1>6, <1>7, <1>8, <1>9, <1>10, <1>11, <1>12, <1>13, <1>14
     DEF Step, Prepare, PrepareHttp, Service

\* A new grpc entry is made by the loop of registerService.
LEMMA NewEntry ==
    ASSUME IndInv, NEW p \in Procs, Alive(p), Step(p), NEW e \in registry', e \notin registry, e.kind = "grpc"
    PROVE  EntryInv(e)'
<1>1. PICK s \in Svcs(p) : s \in GrpcSvcs[p] /\ Register(p, s)
  BY HttpRegistersOther DEF Step, Run, NewServers, Listen, MuxFails, Prepare, GrpcPrepare, GrpcPrepared,
     PrepareHttp, HttpPrepare, HttpHooksDone, Service, StartHook, MemoryRegister, ListAllService,
     ServeFails, StopHooks, Signal, Exit, RunHooks
<1>2. /\ svc[p][s] = "register" /\ UNCHANGED <<opts, started, memory, listed, hooks>>
      /\ svc' = [svc EXCEPT ![p][s] = "ready"] \/ svc' = [svc EXCEPT ![p][s] = "register"]
         \/ svc' = [svc EXCEPT ![p][s] = "fatal"]
  BY <1>1 DEF Register
<1>3. PICK i \in DOMAIN Names[s] : registry' = registry \cup {Entry(p, Names[s][i], s, "grpc")}
  BY <1>1 DEF Register, Todo
<1>4. e.proc = p /\ e.svc = s /\ e.name \in NamesOf(s)
  BY <1>3 DEF Entry, NamesOf
<1>5. svc'[p][s] \in {"register", "ready", "fatal"}
  BY <1>1, <1>2 DEF IndInv, TypeInv
<1>6. s \in started[p] /\ NamesOf(s) \subseteq memory[p] /\ s \in hooks[p]
  BY <1>1, <1>2 DEF IndInv, ProcInv, GrpcSvcInv
<1> QED
  BY <1>1, <1>2, <1>4, <1>5, <1>6 DEF EntryInv

-----------------------------------------------------------------------------
LEMMA InitInd == Init => IndInv
<1> SUFFICES ASSUME Init PROVE IndInv
  OBVIOUS
<1>1. ASSUME NEW p \in Procs PROVE ProcInv(p)
  <2>1. /\ srv[p].grpc = "off" /\ srv[p].http = "off" /\ \A s \in Svcs(p) : svc[p][s] = "off"
    BY DEF Init
  <2> QED
    BY <2>1 DEF ProcInv, GrpcSvcInv, HttpSvcInv, SrvInv, Svcs
<1> QED
  BY <1>1, InitType DEF IndInv, Init

LEMMA Inductive == IndInv /\ [Next]_vars => IndInv'
<1> SUFFICES ASSUME IndInv, [Next]_vars PROVE IndInv'
  OBVIOUS
<1>1. CASE Next
  <2>1. PICK p \in Procs : Alive(p) /\ Step(p)
    BY <1>1 DEF Next, Step
  <2>2. TypeInv'
    BY <2>1, TypeStep DEF IndInv
  <2>3. ASSUME NEW q \in Procs PROVE ProcInv(q)'
    <3>1. CASE q # p
      BY <2>1, <3>1, OthersProc DEF IndInv
    <3>2. ProcInv(p)'
      BY <2>1, MainProc, PrepareProc, StopProc, ServiceProc DEF IndInv, Step
    <3> QED
      BY <3>1, <3>2
  <2>4. ASSUME NEW e \in registry', e.kind = "grpc" PROVE EntryInv(e)'
    <3>1. CASE e \notin registry
      BY <2>1, <2>4, <3>1, NewEntry
    <3>2. CASE e \in registry /\ e.proc = p
      BY <2>1, <2>4, <3>2, OldEntry
    <3>3. CASE e \in registry /\ e.proc # p
      <4>1. EntryInv(e) /\ e.proc \in Procs
        BY <2>4, <3>3 DEF IndInv, EntryInv
      <4>2. Same(e.proc)
        BY <2>1, <3>3, <4>1, Frame DEF IndInv
      <4> QED
        BY <4>1, <4>2 DEF EntryInv, Alive, Same
    <3> QED
      BY <3>1, <3>2, <3>3
  <2> QED
    BY <2>2, <2>3, <2>4 DEF IndInv
<1>2. CASE UNCHANGED vars
  <2>1. TypeInv'
    BY <1>2 DEF IndInv, TypeInv, vars
  <2>2. ASSUME NEW q \in Procs PROVE ProcInv(q)'
    BY <1>2 DEF IndInv, ProcInv, GrpcSvcInv, HttpSvcInv, SrvInv, Mode, vars
  <2>3. ASSUME NEW e \in registry', e.kind = "grpc" PROVE EntryInv(e)'
    BY <1>2, <2>3 DEF IndInv, EntryInv, Alive, vars
  <2> QED
    BY <2>1, <2>2, <2>3 DEF IndInv
<1> QED
  BY <1>1, <1>2

\* The inductive invariant holds in every reachable state of the processes.
THEOREM IndInvHolds == Spec => []IndInv
BY InitInd, Inductive, PTL DEF Spec

\* Whatever processes, aliases, failing or hanging start hooks and endings
\* there are: an entry that registerService made for a live process belongs to
\* a service whose start hook succeeded, that can be called in process, and
\* that has its unregister hook.
THEOREM AnnouncedIsBackedThm == Spec => []AnnouncedIsBacked
<1>1. IndInv => AnnouncedIsBacked
  BY DEF IndInv, EntryInv, AnnouncedIsBacked
<1> QED
  BY <1>1, IndInvHolds, PTL

\* In each of serve's four ways of serving, a server takes calls only when the
\* start hooks of its own services succeeded, and behind one TLS address only
\* when those of both servers did.
THEOREM ServesWhenStartedThm == Spec => []ServesWhenStarted
<1>1. IndInv => ServesWhenStarted
  <2> SUFFICES ASSUME IndInv, NEW p \in Procs
               PROVE  /\ Serving(p, "grpc") => GrpcSvcs[p] \subseteq started[p]
                      /\ Serving(p, "http") => HttpSvcs[p] \subseteq started[p]
                      /\ Serving(p, "http") /\ Mode(p) = "muxtls" => GrpcSvcs[p] \subseteq started[p]
    BY DEF ServesWhenStarted
  <2>1. (Serving(p, "grpc") <=> srv[p].grpc = "serving") /\ (Serving(p, "http") <=> srv[p].http = "serving")
    BY DEF IndInv, TypeInv, Serving
  <2> QED
    BY <2>1 DEF IndInv, ProcInv, SrvInv
<1> QED
  BY <1>1, IndInvHolds, PTL

-----------------------------------------------------------------------------
(* All names *)

\* A service that is ready has registered all its names, and a server that
\* serves has waited for its services.
NamedInv(p) ==
    opts[p].register =>
        /\ \A s \in GrpcSvcs[p] : svc[p][s] = "ready" => Todo(p, s) = {}
        /\ srv[p].grpc \in {"prepared", "serving"} => \A s \in GrpcSvcs[p] : Todo(p, s) = {}
        /\ srv[p].http = "serving" => Endpoints(p) \cup {Rules(p)} \subseteq registry

\* Nothing is taken out of the registry, so that steps that make nothing ready
\* and start no server keep this.
LEMMA NamedFrame ==
    ASSUME NEW p \in Procs, NamedInv(p), opts'[p] = opts[p], registry \subseteq registry',
           \A s \in GrpcSvcs[p] : opts[p].register /\ svc'[p][s] = "ready" =>
               svc[p][s] = "ready" \/ Todo(p, s)' = {},
           opts[p].register /\ srv'[p].grpc \in {"prepared", "serving"} =>
               srv[p].grpc \in {"prepared", "serving"} \/ \A s \in GrpcSvcs[p] : svc[p][s] = "ready",
           opts[p].register /\ srv'[p].http = "serving" =>
               srv[p].http = "serving" \/ (Endpoints(p) \cup {Rules(p)} \subseteq registry)'
    PROVE  NamedInv(p)'
<1>1. \A n, s, k : Entry(p, n, s, k)' = Entry(p, n, s, k)
  BY DEF Entry
<1>2. \A s \in GrpcSvcs[p] : Todo(p, s) = {} => Todo(p, s)' = {}
  BY <1>1 DEF Todo
<1>3. Endpoints(p)' = Endpoints(p) /\ Rules(p)' = Rules(p)
  BY <1>1 DEF Endpoints, Rules
<1> QED
  BY <1>2, <1>3 DEF NamedInv

LEMMA NamedRegister ==
    ASSUME IndInv, NEW p \in Procs, NamedInv(p), NEW s \in GrpcSvcs[p], Register(p, s)
    PROVE  NamedInv(p)'
<1>0. s \in Svcs(p) /\ GrpcSvcs[p] \subseteq Svcs(p)
  BY DEF Svcs
<1>1. UNCHANGED <<opts, srv>> /\ registry \subseteq registry' /\ svc[p][s] = "register"
  BY DEF Register
<1>2. PICK i \in Todo(p, s) :
        \/ /\ registry' = registry \cup {Entry(p, Names[s][i], s, "grpc")}
           /\ svc' = [svc EXCEPT ![p][s] = IF \A j \in Todo(p, s) : Names[s][j] = Names[s][i]
                                             THEN "ready" ELSE "register"]
        \/ svc' = [svc EXCEPT ![p][s] = "fatal"]
  BY DEF Register
<1>3. \A t \in GrpcSvcs[p] : t # s => svc'[p][t] = svc[p][t]
  BY <1>0, <1>2 DEF IndInv, TypeInv
<1>4. svc'[p][s] = "ready" =>
        /\ registry' = registry \cup {Entry(p, Names[s][i], s, "grpc")}
        /\ \A j \in Todo(p, s) : Names[s][j] = Names[s][i]
  <2>1. svc[p] \in [Svcs(p) -> SvcSteps] /\ p \in DOMAIN svc
    BY DEF IndInv, TypeInv
  <2>2. CASE svc' = [svc EXCEPT ![p][s] = "fatal"]
    BY <1>0, <2>1, <2>2
  <2>3. CASE ~(\A j \in Todo(p, s) : Names[s][j] = Names[s][i]) /\ svc' = [svc EXCEPT ![p][s] = "register"]
    BY <1>0, <2>1, <2>3
  <2> QED
    BY <1>2, <2>2, <2>3
<1>5. svc'[p][s] = "ready" => Todo(p, s)' = {}
  BY <1>1, <1>4 DEF Todo, Entry
<1> QED
  BY <1>1, <1>3, <1>5, NamedFrame

LEMMA NamedHttpRegister ==
    ASSUME IndInv, NEW p \in Procs, NamedInv(p), HttpRegister(p)
    PROVE  NamedInv(p)'
<1>1. UNCHANGED <<opts, svc>> /\ registry \subseteq registry' /\ srv[p].http = "register"
  BY DEF HttpRegister
<1>2. \/ srv' = srv \/ srv' = [srv EXCEPT ![p].http = "fatal"]
      \/ srv' = [srv EXCEPT ![p].http = "serving"] /\ (opts[p].register => Endpoints(p) \cup {Rules(p)} \subseteq registry')
  BY DEF HttpRegister
<1>3. Endpoints(p)' = Endpoints(p) /\ Rules(p)' = Rules(p)
  BY <1>1 DEF Endpoints, Rules, Entry
<1>4. srv'[p].grpc = srv[p].grpc
  BY <1>2 DEF IndInv, TypeInv
<1>5. srv'[p].http = "serving" => (opts[p].register => Endpoints(p) \cup {Rules(p)} \subseteq registry')
  BY <1>1, <1>2 DEF IndInv, TypeInv
<1> QED
  BY <1>1, <1>3, <1>4, <1>5, NamedFrame

LEMMA NamedStep ==
    ASSUME IndInv, NEW p \in Procs, NamedInv(p), Step(p)
    PROVE  NamedInv(p)'
<1> USE DEF TypeInv
<1>0. /\ TypeInv /\ ProcInv(p) /\ GrpcSvcs[p] \subseteq Svcs(p)
      /\ \A t \in HttpSvcs[p] : t \notin GrpcSvcs[p]
  BY SvcsAssumption DEF Svcs, IndInv
<1>a. ASSUME Die(p) PROVE NamedInv(p)'
  BY <1>0, <1>a DEF Die, NamedInv
<1>1. CASE \E o \in Configs[p] : Run(p, o)
  <2>1. main[p] = "parse" /\ UNCHANGED <<srv, svc>>
    BY <1>1 DEF Run
  <2>2. srv[p].grpc = "off" /\ srv[p].http = "off" /\ \A s \in GrpcSvcs[p] : svc[p][s] = "off"
    BY <1>0, <2>1 DEF ProcInv, SrvInv, GrpcSvcInv
  <2> QED
    BY <2>1, <2>2 DEF NamedInv
<1>2. CASE NewServers(p)
  BY <1>0, <1>2, <1>a, NamedFrame DEF NewServers
<1>3. CASE Listen(p)
  <2>1. UNCHANGED <<opts, svc, registry>>
    BY <1>3 DEF Listen
  <2>2. srv'[p].grpc \in {srv[p].grpc, "prepare"} /\ srv'[p].http \in {srv[p].http, "off", "wait", "prepare"}
    <3>1. CASE UNCHANGED srv
      BY <3>1
    <3>2. CASE srv' = [srv EXCEPT ![p] = [grpc |-> "prepare",
                         http |-> CASE Mode(p) = "grpc" -> "off"
                                    [] Mode(p) = "muxtls" -> "wait"
                                    [] OTHER -> "prepare"]]
      <4>1. CASE Mode(p) = "grpc"
        BY <1>0, <3>2, <4>1
      <4>2. CASE Mode(p) = "muxtls"
        BY <1>0, <3>2, <4>2
      <4>3. CASE Mode(p) \notin {"grpc", "muxtls"}
        BY <1>0, <3>2, <4>3
      <4> QED
        BY <4>1, <4>2, <4>3
    <3> QED
      BY <1>3, <3>1, <3>2 DEF Listen
  <2> QED
    BY <2>1, <2>2, NamedFrame
<1>4. CASE MuxFails(p) \/ Signal(p) \/ Exit(p)
  BY <1>4, NamedFrame DEF MuxFails, Signal, Exit
<1>5. CASE GrpcPrepare(p)
  <2>1. UNCHANGED <<opts, registry>> /\ srv'[p].grpc = "hooks" /\ srv'[p].http = srv[p].http
    <3>1. UNCHANGED <<opts, registry>> /\ srv' = [srv EXCEPT ![p].grpc = "hooks"]
      BY <1>5 DEF GrpcPrepare
    <3> QED
      BY <1>0, <3>1
  <2>2. \A s \in GrpcSvcs[p] : svc'[p][s] = "start"
    BY <1>0, <1>5 DEF GrpcPrepare
  <2> QED
    BY <2>1, <2>2, NamedFrame
<1>6. CASE GrpcPrepared(p)
  <2>1. UNCHANGED <<opts, svc, registry>> /\ \A s \in GrpcSvcs[p] : svc[p][s] = "ready"
    BY <1>6 DEF GrpcPrepared
  <2>2. srv'[p].http \in {srv[p].http, "prepare"}
    <3>1. CASE Mode(p) = "muxtls"
      <4>1. srv' = [srv EXCEPT ![p] = [grpc |-> "prepared", http |-> "prepare"]]
        BY <1>6, <3>1 DEF GrpcPrepared
      <4>2. srv'[p].http = "prepare"
        BY <1>0, <4>1
      <4> QED
        BY <4>2
    <3>2. CASE Mode(p) # "muxtls"
      <4>1. srv' = [srv EXCEPT ![p] = [srv[p] EXCEPT !.grpc = "serving"]]
        BY <1>6, <3>2 DEF GrpcPrepared
      <4>2. srv'[p].http = srv[p].http
        BY <1>0, <4>1
      <4> QED
        BY <4>2
    <3> QED
      BY <3>1, <3>2
  <2> QED
    BY <2>1, <2>2, NamedFrame
<1>7. CASE HttpPrepare(p)
  <2>1. UNCHANGED <<opts, registry>> /\ srv'[p].http = "hooks" /\ srv'[p].grpc = srv[p].grpc
    BY <1>0, <1>7 DEF HttpPrepare
  <2>2. \A s \in GrpcSvcs[p] : svc'[p][s] = svc[p][s]
    BY <1>0, <1>7 DEF HttpPrepare
  <2> QED
    BY <2>1, <2>2, NamedFrame
<1>8. CASE HttpHooksDone(p)
  <2>1. UNCHANGED <<opts, svc, registry>> /\ srv'[p].http = "register" /\ srv'[p].grpc = srv[p].grpc
    BY <1>0, <1>8 DEF HttpHooksDone
  <2> QED
    BY <2>1, NamedFrame
<1>9. CASE HttpRegister(p)
  BY <1>9, NamedHttpRegister
<1>10. ASSUME NEW t \in Svcs(p), StartHook(p, t) PROVE NamedInv(p)'
  <2>1. UNCHANGED <<opts, srv, registry>>
    BY <1>10 DEF StartHook
  <2>2. \/ svc' = [svc EXCEPT ![p][t] = "fatal"] \/ svc' = [svc EXCEPT ![p][t] = "memory"]
        \/ svc' = [svc EXCEPT ![p][t] = "ready"] /\ t \in HttpSvcs[p]
    BY <1>10 DEF StartHook
  <2>3. \A s \in GrpcSvcs[p] : svc'[p][s] = "ready" => svc[p][s] = "ready"
    BY <1>0, <2>2
  <2> QED
    BY <2>1, <2>3, NamedFrame
<1>11. ASSUME NEW t \in GrpcSvcs[p], MemoryRegister(p, t) PROVE NamedInv(p)'
  <2>1. UNCHANGED <<opts, srv, registry>> /\ svc' = [svc EXCEPT ![p][t] = "list"]
    BY <1>11 DEF MemoryRegister
  <2>2. \A s \in GrpcSvcs[p] : svc'[p][s] = "ready" => svc[p][s] = "ready"
    BY <1>0, <2>1
  <2> QED
    BY <2>1, <2>2, NamedFrame
<1>12. ASSUME NEW t \in GrpcSvcs[p], ListAllService(p, t) PROVE NamedInv(p)'
  <2>1. UNCHANGED <<opts, srv, registry>>
    BY <1>12 DEF ListAllService
  <2>2. \/ svc' = [svc EXCEPT ![p][t] = "fatal"] \/ svc' = [svc EXCEPT ![p][t] = "register"]
        \/ ~opts[p].register
    BY <1>12 DEF ListAllService
  <2>3. opts[p].register => \A s \in GrpcSvcs[p] : svc'[p][s] = "ready" => svc[p][s] = "ready"
    BY <1>0, <2>2
  <2> QED
    BY <2>1, <2>3, NamedFrame
<1>13. ASSUME NEW t \in GrpcSvcs[p], Register(p, t) PROVE NamedInv(p)'
  BY <1>13, NamedRegister
<1>14. ASSUME NEW k \in {"grpc", "http"}, ServeFails(p, k) \/ StopHooks(p, k) PROVE NamedInv(p)'
  <2>1. UNCHANGED <<opts, svc, registry>>
    BY <1>14 DEF ServeFails, StopHooks
  <2>2. \E w \in {"stop", "returned", "fatal"} : srv' = [srv EXCEPT ![p][k] = w]
    <3>1. \/ srv' = [srv EXCEPT ![p][k] = "stop"] \/ srv' = [srv EXCEPT ![p][k] = "returned"]
          \/ srv' = [srv EXCEPT ![p][k] = "fatal"]
      BY <1>14 DEF ServeFails, StopHooks
    <3> QED
      BY <3>1
  <2>3. /\ srv'[p].grpc \in {"prepared", "serving"} => srv'[p].grpc = srv[p].grpc
        /\ srv'[p].http = "serving" => srv'[p].http = srv[p].http
    <3>1. CASE k = "grpc"
      <4>1. PICK w \in {"stop", "returned", "fatal"} : srv' = [srv EXCEPT ![p]["grpc"] = w]
        BY <2>2, <3>1
      <4> QED
        BY <1>0, <4>1
    <3>2. CASE k = "http"
      <4>1. PICK w \in {"stop", "returned", "fatal"} : srv' = [srv EXCEPT ![p]["http"] = w]
        BY <2>2, <3>2
      <4> QED
        BY <1>0, <4>1
    <3> QED
      BY <3>1, <3>2
  <2> QED
    BY <2>1, <2>3, NamedFrame
<1>15. CASE RunHooks(p)
  BY <1>15, <1>a DEF RunHooks
<1> QED
  BY <1>1, <1>2, <1>3, <1>4, <1>5, <1>6, <1>7, <1>8, <1>9, <1>10, <1>11, <1>12, <1>13, <1>14, <1>15
     DEF Step, Prepare, PrepareHttp, Service

LEMMA NamedNext ==
    ASSUME IndInv, \A p \in Procs : NamedInv(p), [Next]_vars
    PROVE  \A p \in Procs : NamedInv(p)'
<1> SUFFICES ASSUME NEW q \in Procs PROVE NamedInv(q)'
  OBVIOUS
<1>1. CASE Next
  <2>1. PICK p \in Procs : Alive(p) /\ Step(p)
    BY <1>1 DEF Next, Step
  <2>2. CASE q = p
    BY <2>1, <2>2, NamedStep
  <2>3. CASE q # p
    <3>1. Same(q) /\ registry \subseteq registry'
      BY <2>1, <2>3, Frame, RegistryStep DEF IndInv
    <3> QED
      BY <3>1, NamedFrame DEF Same
  <2> QED
    BY <2>2, <2>3
<1>2. CASE UNCHANGED vars
  BY <1>2, NamedFrame DEF vars
<1> QED
  BY <1>1, <1>2

\* Whatever fails or is refused on the way: a process that registers serves
\* only when every alias of every service of it, and the rules and endpoints of
\* its http server, are announced.
THEOREM ServesUnderAllNamesThm == Spec => []ServesUnderAllNames
<1> DEFINE Inv == \A p \in Procs : NamedInv(p)
<1>1. Init => Inv
  BY DEF Init, NamedInv, Svcs
<1>2. IndInv /\ Inv /\ [Next]_vars => Inv'
  BY NamedNext
<1>3. IndInv /\ Inv => ServesUnderAllNames
  <2> SUFFICES ASSUME IndInv, Inv, NEW p \in Procs, opts[p].register
               PROVE  /\ srv[p].grpc \in {"prepared", "serving"} =>
                            \A s \in GrpcSvcs[p] : \A n \in NamesOf(s) : Entry(p, n, s, "grpc") \in registry
                      /\ Serving(p, "http") => Endpoints(p) \cup {Rules(p)} \subseteq registry
    BY DEF ServesUnderAllNames
  <2>1. Serving(p, "http") => srv[p].http = "serving"
    BY DEF IndInv, TypeInv, Serving
  <2>2. \A s \in GrpcSvcs[p] : Todo(p, s) = {} => \A n \in NamesOf(s) : Entry(p, n, s, "grpc") \in registry
    BY DEF Todo, NamesOf
  <2> QED
    BY <2>1, <2>2 DEF NamedInv
<1> HIDE DEF Inv
<1> QED
  BY <1>1, <1>2, <1>3, IndInvHolds, PTL DEF Spec
=============================================================================
