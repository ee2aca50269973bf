------------------------------- MODULE Server -------------------------------
(* Processes that start and stop a server: internal/server.Server.Run with  *)
(* the grpc server, the http server in front of it, the start and stop      *)
(* hooks of their services, the in-process registry of each process, the    *)
(* registry all processes share, and the finalization of lifecycle.         *)
(*                                                                          *)
(* The four ways of serving (grpc alone; grpc and http on one address with  *)
(* and without TLS; on two addresses) differ in which goroutine prepares    *)
(* what, and in what order.  log.Fatal calls lifecycle.Exit, which runs     *)
(* finalization while all other goroutines go on, and then ends the         *)
(* process.  An error of the environment (a listener, a certificate, the    *)
(* registry, a hook) is a nondeterministic choice.                          *)
EXTENDS Naturals, Sequences

CONSTANTS
    Procs,        \* processes
    GrpcSvcs,     \* process -> its registered grpc services
    HttpSvcs,     \* process -> its registered http services
    Names,        \* grpc service -> sequence of the names it registers: its aliases, else its own
    Configs       \* process -> the options it may be started with

ASSUME NamesAssumption ==
    \A p \in Procs : \A s \in GrpcSvcs[p] :
        Len(Names[s]) \in Nat \ {0} /\ DOMAIN Names[s] = 1..Len(Names[s])

\* A service is the registration of one server: its start hook is run once.
ASSUME SvcsAssumption == \A p \in Procs : GrpcSvcs[p] \cap HttpSvcs[p] = {}

VARIABLES
    opts,      \* process -> its Options
    main,      \* process -> step of the goroutine in Run
    srv,       \* process -> "grpc" and "http" -> step of that server
    svc,       \* process -> service -> step of its start hook goroutine
    started,   \* process -> services whose start hook returned nil
    memory,    \* process -> names in memory_registry.GlobalRegistry
    listed,    \* process -> service -> what ListAllService returned
    registry,  \* the shared registry: entries of a name, a server and its kind and TLS flag
    hooks,     \* process -> finalize hooks
    exit       \* process -> "no", "finalizing" or "dead"

vars == <<opts, main, srv, svc, started, memory, listed, registry, hooks, exit>>

Svcs(p) == GrpcSvcs[p] \cup HttpSvcs[p]
NamesOf(s) == {Names[s][i] : i \in DOMAIN Names[s]}
Alive(p) == exit[p] # "dead"

(* IsAutoPort: an address without a fixed port.                             *)
IsAutoPort(addr) == addr = "auto"

(* ParseOptions: one address serves both if both are the same and fixed, or *)
(* if the http address says so.  A certificate turns TLS on, also for a     *)
(* server configured insecure; without one and not insecure, a self-signed  *)
(* certificate does.                                                        *)
ParseOptions(http, web, addr, httpAddr, insecure, cert, register, hangs) ==
    [http |-> http, web |-> web,
     mux |-> (addr = httpAddr /\ ~IsAutoPort(httpAddr)) \/ httpAddr = "multiplex",
     tls |-> ~insecure \/ cert,
     register |-> register,   \* a registry is configured and the handler registers initially
     hangs |-> hangs]         \* services whose start hook does not return

(* serve decides which goroutine runs which server.                         *)
Mode(p) == CASE ~(opts[p].http \/ opts[p].web) -> "grpc"
             [] opts[p].mux /\ opts[p].tls -> "muxtls"
             [] opts[p].mux /\ ~opts[p].tls -> "mux"
             [] OTHER -> "split"

(* The server that Run's own goroutine serves; cmux does in "mux".          *)
MainServer(p) == CASE Mode(p) = "muxtls" -> "http" [] Mode(p) = "mux" -> "none" [] OTHER -> "grpc"

Entry(p, n, s, kind) == [name |-> n, proc |-> p, svc |-> s, kind |-> kind, tls |-> opts[p].tls]

(* os.Exit: nothing of the process is left but what it registered.          *)
Die(p) ==
    /\ exit' = [exit EXCEPT ![p] = "dead"]
    /\ opts' = [opts EXCEPT ![p] = CHOOSE o \in Configs[p] : TRUE]
    /\ main' = [main EXCEPT ![p] = "parse"]
    /\ srv' = [srv EXCEPT ![p] = [grpc |-> "off", http |-> "off"]]
    /\ svc' = [svc EXCEPT ![p] = [s \in Svcs(p) |-> "off"]]
    /\ started' = [started EXCEPT ![p] = {}]
    /\ memory' = [memory EXCEPT ![p] = {}]
    /\ listed' = [listed EXCEPT ![p] = [s \in GrpcSvcs[p] |-> {}]]
    /\ hooks' = [hooks EXCEPT ![p] = {}]

-----------------------------------------------------------------------------
(* Run and serve.                                                           *)

(* Run: the options are there, and a hook is to set the interrupt flag.     *)
Run(p, o) ==
    /\ main[p] = "parse"
    /\ opts' = [opts EXCEPT ![p] = o]
    /\ main' = [main EXCEPT ![p] = "build"]
    /\ hooks' = [hooks EXCEPT ![p] = @ \cup {"interrupt"}]
    /\ UNCHANGED <<srv, svc, started, memory, listed, registry, exit>>

(* serve makes the servers.  If credentials or descriptions are no good,    *)
(* Fatal of the framework's log finalizes, that of the standard log, used   *)
(* by NewHttpServer, does not.                                              *)
NewServers(p) ==
    /\ main[p] = "build"
    /\ \/ /\ main' = [main EXCEPT ![p] = "listen"]
          /\ UNCHANGED <<opts, srv, svc, started, memory, listed, hooks, exit>>
       \/ /\ main' = [main EXCEPT ![p] = "fatal"]
          /\ UNCHANGED <<opts, srv, svc, started, memory, listed, hooks, exit>>
       \/ Mode(p) # "grpc" /\ Die(p)
    /\ UNCHANGED registry

(* The addresses are bound and the servers start to prepare; in "muxtls"    *)
(* the http server waits for the grpc server's preparation.                 *)
Listen(p) ==
    /\ main[p] = "listen"
    /\ \/ /\ main' = [main EXCEPT ![p] = "serve"]
          /\ srv' = [srv EXCEPT ![p] =
                        [grpc |-> "prepare",
                         http |-> CASE Mode(p) = "grpc" -> "off"
                                    [] Mode(p) = "muxtls" -> "wait"
                                    [] OTHER -> "prepare"]]
       \/ main' = [main EXCEPT ![p] = "fatal"] /\ UNCHANGED srv
    /\ UNCHANGED <<opts, svc, started, memory, listed, registry, hooks, exit>>

-----------------------------------------------------------------------------
(* Preparation of the grpc server: grpcServiceHook takes the services out   *)
(* of the in-process registry and starts one goroutine for each.            *)
GrpcPrepare(p) ==
    /\ srv[p].grpc = "prepare"
    /\ srv' = [srv EXCEPT ![p].grpc = "hooks"]
    /\ hooks' = [hooks EXCEPT ![p] = @ \cup {"graceful stop"}]
    /\ memory' = [memory EXCEPT ![p] = @ \ UNION {NamesOf(s) : s \in GrpcSvcs[p]}]
    /\ svc' = [svc EXCEPT ![p] = [s \in Svcs(p) |-> IF s \in GrpcSvcs[p] THEN "start" ELSE @[s]]]
    /\ UNCHANGED <<opts, main, started, listed, registry, exit>>

\* Faulty variant: no timer beside the hook.
InvokeUntimed(p, s) == IF s \in opts[p].hangs THEN {} ELSE {"nil", "error"}

(* InvokeWithTimeout: what the hook returns or, always for one that hangs,  *)
(* the timer's error.                                                       *)
InvokeWithTimeout(p, s) == IF s \in opts[p].hangs THEN {"error"} ELSE {"nil", "error"}

(* The start hook of a service.  An error ends the process.                 *)
StartHook(p, s) ==
    /\ svc[p][s] = "start"
    /\ \/ /\ "nil" \in InvokeWithTimeout(p, s)
          /\ started' = [started EXCEPT ![p] = @ \cup {s}]
          /\ svc' = [svc EXCEPT ![p][s] = IF s \in HttpSvcs[p] THEN "ready" ELSE "memory"]
       \/ /\ "error" \in InvokeWithTimeout(p, s)
          /\ svc' = [svc EXCEPT ![p][s] = "fatal"]
          /\ UNCHANGED started
    /\ UNCHANGED <<opts, main, srv, memory, listed, registry, hooks, exit>>

(* After its start hook a grpc service is registered in process.            *)
MemoryRegister(p, s) ==
    /\ svc[p][s] = "memory"
    /\ memory' = [memory EXCEPT ![p] = @ \cup NamesOf(s)]
    /\ svc' = [svc EXCEPT ![p][s] = "list"]
    /\ UNCHANGED <<opts, main, srv, started, listed, registry, hooks, exit>>

\* Faulty variant: the unregister hook is only added once all is registered.
ListUnhooked(p, s) ==
    /\ svc[p][s] = "list"
    /\ \/ /\ opts[p].register
          /\ listed' = [listed EXCEPT ![p][s] = registry]
          /\ svc' = [svc EXCEPT ![p][s] = "register"]
       \/ /\ ~opts[p].register
          /\ svc' = [svc EXCEPT ![p][s] = "ready"]
          /\ UNCHANGED listed
       \/ svc' = [svc EXCEPT ![p][s] = "fatal"] /\ UNCHANGED listed
    /\ UNCHANGED <<opts, main, srv, started, memory, registry, hooks, exit>>

(* The hook that would unregister the service comes first.  Then            *)
(* registerService reads the whole registry, once for all names.            *)
ListAllService(p, s) ==
    /\ svc[p][s] = "list"
    /\ hooks' = [hooks EXCEPT ![p] = @ \cup {s}]
    /\ \/ /\ opts[p].register
          /\ listed' = [listed EXCEPT ![p][s] = registry]
          /\ svc' = [svc EXCEPT ![p][s] = "register"]
       \/ /\ ~opts[p].register
          /\ svc' = [svc EXCEPT ![p][s] = "ready"]
          /\ UNCHANGED listed
       \/ svc' = [svc EXCEPT ![p][s] = "fatal"] /\ UNCHANGED listed
    /\ UNCHANGED <<opts, main, srv, started, memory, registry, exit>>

(* An instance of the name with another TLS flag was listed.                *)
Conflict(p, s, n) ==
    \E e \in listed[p][s] : e.name = n /\ e.kind = "grpc" /\ e.tls # opts[p].tls

(* The names that a service has not registered yet, by their place.         *)
Todo(p, s) == {i \in DOMAIN Names[s] : Entry(p, Names[s][i], s, "grpc") \notin registry}

\* Faulty variant: a name that cannot be registered ends the loop, not the process.
RegisterLenient(p, s) ==
    /\ svc[p][s] = "register"
    /\ \E i \in Todo(p, s) :
         LET n == Names[s][i] IN
         /\ \A j \in Todo(p, s) : i <= j
         /\ \/ /\ ~Conflict(p, s, n)
               /\ registry' = registry \cup {Entry(p, n, s, "grpc")}
               /\ svc' = [svc EXCEPT ![p][s] = IF \A j \in Todo(p, s) : Names[s][j] = n THEN "ready" ELSE "register"]
            \/ svc' = [svc EXCEPT ![p][s] = "ready"] /\ UNCHANGED registry
    /\ UNCHANGED <<opts, main, srv, started, memory, listed, hooks, exit>>

(* registerService's loop: one name a step, compared with what was listed.  *)
(* A conflict or an error of the registry ends it, and the process.         *)
Register(p, s) ==
    /\ svc[p][s] = "register"
    /\ \E i \in Todo(p, s) :
         LET n == Names[s][i] IN
         /\ \A j \in Todo(p, s) : i <= j
         /\ \/ /\ ~Conflict(p, s, n)
               /\ registry' = registry \cup {Entry(p, n, s, "grpc")}
               /\ svc' = [svc EXCEPT ![p][s] = IF \A j \in Todo(p, s) : Names[s][j] = n THEN "ready" ELSE "register"]
            \/ svc' = [svc EXCEPT ![p][s] = "fatal"] /\ UNCHANGED registry
    /\ UNCHANGED <<opts, main, srv, started, memory, listed, hooks, exit>>

\* Faulty variant: the wait group is not waited for.
GrpcPreparedEarly(p) ==
    /\ srv[p].grpc = "hooks"
    /\ hooks' = [hooks EXCEPT ![p] = @ \cup {"stop hooks"}]
    /\ srv' = [srv EXCEPT ![p] = IF Mode(p) = "muxtls" THEN [grpc |-> "prepared", http |-> "prepare"]
                                 ELSE [@ EXCEPT !.grpc = "serving"]]
    /\ UNCHANGED <<opts, main, svc, started, memory, listed, registry, exit>>

(* wg.Wait is over: the grpc server serves, or the http server goes on.     *)
GrpcPrepared(p) ==
    /\ srv[p].grpc = "hooks" /\ \A s \in GrpcSvcs[p] : svc[p][s] = "ready"
    /\ hooks' = [hooks EXCEPT ![p] = @ \cup {"stop hooks"}]
    /\ srv' = [srv EXCEPT ![p] = IF Mode(p) = "muxtls" THEN [grpc |-> "prepared", http |-> "prepare"]
                                 ELSE [@ EXCEPT !.grpc = "serving"]]
    /\ UNCHANGED <<opts, main, svc, started, memory, listed, registry, exit>>

-----------------------------------------------------------------------------
(* Preparation of the http server.                                          *)
HttpPrepare(p) ==
    /\ srv[p].http = "prepare"
    /\ srv' = [srv EXCEPT ![p].http = "hooks"]
    /\ hooks' = [hooks EXCEPT ![p] = @ \cup {"shutdown"}]
    /\ svc' = [svc EXCEPT ![p] = [s \in Svcs(p) |-> IF s \in HttpSvcs[p] THEN "start" ELSE @[s]]]
    /\ UNCHANGED <<opts, main, started, memory, listed, registry, exit>>

(* What the http server registers: an endpoint for every name if grpc-web   *)
(* is on, and last the rules of all its routes.                             *)
Endpoints(p) ==
    IF opts[p].web THEN {Entry(p, n, "http", "endpoint") : n \in UNION {NamesOf(s) : s \in GrpcSvcs[p]}} ELSE {}
Rules(p) == Entry(p, "http", "http", "rules")

HttpHooksDone(p) ==
    /\ srv[p].http = "hooks" /\ \A s \in HttpSvcs[p] : svc[p][s] = "ready"
    /\ srv' = [srv EXCEPT ![p].http = "register"]
    /\ UNCHANGED <<opts, main, svc, started, memory, listed, registry, hooks, exit>>

(* RegisterServices: the endpoints one by one, then the rules; only then is *)
(* the unregister hook added.  An error of the registry is fatal.           *)
HttpRegister(p) ==
    /\ srv[p].http = "register"
    /\ LET open == Endpoints(p) \ registry IN
       \/ /\ opts[p].register /\ open # {}
          /\ registry' = registry \cup {CHOOSE e \in open : TRUE}
          /\ UNCHANGED <<srv, hooks>>
       \/ /\ ~opts[p].register \/ open = {}
          /\ registry' = IF opts[p].register THEN registry \cup {Rules(p)} ELSE registry
          /\ hooks' = [hooks EXCEPT ![p] = @ \cup {"http unregister"}]
          /\ srv' = [srv EXCEPT ![p].http = "serving"]
       \/ /\ opts[p].register
          /\ srv' = [srv EXCEPT ![p].http = "fatal"]
          /\ UNCHANGED <<registry, hooks>>
    /\ UNCHANGED <<opts, main, svc, started, memory, listed, exit>>

-----------------------------------------------------------------------------
(* From Serve's entry in the list of servers to its removal.                *)
Serving(p, k) == srv[p][k] = "serving"

(* Serving ends only with an error: nothing calls GracefulStop or Shutdown, *)
(* since the hooks that would are never called.                             *)
ServeFails(p, k) ==
    /\ Serving(p, k)
    /\ srv' = [srv EXCEPT ![p][k] = "stop"]
    /\ UNCHANGED <<opts, main, svc, started, memory, listed, registry, hooks, exit>>

MuxFails(p) ==
    /\ main[p] = "serve" /\ Mode(p) = "mux"
    /\ main' = [main EXCEPT ![p] = "returned"]
    /\ UNCHANGED <<opts, srv, svc, started, memory, listed, registry, hooks, exit>>

(* The deferred finalizers run the stop hooks.  Then Run returns the error, *)
(* or the goroutine that served is fatal, since nobody set interrupting;    *)
(* a stop hook that takes too long is fatal as well.                        *)
StopHooks(p, k) ==
    /\ srv[p][k] = "stop"
    /\ \/ /\ k = MainServer(p)
          /\ srv' = [srv EXCEPT ![p][k] = "returned"]
          /\ main' = [main EXCEPT ![p] = "returned"]
       \/ srv' = [srv EXCEPT ![p][k] = "fatal"] /\ UNCHANGED main
    /\ UNCHANGED <<opts, svc, started, memory, listed, registry, hooks, exit>>

-----------------------------------------------------------------------------
(* lifecycle.                                                               *)
Fatal(p) ==
    \/ main[p] = "fatal"
    \/ \E k \in {"grpc", "http"} : srv[p][k] = "fatal"
    \/ \E s \in Svcs(p) : svc[p][s] = "fatal"

(* framework.Init's goroutine gets SIGINT or SIGTERM.                       *)
Signal(p) ==
    /\ exit[p] = "no" /\ main[p] # "parse"
    /\ exit' = [exit EXCEPT ![p] = "finalizing"]
    /\ UNCHANGED <<opts, main, srv, svc, started, memory, listed, registry, hooks>>

(* Exit starts finalization, once; the other goroutines go on meanwhile.    *)
Exit(p) ==
    /\ exit[p] = "no" /\ Fatal(p)
    /\ exit' = [exit EXCEPT ![p] = "finalizing"]
    /\ UNCHANGED <<opts, main, srv, svc, started, memory, listed, registry, hooks>>

(* runHooks over the hooks there were: hookFunc.run returns without calling *)
(* its function, or the time is up; either way the process ends.            *)
RunHooks(p) ==
    /\ exit[p] = "finalizing"
    /\ Die(p)
    /\ UNCHANGED registry

(* The hooks in which RegisterServiceHandler would put the services into    *)
(* the in-process registry are run by nothing at this commit.               *)
Init ==
    /\ opts = [p \in Procs |-> CHOOSE o \in Configs[p] : TRUE]
    /\ main = [p \in Procs |-> "parse"]
    /\ srv = [p \in Procs |-> [grpc |-> "off", http |-> "off"]]
    /\ svc = [p \in Procs |-> [s \in Svcs(p) |-> "off"]]
    /\ started = [p \in Procs |-> {}]
    /\ memory = [p \in Procs |-> {}]
    /\ listed = [p \in Procs |-> [s \in GrpcSvcs[p] |-> {}]]
    /\ registry = {}
    /\ hooks = [p \in Procs |-> {}]
    /\ exit = [p \in Procs |-> "no"]

Prepare(p) == GrpcPrepare(p) \/ GrpcPrepared(p)
PrepareHttp(p) == HttpPrepare(p) \/ HttpHooksDone(p) \/ HttpRegister(p)
Service(p, s) == StartHook(p, s) \/ (s \in GrpcSvcs[p] /\ (MemoryRegister(p, s) \/ ListAllService(p, s) \/ Register(p, s)))

Next ==
    \E p \in Procs :
        /\ Alive(p)
        /\ \/ \E o \in Configs[p] : Run(p, o)
           \/ NewServers(p) \/ Listen(p) \/ MuxFails(p)
           \/ Prepare(p) \/ PrepareHttp(p)
           \/ \E s \in Svcs(p) : Service(p, s)
           \/ \E k \in {"grpc", "http"} : ServeFails(p, k) \/ StopHooks(p, k)
           \/ Signal(p) \/ Exit(p) \/ RunHooks(p)

(* Goroutines run, timers fire; nobody has to start a process, send a       *)
(* signal or break a connection.                                            *)
Fairness ==
    \A p \in Procs :
        /\ WF_vars(Alive(p) /\ (NewServers(p) \/ Listen(p)))
        /\ WF_vars(Alive(p) /\ Prepare(p))
        /\ WF_vars(Alive(p) /\ PrepareHttp(p))
        /\ \A s \in Svcs(p) : WF_vars(Alive(p) /\ Service(p, s))
        /\ WF_vars(Alive(p) /\ Exit(p))
        /\ WF_vars(Alive(p) /\ RunHooks(p))

Spec == Init /\ [][Next]_vars /\ Fairness

-----------------------------------------------------------------------------
(* What the registry announces for a live process is backed by it: the      *)
(* service's start hook succeeded, it can be called in process, and the     *)
(* hook that is to unregister it is there.  (The order of steps in          *)
(* grpcServiceHook's startHookFunc.)                                        *)
AnnouncedIsBacked ==
    \A e \in registry : e.kind = "grpc" /\ Alive(e.proc) =>
        /\ e.svc \in started[e.proc]
        /\ e.name \in memory[e.proc]
        /\ e.svc \in hooks[e.proc]

(* A server takes calls only when the start hooks of its own services       *)
(* succeeded, and behind one TLS address only when all did.  (On a plain    *)
(* shared address or on two, http may take calls for grpc services that are *)
(* still starting.)                                                         *)
ServesWhenStarted ==
    \A p \in Procs :
        /\ Serving(p, "grpc") => GrpcSvcs[p] \subseteq started[p]
        /\ Serving(p, "http") => HttpSvcs[p] \subseteq started[p]
        /\ Serving(p, "http") /\ Mode(p) = "muxtls" => GrpcSvcs[p] \subseteq started[p]

(* A process that registers takes calls only when it can be found under     *)
(* every name: whichever name of whichever service failed, was refused for  *)
(* its TLS flag or is still to come, the server does not serve without it;  *)
(* and http serves when its rules and the endpoints of grpc-web are         *)
(* announced.  (registerService's loop over the aliases, its error, the     *)
(* wait group of grpcServiceHook and HttpServiceRegistryHandler.)           *)
ServesUnderAllNames ==
    \A p \in Procs : opts[p].register =>
        /\ srv[p].grpc \in {"prepared", "serving"} =>
             \A s \in GrpcSvcs[p] : \A n \in NamesOf(s) : Entry(p, n, s, "grpc") \in registry
        /\ Serving(p, "http") => Endpoints(p) \cup {Rules(p)} \subseteq registry

(* A process that was started serves on all its servers or ends, whatever   *)
(* hooks hang or fail: the wait group, the timers and Fatal leave no        *)
(* goroutine waiting for another for ever.                                  *)
StartsOrExits ==
    \A p \in Procs : main[p] = "build" ~>
        \/ ~Alive(p) \/ main[p] = "returned"
        \/ /\ srv[p].grpc \in {"prepared", "serving", "stop"}
           /\ Mode(p) = "grpc" \/ srv[p].http \in {"serving", "stop"}
=============================================================================
