# Verification of go-framework

TLA+ models of `go-framework`, checked with TLC, with proofs checked by TLAPS.
Each module translates the Go sources that `PROJECT.json` names under `map`;
this file says what the parts are, how the models correspond to them, what is
checked and proved, and what is left out.

## The system and its parts

go-framework is a library for gRPC services: it configures a process, finds
and dials other services, wraps calls in policies and serves its own.

| Part | State | Operations | What is hard | Module |
|---|---|---|---|---|
| `internal/retry` | task queue, `signalChan`, `finishChan`, one goroutine and one timer per attempt | `Invoke`, `CancelTask`, retry, timeout, total limit, `Finish` | channels of capacity 1 with a single consumer; four kinds of goroutine may finish a task | `RetryScheduler` |
| `stream` | two channels, closed flags, two contexts, header | send, receive, close, header, status | closing a channel that someone sends on; status behind the last message; cancellation | `GrpcStream` |
| `registry` | entries per service, watchers; the discovery's instances, HTTP matcher, down list | register, unregister, list, watch, pick, down | announcements outside the mutex; list before watch | `Discovery` |
| `balancer` | addresses, connected flags, round robin, notify channel, wait channel | address updates, `Up`, `Get`, `Close` | waking waiters; closing while announcements are under way | `Balancer` |
| `config`, `config_plugins` | one cache per source, one merged cache, views with namespaces, watchers | `Put`, `Del`, `Replace`, reload, `NewConfig`, `Get` | get-then-put on shared caches, reloads on goroutines of their own, levels against namespaces | `Config` |
| `control`, `rate_limit`, `retry`, `circuit_breaker`, `timeout` | cached policy per method, one mechanism per method | lookup, refresh, complete, update mechanism, run | policies of different ages used at the same time, check-then-write | `Policy` |
| `dialer/internal/pool` | a connection and a failure time per slot, single flight | `Dial`, `Clear` | followers depend on the leader's context; redial pacing | `CCPool` |
| `certificate` | stored certificates, consumers, one channel per renewal | `Fetch`, renewal now and in the background, `Produce` | a result announced before anybody listens; channels nobody reads any more | `CertFactory` |
| `credentials` | TLS options, CAs, cached peer headers | configurations of both sides, verification, peer in metadata | options whose order matters; a standard check traded for verifiers; CAs that are rotated | `Credentials` |
| `server`, `lifecycle` | goroutines of two servers and their services, hooks, exit state | `Run`, start and stop hooks, registration, signals, `Exit` | four ways of serving; every step can fail while others go on; finalization beside them | `Server` |
| `http` | tree of path segments, header rules | add a pattern, match | backtracking between literals, `*` and `**` | `PathMatcher` |
| `memory_registry`, `dialer`, `hooks`, `recovery`, `timeout`, `tracing` | in-process services and connections, contexts, ids | register, dial, invoke, handler with its hooks | which goroutine panics, who waits for whom, what a nested context inherits | `MemoryCall` |
| `server/internal/http_server` | routes, answer being written | route, decode, unary and streaming invocation, error answers | order of status, header and body; client leaves; deadline | `HttpCall` |
| `plugin`, `declare`, `framework.go`, `prometheus`, `log`, `pkix`, helpers | start-up tables, wiring around libraries | | mostly sequential or thin wrappers, see "Not modelled" | |

How they interact: the dialer asks the registry for a balancer and a watcher
(registry -> memoryWatcher -> balancer), or finds the service in its own
process (dialer -> memory registry -> handler, with a stream in between for
streaming methods); interceptors ask the control plane for a policy, which reads
it from the configuration (config -> policy -> rate limiter, circuit breaker,
timeout, retry controller); a server starts its services, puts them into the
in-process registry and announces them in the shared one; its http mux routes
requests to the same in-process handlers; both sides take their TLS settings from
the credentials, and these their certificates from the factory. Shared state is
guarded by short mutexes or by concurrent maps, and callbacks run on the
goroutine of whoever made a change.

## Modules

| Module | Models | Uses |
|---|---|---|
| `RetryScheduler` | `internal/retry`: one `Invoke` and everything beside it | |
| `StreamDelivery` | abstract specification: what a client may rely on | |
| `GrpcStream` | `stream/grpc_stream.go` as `StreamingWrapper` drives it; implements `StreamDelivery` | `StreamDelivery` |
| `GrpcStreamProofs` | theorems about it, with the refinement | `GrpcStream` |
| `Discovery`, `MCDiscovery` | `registry/memory.go`, `notifier.go`, `discovery.go`, one service | |
| `Balancer` | `balancer/internal`, round robin and `memoryWatcher` | |
| `RegistryProofs` | theorems about both ends of the registry's announcements | `Discovery`, `Balancer` |
| `Config`, `MCConfig` | `config/internal`, memory and file sources, one name | |
| `ConfigProofs` | theorems about it | `Config` |
| `Policy` | control plane, policy cache, managers, one method | |
| `PolicyProofs` | theorems about it | `Policy` |
| `CCPool` | `dialer/internal/pool`, one slot | |
| `ClientProofs` | theorems about both mechanisms of the client | `RetryScheduler`, `CCPool` |
| `CertFactory` | `certificate`: store, factory, notifier | |
| `Credentials`, `MCCredentials` | `credentials`, handshakes with the factory behind them | `CertFactory` |
| `CredentialsProofs` | theorems about the factory and the handshakes | `Credentials` |
| `Server`, `MCServer` | `server`, `lifecycle`: processes that start and stop | |
| `ServerProofs` | theorems about it | `Server` |
| `PathMatcher` | `http`: matcher and header rules, as operators with a reference | |
| `MemoryCall` | `memory_registry`, `dialer`, `hooks`, `recovery`, `timeout`, request ids | |
| `HttpCall`, `MCHttpCall` | `server/internal/http_server`: mux and invokers, in front of the in-process calls | `MemoryCall`, `PathMatcher` |
| `HttpCallProofs` | theorems about answers, calls and panics | `HttpCall` |

A variable stands for a field, a channel or the control state of a goroutine;
its declaration names the field. An action is one handler up to its next
unlock, channel operation or access to a concurrent map, so that every
interleaving the Go scheduler can produce between such points is explored.
Definitions marked "Faulty variant" are not used by the specifications: each is
a plausible mistake in the definition that follows it, kept to show that the
properties notice it.

**RetryScheduler.** The waiter is the goroutine in `Invoke`; attempts, timers,
the limit goroutine and the callers of `CancelTask` send to `signalChan`, which
only the waiter reads. Time is abstract: an armed timer may fire at any moment.
`Inclusive` chooses between the two policies of one name: that of
`retry/retry.go:78`, which the client's interceptors use, admits `RetryNum <=
retryTimes`, that of `internal/retry/retry_policy.go:14` one attempt less. The
context given to `Invoke` is not cancelled, and one task id is in use at a time
(`ErrDuplicateId` is left out).

**GrpcStream.** Payloads are message numbers and one error marker. `Send` blocks
in a select over space, the client's context and the server's close context;
each ready case may be taken. The handler sends and receives in goroutines of its
own and may go on after an error of `Recv`, as the handlers of
`server/test/grpc_stream_test.go` do; `upDropped` is a history variable with what
cancelled receives took. The goroutine of `NewStream` (`closer`) writes the status
when the handler returns or, under a timeout policy, when its deadline passes,
beside a handler that may still send. The refinement of `StreamDelivery` maps a
handler's panic to an error status, and has the abstract handler return when the
status is queued or the channel closed.

**Discovery.** A registrar changes the entries, takes a snapshot of the
watchers and calls them in three steps. Instances are a bag: their order, which
only round robin uses, is left out. `inWindow` and `missed` are history
variables that delimit the start-up window; `owns` says which registrar deals
with which address and never changes.

**Balancer.** Operations under the balancer's mutex are single steps; `Close`
holds it while waiting for the watcher.

**Config.** One name and its spellings: the bare key (of the sources that ignore
namespaces) and one key per namespace. Updates walk key by key with separate
get and put; the fallback after a deletion reads the lower wrapper and stores
in one step, and a wrapper stores a whole update in one step. The view has a
prefix, so that the bare key differs from the namespaced ones. Updates may begin
while `NewConfig` still reads the sources, since these are watched before;
`start.raced` is a history variable with the keys this happened to. A notification
is filtered in one step and told in another, as `View.OnUpdate` and `OnDelete` do
with no lock in between; `late`, a history variable, says that the last call of the
watcher passed a value the view no longer had. `Filter.Get` is one step here; it
reads key after key in the code.

**Policy.** Of a policy's settings one number is kept (`MaxRequestPerUnit`,
`NumOfRetries`, `ErrorPercentThreshold` or `Timeout` by `kind`). Versions are
ages that count up to one more than the interval, which is all that the code
compares; that two policies have one version only if they are one object makes
the version test of `UpdatePolicy` part of the comparison of settings.
`Has` is TRUE because a lookup of a missing key reports success. `clean` and
`settled` are history variables.

**CCPool.** One slot; the counter that spreads requests over slots is left out.
The library's single flight and the connection's states are external. `Idle`
connections count as connecting. Names of connections are used again once
nobody refers to them, so behaviours are not bounded.

**CertFactory.** A certificate is the time it has left: fresh, due for renewal,
or old (under a minute, perhaps over). A renewal registers its consumer, starts
a producer and waits ten seconds; the producer stores, copies the list of
consumers and tells them one by one, into channels of capacity 1. Issuing is one
step that may fail. Certificates age only while nothing is under way, since the
limits are days and a minute. The module has the steps and their fairness;
`Credentials` has the specification.

**Credentials.** Options are sequences, because their order decides: the
server's flags put `insecure` first, so that a certificate wins, the client's
put it last, so that it wins over everything. CAs are asked once per
configuration, but at every handshake by the verifiers that `WithAuthority`
adds; verifiers take the place of the standard check and are not consulted at
all for the client authentication types 1 and 2; a verify function alone
replaces the chain check. The header of a peer handed on is kept by the serial
numbers of its chain, one after another, with the key that signed it first, and one accepted once is
accepted after the key has changed; a header that is not accepted leaves the
gateway's own name. `crypto/tls` and `crypto/x509` are external: what a
certificate is to them is its CA, usage, names, serial numbers and age.

**Server.** One goroutine per server, per service and for `Run`, in each of a set
of processes that share a registry. `log.Fatal` and signals lead to
`lifecycle.Exit`: finalization runs once, beside all other goroutines, and the
process ends. Finalize hooks are added but not called: `hookFunc.run`
(`lifecycle.go:106`) returns before its function would run, so nothing is
unregistered at the end and no server stops gracefully. For the same reason a
process starts with nothing in its in-process registry: what
`RegisterServiceHandler` leaves to an initialize hook (`description.go:82`) is not
done. The comparison of TLS flags goes by a list read before the first name is
registered, so that two processes that start together may announce one name with
and without TLS; no property rules it out.

**PathMatcher.** The tree is the set of patterns added to it, its nodes are
their prefixes. `MatchInternal` follows the search of the code, including what
it does below `**`; `Stands` and `MoreSpecific` say what a pattern means. A verb
that stands alone is an error (`StandaloneVerb`). `Clear` and the deprecated
`Match` without a method are left out.

**MemoryCall.** A call dials in a goroutine of its own, in process first, then
runs remotely or in a further goroutine against the caller's select. Handlers
are application code: they return, fail, panic, hang, set headers and make calls
themselves, so that options, metadata and ids of nested contexts are joined as
the code joins them. `frames` are the recovers deferred on the goroutine a handler
runs on (of `ServeHTTP`, the wrapper and the recovery interceptor), in the order
in which wrappers, hooks and interceptors nest; a timeout hook starts a goroutine
that has none of those outside of it. A panic unwinds to the innermost (`Unwind`);
with none it ends the process. So does a handler that returns no response to an
in-process call: the goroutine that copies it (`memory_registry/dialer.go:89`)
recovers nothing. `callstack` is the tracing item that a remote call overwrites in
the map of its caller's incoming metadata (`reqid.go:363`), which unary handlers
called without metadata of their own share. Two remote calls of one handler that
write this map at the same time, a data race, are not modelled. `Scenarios` are the
settings a process may have.
`IsInitialized`, which no code of this commit sets to true, is modelled both ways.

**HttpCall.** Request goroutines of the mux on top of `MemoryCall`: routing over
the tables that registration makes, the response writer (the first write decides
status and headers), unary answers and streams. A response that lacks the field
its rule asks for, is not marshalled or is absent fails on the way to the client
(`Converted`), and a writer that cannot flush is refused a stream.

## Runs

| Run | Bounds | Shows |
|---|---|---|
| `retry_serial` | 2 attempts (1 retry, inclusive policy), timeouts, limit, 1 canceller | attempts are bounded, older ones cancelled, at most one orphan that the waiter does not hear of, an outcome on return |
| `retry_quiet` | 5 attempts (exclusive policy), no timers | result xor error, termination, no goroutine left |
| `grpc_stream` | channels of 2, 3 messages each way, 1 header, a deadline at any time or none | no send on a closed channel, order, header rules, refinement of `StreamDelivery`, release on cancel |
| `discovery` | 2 addresses, one registrar each or one for both, 2 operations each, 1 down | agreement outside the start-up window, the HTTP matcher converges, an address given up as down comes back with the next announcement |
| `balancer` | 2 addresses, 2 announcers, 1 getter, 2 flaps | the notified list is current, nothing sent after close, `Close` returns |
| `config_layers` | 3 levels, 2 namespaces and the bare name, 3 updaters | merged cache and view (`ReadsFollowSources`) follow the sources, and so does the watcher but for calls overtaken after the filter |
| `policy` | 2 requests, 4 kinds, interval 1 | a change is in force after one interval; refresh keeps the mechanism |
| `ccpool` | 2 requests, 3 connections | no lost connection, paced dialling, every `Dial` returns |
| `credentials` | 2 callers of `Fetch`, 2 renewals, 20 settings of servers, 13 of clients, 3 sets of CAs | no renewal misses its result, no certificate about to expire, every `Fetch` returns, open connections are what both sides asked for |
| `server` | 2 processes with a common service, all ways of serving, a hook that hangs | what is announced is started and callable, servers serve started services, a process that registers serves only under all its names, start-up ends |
| `http_call` | 1 request, 2 calls, every two of 18 templates over 16 paths, and 16 other scenarios | routing is right, answers tell what happened, contexts do not leak, panics are contained, whoever has a deadline gets an answer |
| `retry_limit_hang` | 1 attempt, limit | violated: with a total limit, `Invoke` can hang, since the consumer of `signalChan` blocks sending to itself (`findings`) |

The bounds are the smallest with which each race of two actors happens and a
third can interfere: channels that fill and drain within the message bound, a
queue that evicts, two namespaces and three levels (a value above, below and
between), one more connection than requests that can hold one, a renewal in the
foreground beside one in the background, two nested calls under a request.
Channel capacities keep their role (1 in `RetryScheduler`, `Balancer` and
`CertFactory` as in the code, 2 for 16 in `GrpcStream`, where only full, empty
and between matter). Three components are enough for a path to go through a
literal, a `*` and a `**` and to return. Runs on finite work say
`CHECK_DEADLOCK FALSE` because the system may stop there.

Attempts that overlap (`Serial = FALSE`) are covered by the theorems, which hold
for both values.

### What the passing properties leave out on purpose

Each of these is a case in which the code does not do what one would like; the
property names the case, so that it says that nothing else goes wrong.

- `AllGoroutinesExit` is checked without timers, limit and cancellers. With
  them a goroutine that passed its validity check can stay blocked on
  `signalChan` or `finishChan` after `Invoke` has returned
  (`Serial = FALSE`, `HasTimeout = TRUE`, `HasLimit = TRUE` shows it).
- `OrphanIsolated` allows the attempt that `Invoke` adds to a queue closed since
  its test (`task_scheduler.go:91`): the scheduler never cancels that one.
- `UplinkFaithful` lets a handler miss the messages that a cancelled `Recv` took
  and dropped (`grpc_stream.go:248`). `DownlinkDelivers` counts the messages
  accepted ahead of the status: one that `SendMsg` accepts after a deadline's
  error was queued is never read.
- `AgreesOutsideStartup` and `MatcherConverges` exclude `missed`: changes
  announced between the listing and the watching of a starting discovery. They
  are about addresses with one registrar each: two that register and unregister
  one address announce outside the mutex (`registry/memory.go:91`) and can leave
  an unregistered address to be picked (`Ownerships` in which both have it).
- `ReadsFollowSources` excludes keys changed while `NewConfig` ran
  (`start.raced`: such a change can replace a value of the command line) and keys
  that a wrapper has not forgotten after a reload without them (`Forgotten`). The
  updaters that run side by side change different keys; two that change one key,
  or two reloads of one file, can leave the older or lower value. The lowest
  source has no namespaced keys in the run: a value it has only there reads as
  empty, because a bare name that is not found counts as level 1
  (`config_impl.go:33`), whatever `--config.namespace` says.
- `WatcherAgrees` is about values that the last namespace has in the last source.
  In other cases a change of the view's value is not always announced
  (`Filter.FilterUpdate`, and the bare key never is). Where it does apply it exempts
  a last call of the watcher that came `late`: `View.OnUpdate` filters and then calls
  the watcher without a lock, and another updater may have changed the value and told
  it in between (`view.go:150`).
- `CloseReturns` has the premise that fewer than three announcements are under
  way; with three, `Close` blocks for ever.
- `ReturnsUsable` is checked for one kind of request per factory: consumers are
  told of every request's outcome (`factory.go:58`), so that with two kinds a
  caller can be woken by the other's.
- `PeerIsVetted` asks for a verified client only with the authentication types 3
  and 4, and for verifiers' CAs since the handshake began.
- `FreshAfterInterval` is checked with no setting of the whole service
  (`ServiceVals`): every key counts as present, so that the fallback to it is
  never taken, see `Has`.
- `NoLeak` lets a connection stand that was dialled into a slot of a pool already
  cleared and dropped (`pool.go:90`): it is in its slot, but nobody closes it any more.
- `PeerIsVetted` is checked with serial numbers that tell the clients apart; see
  `SerialsTell` below.
- `PanicContained` names where a panic ends the process: with recovery on, in a
  stream's handler under a timeout policy, which runs in a goroutine inside the
  recovery, though the flag says "Enable panic-recovery of the server."
  (`server/server.go:37`); and, whatever the settings, where an in-process call
  gets no response to copy.
- `AnswerTells` leaves open the status of a stream that a hook refuses, which is
  500 instead of the status of the hook's error. It allows that the handler's
  header is lost in three cases (`HeaderLost`): the handler is late, its panic was
  recovered outside of `Invoke` (`unary_wrapper.go:71`, which skips the copy of the
  header), or converting the response panicked; and that a reply with a status of
  the handler's choice comes without its header, because the status is written
  first (`invoker.go:89`). After a deadline the handler's goroutine stays in its
  send to a channel nobody reads (`timeout/timeout.go:64`).
- `RouteIsRight` speaks of the most specific rule only if no `**` is followed by
  a literal in one pattern and by `*` in another, and only of lower case: rules
  are compared in lower case by the tree and as they are written by the pattern
  (raw methods by the tree only, so in any case).
  Rules of one node stay in the order of registration, because the comparison of
  their sort looks at the same rule twice (`http/matcher.go:111`).
- `ContextScoped` is checked for two nested calls under a request. In longer
  chains an option that the context already has is not repeated
  (`joinTwoCallOpts`, `dialer/dialer.go:166`): calls with the targets A, B, A and
  then none end at B, not at the nearest A. An option is the same only if one call
  made it. With three options in a context the slice may share its array between
  two calls that append, which is not modelled. `ContextScoped` says who may see the
  overwritten callstack item: handlers that share the request's metadata.
- `OkHasReply` is silent about failures: a connection that `MemoryDialer` has
  cached (`memory_registry/dialer.go:48`) outlives its service and answers
  NotFound; a service whose alias is taken is left half registered
  (`memory_registry/registry.go:93`); one registered by aliases only has no http
  methods.
- `ServesWhenStarted` lets the http server on a plain shared address, or on one of
  its own, take calls for gRPC services that are still starting.

## Fairness

Weak fairness of every goroutine's own steps: the Go scheduler runs a runnable
goroutine eventually. No fairness for the environment (cancellation, arrival of
requests, registrations, changes of the configuration, signals, application
handlers), with these exceptions: the client of a stream keeps receiving until
its stream ends (`ClientRecvMsg`, an assumption on the application, which
`StreamWindsDown` and `CancelReleases` need), timers that are armed fire (`RetryScheduler`,
the deadlines of `CertFactory`, `Server` and `MemoryCall`), the matcher's ticker
ticks (`Discovery`), and contexts end in `CCPool` because `Dial` sets a timeout.
In `CCPool` a leader whose context is done is also not passed over for ever by a
connection that keeps changing state (strong fairness): Go's select picks among
ready cases at random. `HttpCall` has one condition for all goroutines of the
framework together, which suffices because its work is finite.

## Proofs

Every proof has the same shape: an inductive invariant, named `IndInv` (`PoolInv`
for the pool, and `BatonInv` for one theorem), that holds initially and is kept
by every step, one lemma per part of it or per action; the theorems follow from
it. Each invariant was an invariant of a TLC run before it was proved. The
theorems hold for every value of the constants, so for any number of processes, requests, messages,
addresses and retries; the assumptions on the constants are in the modules that
declare them, and TLC evaluates them in every run. Types are a part of each
`IndInv` where a step needs them.

**`ClientProofs`**, the retry scheduler: `TypeCorrect`,
`AttemptsBoundedThm`, `SerialExclusionThm`, `OrphanIsolatedThm`,
`OutcomeOnReturnThm`, `ResultXorErrThm`.

- `AdmittedInv` ties the newest id to the retry number: without it a step could
  add an attempt that the policy did not admit. `QueueInv` says that an attempt
  that is no longer valid has been cancelled, `NewestInv` that after eviction or
  closing only the newest can be valid, `DeafInv` that the callback and the timer
  of an attempt added to a closed queue stop before they send. `OutcomeInv` follows an outcome from the
  sender through `signalChan` to the waiter, which is what a returning waiter
  needs.
- `ResultXorErrThm` has the hypothesis `Undisturbed` (no timeout, no limit, no
  canceller), as the run `retry_quiet` has: with them a result and an error may
  both be recorded. `BatonInv` says that the right to record an outcome is in one
  place: with one attempt, in the channel, or with the waiter. It holds for
  overlapping attempts too.
- Assumptions: `RetryTimesAssumption`, `FlagsAssumption`.

**`ClientProofs`**, the connection pool: `PoolTypeCorrect` (one leader per
flight), `NoLeakThm`, `DialsArePacedThm`.

- `SlotInv` (the leader waits only for a connection that is in the slot and dials
  only into an empty one) and `PacedInv` (between flights, a connection that was
  never ready has a noted failure).
- Assumption `NoneAssumption`: the absent value is no request or connection.

**`GrpcStreamProofs`**: `NoSendOnClosedChannelThm`, `UplinkFaithfulThm`,
`HeaderIsFinalThm`, and the refinement `DownlinkDeliversThm`.

- `PhaseInv` says what has been closed by the step `NewStream`'s goroutine is at
  and that nobody is inside a send on a closed channel. `UplinkInv` says that every
  message that left the channel was received, in order, or taken by a cancelled
  receive; `DownlinkInv` that behind what the client has come the other messages
  in order and, once the status is queued, the error payload, with late messages
  only behind it. `HeaderInv` orders the header before payloads and the end of the
  stream.
- `StepRefines` takes the actions one by one: sends ahead of the status, the
  queueing of the status (or the close without it), receives and the cancellation
  are steps of `StreamDelivery`, everything else stutters. A receive needs
  `DownlinkInv` for the message to be the next one, and for a clean end to follow
  all messages.
- Assumptions: `DepthAssumption`, `BoundsAssumption`.

**`RegistryProofs`**, the discovery: `AgreesOutsideStartupThm`.

- Hypothesis `SingleOwners`: in every way to divide the addresses, each address
  has one registrar. A server registers its own address, so the processes of the
  framework keep it; without it the property is false (see above).
- `AgreeInv` says of each address of a listed or running discovery that it was
  missed, or an announcement about it is awaited, or registry and discovery agree
  on it. For the step that applies the announcement to establish agreement,
  `AnnounceInv` is needed: the registry is still as the announcement says, though
  it is made outside the mutex. `StartInv` says that nobody calls a discovery
  that does not watch.
- Assumptions: `OwnershipsAssumption`, `MetasAssumption`, `BoundsAssumption`.

**`RegistryProofs`**, the balancer: `NotifyIsCurrentThm` and the action property
`NoNotifyAfterCloseThm`. `CloseInv` is what the second needs: `done` is set before
`addrCh` is closed and never reset.

**`ConfigProofs`**: `ReadsFollowSourcesThm`, `WatcherAgreesThm`.

- Both have the hypothesis `Discipline`, which says how a program uses its sources:
  updaters that run side by side change different keys (`DisjointKeys`); whoever
  replaces the lowest source runs alone (`LowestAlone`), since the sweep after a
  reload takes a key that vanished in the meantime for one of the lowest level;
  and the lowest source has bare names only (`LowestIsBare`), since a bare name
  that is not found counts as level 1. `WatcherAgreesThm` adds `TailOnTop`: the last
  namespace is used in the last source only, since a value that moves to another
  source unchanged is not announced. `MCConfig` has them as an assumption,
  which TLC evaluates, so the instance of the run is one the theorems are about.
- `MergedInv` is the heart: except for the sources that are being changed or that
  `NewConfig` has yet to read (`Busy`, `Unread`), a wrapper has what its source
  holds, the merged cache has what the wrapper of its level has, and no higher
  source holds the key. A step keeps it only if what an updater has in its local
  variables is still true: `JobInv` (it has what its source holds, and has told the
  wrapper), `HandInv` (the node it read is still in the cache when it puts or
  falls back), `SweepInv` (what is left to sweep is still in the cache). These rest on
  `AloneInv` and, during start-up, on `RacedInv` (all that is in hand while
  `NewConfig` runs counts as raced) and `SyncInv` (how far the start-up has come).
  `ToldInv` follows a value from the cache through the updater that filters it and
  then tells the watcher; after a call of the watcher the value told is the view's, or
  the call was late.
- That a view's read is right then needs `GetNsFacts`, which says what `Filter.Get`
  picks: the key of the highest level and, among equals, of the last namespace.
  With `LowestIsBare` the level 1 of a missing bare name never beats it.
- Assumptions: `LevelsAssumption`, `KeysAssumption`, `NsAssumption` (there is a
  namespace: `NewFilter` adds the empty one), `NoneAssumption`,
  `UpdatersAssumption`.

**`PolicyProofs`**: `FreshAfterIntervalThm` and the action property
`MechanismKeptThm`.

- `AgeInv`: a policy that differs from the configuration, in the cache or in a
  request's hands, is at least as old as the last change. `CleanInv`: once one
  request began after the interval with none from before under way, all that are
  under way did. `CleanReqInv` follows the setting through such a request, over
  the manager it shares with the others; `MgrInv` says that a settled manager has
  the effective setting and nobody is about to write another.
- Assumptions: `KindsAssumption`, `ValsAssumption`, `IntervalAssumption`, and
  `NoneAssumption`: the absent value is no number and no mechanism.

**`CredentialsProofs`**: `NoLostResultThm`, `ReturnsUsableThm`, `PeerIsVettedThm`.

- Factory: `ConsumersInv` (a renewal is in the notifier's list, once, from
  registration to return), `WakeInv` (a waiting renewal's own producer has not
  copied the list, or still has to tell it, or has told it), `ReqInv`, and
  `FreshInv` (whoever says that a certificate was issued, it is still fresh).
- Handshakes: `SidesInv` (the client's checks are through before the server's
  begin, and stay true of all that was trusted since the handshake began, which
  only grows), `MetaInv` and `HandedOnInv` (a header, cached or handed on, is that
  of a client with the same serial numbers); `ServerInv` and `ShapeInv` are types.
- `ReturnsUsableThm` has the hypothesis `OneRequest`, one kind of certificate per
  factory, as in `credentials/option.go`; with two the property is false.
  `PeerIsVettedThm` has the hypothesis `SerialsTell`: clients with the same serial
  numbers, one after another, have the same name. That is what
  `tlsInfoToMetaMap` goes by, and issuers make serial numbers unique only each for
  itself; two clients of different CAs with the same numbers would be handed on
  under one name. The other conjuncts of `IndInv` do not use the hypotheses.
- Assumptions: `Assumptions` of `CertFactory`, `SetupsAssumption`.

**`ServerProofs`**: `AnnouncedIsBackedThm`, `ServesWhenStartedThm`,
`ServesUnderAllNamesThm`.

- `GrpcSvcInv` and `HttpSvcInv` say what a service's start hook goroutine has left
  behind by the step it is at, `SrvInv` which services a server has waited for in
  each way of serving, `EntryInv` what stands behind an entry of the registry.
- `NamedInv`, proved on top of it, says that a service that is ready has no name left
  to register (`Todo`) and what a server that serves has announced; it lasts because
  nothing is taken out of the registry while the process lives.
- Assumptions: `NamesAssumption` (a service has names), `SvcsAssumption` (a
  registration belongs to one server).

**`HttpCallProofs`**: `OkHasReplyThm`, `PanicContainedThm`, `AnswerTellsThm`.

- `CallInv` says of an in-process call that success is on its way (about to be
  sent, or in the channel) only when the reply is set and the invocation has
  returned it. This lasts because of `InvInv`: an invocation that has returned
  returns nothing else, though after a deadline its handler goes on and may still
  set a header.
- `FrameInv` says that a handler without a recover on its goroutine is one that
  `PanicContained` names, in whatever order hooks were installed; it lasts because
  the frames are fixed when the invocation begins.
- `StageInv` ties the request's goroutine to its invocation and its stream.
  `BodyInv`, `HandInv` and `Queued` account for a stream's messages: those that
  were written, then the one in hand, then those in the queue are what the
  handler has sent, in order, with the error of a handler that failed at the
  end; only a receive that the context ended may lose one. `DoneInv` is
  what remains of it in a finished answer, `UnaryTells` the same for a unary one.
- Steps are grouped by what moves: an invocation (`InvMove`), a call with its
  invocation (`CallMove`), a request with its invocation and stream (`ReqMove`).
  `ReqFrame` says that what an invocation may do behind a finished answer
  (`Keeps`) does not make the answer wrong.
- Assumptions: `InvsAssumption` (requests and calls have different names),
  `MessagesAssumption` (a message is not an error: they have different types),
  `NoneAssumption`. Nothing is assumed of the scenario, of the routes or of how
  deep calls are nested.

Only model-checked:

- liveness (`InvokeReturns`, `AllGoroutinesExit`, `StreamWindsDown`,
  `CancelReleases`, `MatcherConverges`, `GivenUpComesBack`, `CloseReturns`,
  `DialReturns`, `FetchReturns`, `StartsOrExits`, `Returns`): fairness and ENABLED
  are beyond the prover;
- `ContextScoped` and `RouteIsRight`: they compare what the code finds with what a
  recursive function finds (the request a call descends from and the nearest
  target along the chain of its callers; the nodes of the tree of patterns). What
  a recursive function computes for every input needs induction over data.

## Not modelled

The mechanisms that libraries provide (token bucket, circuit, gRPC connections,
TLS, fsnotify); conversions of configuration values, decryption and the parsers
of configuration files; the prefix tree's structure; transcoding of bodies and
parameters, CORS; the issuing of certificates beyond its success or failure;
logging, metrics and tracing output; start-up through flags, plugins and
reflection; the assembly of gRPC dial options; small helpers; vendored and
generated code. `components` in `PROJECT.json` gives the reason for each.

## Plan

1. A composition of `Discovery` with `Balancer` over one registry, and of
   `Policy` with `Config`.
2. `RetryScheduler` with several tasks (`ErrDuplicateId`) and a cancelled caller.
3. The prefix tree and the plugin registry, as algorithms with a reference.
