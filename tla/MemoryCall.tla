----------------------------- MODULE MemoryCall -----------------------------
(* Unary calls of application code: the connection made by package dialer,  *)
(* which looks for the target in this process first, the registry of        *)
(* in-process services, and the invocation of a handler with its hooks and  *)
(* interceptors.  A handler runs as the invocation of an http request or of *)
(* a call, and makes calls itself, so that contexts nest.                   *)
(*                                                                          *)
(* Handlers are application code: they return, fail, panic, set a header,   *)
(* make calls or hang as they like.  The remote side and the pool of        *)
(* connections are external (CCPool and RetryScheduler model the pool and   *)
(* the retries).                                                            *)
EXTENDS Naturals, Sequences, SequencesExt, FiniteSets

CONSTANTS
    Reqs,        \* http requests
    Calls,       \* calls, numbered in the order in which they begin
    Svcs,        \* services, named as they are called
    Aliases,     \* service -> sequence of its alias names
    Targets,     \* the WithTarget options in use
    Scenarios,   \* name -> settings of the process, and bounds (aliasOnly, churn, hooks, roots, calls, outcomes)
    None

ASSUME InvsAssumption == Reqs \cap Calls = {} /\ None \notin Reqs \cup Calls
ASSUME AliasesAssumption ==
    \A s \in Svcs : \A i, j \in DOMAIN Aliases[s] : Aliases[s][i] = Aliases[s][j] => i = j

VARIABLES
    scn,        \* which of the scenarios this is
    hooked,     \* HookServer has run
    services,   \* MemoryRegistry: name -> None, or a service and whether its methods are there
    conn,       \* targets with a connection in MemoryDialer
    call,       \* call -> its goroutines
    inv,        \* request or call -> the invocation of its handler
    over,       \* http requests whose context is done
    callstack,  \* request or call -> the callstack2 item of the metadata it brought, None if there is none
    crashed     \* None, or the panic nobody recovered: where, and in which invocation

mvars == <<scn, hooked, services, conn, call, inv, over, callstack, crashed>>

Opts == Scenarios[scn]
Invs == Reqs \cup Calls
Names == Svcs \cup UNION {{Aliases[s][k] : k \in DOMAIN Aliases[s]} : s \in Svcs} \cup Targets

(* TracingInfo without the rpc names, the outgoing metadata of a context    *)
(* that has none, and what an empty context holds: tracing information,     *)
(* who sent the incoming metadata, whose map they are in, the outgoing      *)
(* ones, and call options.                                                  *)
NoInfo == [rid |-> None, cid |-> None, pid |-> None]
NoMetadata == {None}
NoCtx == [tr |-> NoInfo, in |-> {}, md |-> None, out |-> NoMetadata, opt |-> <<>>]

IdleCall == [pc |-> "idle", parent |-> None, svc |-> None, opt |-> <<>>, ctxOpt |-> <<>>, out |-> NoMetadata,
             dial |-> "off", cancelled |-> FALSE, mem |-> "off", ch |-> None, res |-> None,
             reply |-> FALSE, to |-> None, trace |-> NoInfo]
IdleInv == [st |-> "off", h |-> "off", val |-> None, res |-> None, timed |-> FALSE, stream |-> FALSE,
            ctx |-> NoCtx, frames |-> <<>>, outer |-> FALSE, hdr |-> {}, copied |-> {}]

-----------------------------------------------------------------------------
(* MemoryRegistry and HookServer.                                           *)

(* RegisterWithServiceInfo: the name, then the aliases, up to the first     *)
(* that is taken; with one taken the methods are not added to those that    *)
(* were free.                                                               *)
RegisterWithServiceInfo(s) ==
    LET order == (IF s \in Opts.aliasOnly THEN <<>> ELSE <<s>>) \o SelectSeq(Aliases[s], LAMBDA a : a # s)
        taken == {k \in DOMAIN order : services[order[k]] # None}
        free == {k \in DOMAIN order : \A j \in taken : k < j}
    IN /\ free # {}
       /\ services' = [n \in Names |-> IF n \in {order[k] : k \in free}
                                       THEN [svc |-> s, ready |-> taken = {}] ELSE services[n]]
       /\ UNCHANGED <<scn, hooked, conn, call, inv, over, callstack, crashed>>

(* UnregisterWithServiceInfo: whoever owns the names.                       *)
UnregisterWithServiceInfo(s) ==
    /\ s \in Opts.churn
    /\ services' = [n \in Names |-> IF n = s \/ n \in {Aliases[s][k] : k \in DOMAIN Aliases[s]}
                                    THEN None ELSE services[n]]
    /\ services' # services
    /\ UNCHANGED <<scn, hooked, conn, call, inv, over, callstack, crashed>>

(* QueryUnary, QueryStreaming: the methods of s, looked for under a name.   *)
Query(n, s) == services[n] # None /\ services[n].svc = s /\ services[n].ready

(* HookServer replaces the handlers in the method descriptors, which the    *)
(* wrappers of the in-process registry share.                               *)
HookServer ==
    /\ ~hooked /\ Opts.hooks
    /\ hooked' = TRUE
    /\ UNCHANGED <<scn, services, conn, call, inv, over, callstack, crashed>>

-----------------------------------------------------------------------------
(* Contexts.                                                                *)

(* The context of a call is done if the call is cancelled, or if the        *)
(* context of the handler that made it is: that of an invocation with a     *)
(* timeout ends with the invocation, that of a request with the request.    *)
CtxDone(d) ==
    LET done[e \in Calls] ==
            LET p == call[e].parent
            IN \/ call[e].cancelled
               \/ /\ p # None
                  /\ \/ inv[p].timed /\ inv[p].st = "ret"
                     \/ p \in over
                     \/ p \in Calls /\ done[p]
    IN done[d]

(* ChildTracingInfo: the call identifies itself, names the caller as its    *)
(* parent and keeps the request id, its own id if there is none.            *)
ChildTracingInfo(info, id) ==
    [rid |-> IF info.rid = None THEN id ELSE info.rid, cid |-> id, pid |-> info.cid]

(* joinTwoCallOpts: options already there are not repeated; an option is an *)
(* object, the same only if it was made by the same call.                   *)
JoinTwoCallOpts(lhs, rhs) == lhs \o SelectSeq(rhs, LAMBDA o : \A k \in DOMAIN lhs : lhs[k] # o)

(* parseCallOpt: the last target option counts, the service if none.        *)
ParseCallOpt(opt, svc) == IF opt = <<>> THEN svc ELSE Last(opt).target

(* What a caller's context hands to a call.                                 *)
CallerCtx(p) == IF p = None THEN NoCtx ELSE inv[p].ctx

-----------------------------------------------------------------------------
(* The client: unaryConnectionWrapper.                                      *)

(* Application code, in the handler of p or elsewhere, calls a method of s, *)
(* with or without a target option and metadata of its own.                 *)
Begin(d, p, s, targets, puts) ==
    LET opt == [k \in DOMAIN targets |-> [target |-> targets[k], by |-> d]]
        out == CallerCtx(p).out
    IN
    /\ call[d].pc = "idle" /\ \A e \in Calls : e < d => call[e].pc # "idle"
    /\ IF p = None THEN Opts.roots ELSE inv[p].h = "run"
    /\ call' = [call EXCEPT ![d] =
         [IdleCall EXCEPT
            !.pc = IF Opts.initialized THEN "dialing" ELSE "done",
            !.res = IF Opts.initialized THEN None ELSE "Unknown",
            !.dial = IF Opts.initialized THEN "load" ELSE "off",
            !.parent = p, !.svc = s, !.opt = opt,
            !.ctxOpt = JoinTwoCallOpts(CallerCtx(p).opt, opt),
            !.out = IF puts THEN (out \ NoMetadata) \cup {d} ELSE out]]
    /\ UNCHANGED <<scn, hooked, services, conn, inv, over, callstack, crashed>>

Target(d) == ParseCallOpt(call[d].opt, call[d].svc)

(* dial, in a goroutine of its own with a context of its own: a connection  *)
(* that was made before is taken without a look at the registry.            *)
DialLoad(d) ==
    /\ call[d].dial = "load"
    /\ call' = [call EXCEPT ![d].dial = IF ~Opts.inproc THEN "pool"
                                        ELSE IF Target(d) \in conn THEN "mem" ELSE "lock"]
    /\ UNCHANGED <<scn, hooked, services, conn, inv, over, callstack, crashed>>

DialMake(d) ==
    /\ call[d].dial = "lock"
    /\ IF Target(d) \in conn \/ services[Target(d)] # None
       THEN call' = [call EXCEPT ![d].dial = "mem"] /\ conn' = conn \cup {Target(d)}
       ELSE call' = [call EXCEPT ![d].dial = "pool"] /\ UNCHANGED conn
    /\ UNCHANGED <<scn, hooked, services, inv, over, callstack, crashed>>

(* The pool dials the target of all options, those of the callers first.    *)
DialPool(d) ==
    /\ call[d].dial = "pool"
    /\ \E r \in {"remote", "fail"} :
         call' = [call EXCEPT ![d].dial = r,
                              ![d].to = ParseCallOpt(call[d].ctxOpt \o call[d].opt, call[d].svc)]
    /\ UNCHANGED <<scn, hooked, services, conn, inv, over, callstack, crashed>>

(* TracingInfoToMetadata, of a call on a connection to another process: the *)
(* callstack2 item that came with the caller is overwritten where it is, in *)
(* the map of the incoming metadata.                                        *)
TracingInfoToMetadata(d) ==
    LET md == CallerCtx(call[d].parent).md
    IN IF md = None \/ callstack[md] = None THEN callstack ELSE [callstack EXCEPT ![md] = d]

(* dialCh is read: calls in this process skip the internal interceptors.    *)
Dialed(d) ==
    /\ call[d].pc = "dialing"
    /\ call[d].dial \in {"mem", "remote", "fail"}
    /\ call' = [call EXCEPT ![d].pc = CASE call[d].dial = "mem" -> "invoking"
                                        [] call[d].dial = "remote" -> "remote"
                                        [] OTHER -> "done",
                            ![d].mem = IF call[d].dial = "mem" THEN "query" ELSE @,
                            ![d].res = IF call[d].dial = "fail" THEN "Unavailable" ELSE @,
                            ![d].trace = IF call[d].dial = "remote"
                                         THEN ChildTracingInfo(CallerCtx(call[d].parent).tr, d)
                                         ELSE @]
    /\ callstack' = IF call[d].dial = "remote" THEN TracingInfoToMetadata(d) ELSE callstack
    /\ UNCHANGED <<scn, hooked, services, conn, inv, over, crashed>>

(* The caller's deadline, or its cancel function.                           *)
Cancel(d) ==
    /\ call[d].pc \notin {"idle", "done"}
    /\ ~call[d].cancelled
    /\ call' = [call EXCEPT ![d].cancelled = TRUE]
    /\ UNCHANGED <<scn, hooked, services, conn, inv, over, callstack, crashed>>

(* Faulty variant: the call in this process does not look at its context.   *)
CallCtxDoneDialing(d) ==
    /\ call[d].pc \in {"dialing", "remote"}
    /\ CtxDone(d)
    /\ call' = [call EXCEPT ![d].pc = "done", ![d].res = "Canceled"]
    /\ UNCHANGED <<scn, hooked, services, conn, inv, over, callstack, crashed>>

(* ctx.Done, in the select of the dial, of the in-process call or, behind   *)
(* the connection, of grpc.                                                 *)
CallCtxDone(d) ==
    /\ call[d].pc \in {"dialing", "invoking", "remote"}
    /\ CtxDone(d)
    /\ call' = [call EXCEPT ![d].pc = "done", ![d].res = "Canceled"]
    /\ UNCHANGED <<scn, hooked, services, conn, inv, over, callstack, crashed>>

(* cc.Invoke on a connection to another process.                            *)
RemoteReturn(d) ==
    /\ call[d].pc = "remote"
    /\ \E r \in {"ok", "Unavailable"} :
         call' = [call EXCEPT ![d].pc = "done", ![d].res = r, ![d].reply = (r = "ok")]
    /\ UNCHANGED <<scn, hooked, services, conn, inv, over, callstack, crashed>>

-----------------------------------------------------------------------------
(* An invocation: UnaryWrapper.Invoke and, for http, StreamingWrapper.      *)

(* The recovers deferred on the goroutine of a handler, the innermost last: *)
(* that of the wrapper, if the configuration has server.recovery, and that  *)
(* of the recovery interceptor.  A timeout has the rest run on a goroutine  *)
(* of its own, which has none yet.                                          *)
Wrapper(frames) == IF Opts.cfgRecovery THEN Append(frames, "wrapper") ELSE frames
Recovery(frames) == IF Opts.recovery THEN Append(frames, "recovery") ELSE frames
Timeout(frames) == IF hooked /\ Opts.timeout THEN <<>> ELSE frames

(* Faulty variant: the interceptors are outside of the hooks for all.       *)
HandlerFramesOutside(i, stream) ==
    Timeout(Recovery(Wrapper(IF i \in Reqs /\ ~stream THEN <<"ServeHTTP">> ELSE <<>>)))

(* A unary method's handler takes the interceptors and is itself hooked; a  *)
(* stream's interceptors are outside of its hooks.  The goroutine is that   *)
(* of the request, or one of the in-process connection or of the stream.    *)
HandlerFrames(i, stream) ==
    IF stream THEN Timeout(Recovery(Wrapper(<<>>)))
    ELSE Recovery(Timeout(Wrapper(IF i \in Reqs THEN <<"ServeHTTP">> ELSE <<>>)))

(* Faulty variant: the outgoing metadata stay where they are.               *)
HandlerCtxKept(i, ctx, stream) ==
    IF ctx.out # NoMetadata THEN [ctx EXCEPT !.in = ctx.out, !.md = i]
    ELSE IF stream THEN [ctx EXCEPT !.in = {}, !.md = None] ELSE ctx

(* The metadata the caller sends become those the handler receives, in a    *)
(* map of their own.  If the caller's context has none, not even an empty   *)
(* set, a unary handler receives what its caller received, in the same map, *)
(* and a stream's handler nothing.                                          *)
HandlerCtx(i, ctx, stream) ==
    IF ctx.out # NoMetadata THEN [ctx EXCEPT !.in = ctx.out, !.md = i, !.out = {}]
    ELSE IF stream THEN [ctx EXCEPT !.in = {}, !.md = None] ELSE ctx

Invoke(i, ctx, stream) ==
    [IdleInv EXCEPT !.st = "run", !.h = IF stream THEN "wait" ELSE "run", !.stream = stream,
                    !.timed = hooked /\ Opts.timeout, !.ctx = HandlerCtx(i, ctx, stream),
                    !.frames = HandlerFrames(i, stream)]

(* Rate limit and circuit breaker are hooked before the timeout, and may    *)
(* refuse the call.                                                         *)
Hooked(i) == {i} \cup IF hooked /\ Opts.limited
                      THEN {[i EXCEPT !.st = "ret", !.h = "end", !.res = "ResourceExhausted"]} ELSE {}

(* The goroutine of the in-process connection: UnaryInvoke.                 *)
MemInvoke(d) ==
    LET ctx == [CallerCtx(call[d].parent) EXCEPT !.out = call[d].out, !.opt = call[d].ctxOpt]
    IN /\ call[d].mem = "query"
       /\ \/ /\ Query(Target(d), call[d].svc)
             /\ call' = [call EXCEPT ![d].mem = "wait"]
             /\ \E i \in Hooked(Invoke(d, ctx, FALSE)) : inv' = [inv EXCEPT ![d] = i]
          \/ /\ ~Query(Target(d), call[d].svc)
             /\ call' = [call EXCEPT ![d].mem = "end", ![d].ch = "NotFound"]
             /\ UNCHANGED inv
       /\ UNCHANGED <<scn, hooked, services, conn, over, callstack, crashed>>

(* Faulty variant: the result is sent before the reply is set.              *)
MemSetLate(d) ==
    /\ call[d].mem = "wait"
    /\ inv[d].st = "ret"
    /\ call' = [call EXCEPT ![d].mem = IF inv[d].res = "ok" THEN "set" ELSE "end", ![d].ch = inv[d].res]
    /\ UNCHANGED <<scn, hooked, services, conn, inv, over, callstack, crashed>>

(* The response is copied to the caller's reply, then the result is sent    *)
(* to a channel that has room for it.  Without a response to copy the       *)
(* goroutine panics, and nothing on it recovers.                            *)
MemSet(d) ==
    /\ call[d].mem = "wait"
    /\ inv[d].st = "ret"
    /\ IF inv[d].res = "nil"
       THEN crashed' = [at |-> "reply", inv |-> d] /\ UNCHANGED call
       ELSE /\ call' = [call EXCEPT ![d].mem = IF inv[d].res = "ok" THEN "set" ELSE "end",
                                    ![d].reply = @ \/ inv[d].res = "ok",
                                    ![d].ch = IF inv[d].res = "ok" THEN @ ELSE inv[d].res]
            /\ UNCHANGED crashed
    /\ UNCHANGED <<scn, hooked, services, conn, inv, over, callstack>>

MemSend(d) ==
    /\ call[d].mem = "set"
    /\ call' = [call EXCEPT ![d].mem = "end", ![d].ch = "ok"]
    /\ UNCHANGED <<scn, hooked, services, conn, inv, over, callstack, crashed>>

MemReturn(d) ==
    /\ call[d].pc = "invoking"
    /\ call[d].ch # None
    /\ call' = [call EXCEPT ![d].pc = "done", ![d].res = call[d].ch]
    /\ UNCHANGED <<scn, hooked, services, conn, inv, over, callstack, crashed>>

-----------------------------------------------------------------------------
(* The handler, and timeoutHandler around it.                               *)

(* SetHeader: a header, perhaps with the status that http is to answer.     *)
SetHeader(i, hdr) ==
    /\ inv[i].h = "run" /\ "header" \in Opts.outcomes
    /\ inv[i].hdr = {}
    /\ inv' = [inv EXCEPT ![i].hdr = hdr]
    /\ UNCHANGED <<scn, hooked, services, conn, call, over, callstack, crashed>>

(* Invoke returns r, with a copy of the header that is set by then.         *)
Returned(i, r) ==
    [inv EXCEPT ![i].st = "ret", ![i].res = r, ![i].copied = inv[i].hdr]

(* The end of the handler: with a timeout its result goes to a channel that *)
(* holds none, else Invoke returns it.                                      *)
HandlerEnd(i, r) ==
    inv' = IF inv[i].timed THEN [inv EXCEPT ![i].h = "send", ![i].val = r]
           ELSE [Returned(i, r) EXCEPT ![i].h = "end"]

(* A unary handler may return neither an error nor a response.              *)
HandlerReturn(i) ==
    /\ inv[i].h = "run"
    /\ \E r \in {"ok", "nil", "Unknown"} \cap Opts.outcomes :
         (inv[i].stream => r # "nil") /\ HandlerEnd(i, r)
    /\ UNCHANGED <<scn, hooked, services, conn, call, over, callstack, crashed>>

HandlerPanic(i) ==
    /\ inv[i].h = "run" /\ "panic" \in Opts.outcomes
    /\ inv' = [inv EXCEPT ![i].h = "panic"]
    /\ UNCHANGED <<scn, hooked, services, conn, call, over, callstack, crashed>>

(* A panic unwinds its goroutine up to the innermost recover: the           *)
(* interceptor makes an error of it, as if the handler had returned it; the *)
(* wrapper and ServeHTTP answer in the place of Invoke, which does not copy *)
(* the header any more.                                                     *)
Unwind(i) ==
    LET frames == inv[i].frames
    IN /\ inv[i].h = "panic"
       /\ \/ /\ frames = <<>>
             /\ crashed' = [at |-> "handler", inv |-> i]
             /\ UNCHANGED inv
          \/ /\ frames # <<>> /\ Last(frames) = "recovery"
             /\ HandlerEnd(i, "Internal")
             /\ UNCHANGED crashed
          \/ /\ frames # <<>> /\ Last(frames) # "recovery"
             /\ inv' = [inv EXCEPT ![i].st = "ret", ![i].h = "end", ![i].res = "Internal", ![i].outer = TRUE]
             /\ UNCHANGED crashed
       /\ UNCHANGED <<scn, hooked, services, conn, call, over, callstack>>

(* The two arms of timeoutHandler's select.  After the deadline nobody      *)
(* reads the channel, and the handler's goroutine stays in its send.        *)
HandlerDone(i) ==
    /\ inv[i].st = "run" /\ inv[i].h = "send"
    /\ inv' = [Returned(i, inv[i].val) EXCEPT ![i].h = "end"]
    /\ UNCHANGED <<scn, hooked, services, conn, call, over, callstack, crashed>>

Deadline(i) ==
    /\ inv[i].st = "run" /\ inv[i].timed
    /\ inv' = Returned(i, "DeadlineExceeded")
    /\ UNCHANGED <<scn, hooked, services, conn, call, over, callstack, crashed>>

-----------------------------------------------------------------------------
MInit ==
    /\ scn \in DOMAIN Scenarios
    /\ hooked = FALSE
    /\ services = [n \in Names |-> None]
    /\ conn = {}
    /\ call = [d \in Calls |-> IdleCall]
    /\ inv = [i \in Invs |-> IdleInv]
    /\ over = {}
    /\ callstack = [i \in Invs |-> None]
    /\ crashed = None

Register(s) == RegisterWithServiceInfo(s) \/ UnregisterWithServiceInfo(s)

(* The steps the framework's goroutines take by themselves.                 *)
CallStep(d) ==
    \/ DialLoad(d) \/ DialMake(d) \/ DialPool(d) \/ Dialed(d) \/ CallCtxDone(d)
    \/ RemoteReturn(d) \/ MemInvoke(d) \/ MemSet(d) \/ MemSend(d) \/ MemReturn(d)
InvStep(i) == HandlerDone(i) \/ Deadline(i) \/ Unwind(i)

(* The steps of application code.                                           *)
Headers == {{"h"}, {"h", "code"}}
Handler(i) == HandlerReturn(i) \/ HandlerPanic(i)
Application(d) ==
    \/ Cancel(d)
    \/ \E p \in Invs \cup {None}, c \in Opts.calls : Begin(d, p, c.svc, c.opt, c.puts)
=============================================================================
