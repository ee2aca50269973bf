------------------------------ MODULE HttpCall ------------------------------
(* The http side of a server: the ServerMux, which turns requests into      *)
(* invocations of the in-process services, and the answers it writes.       *)
(* MemoryCall is the other side: the invocations and the calls their        *)
(* handlers make.                                                           *)
EXTENDS MemoryCall, PathMatcher

CONSTANT Messages   \* what a stream's handler sends, in order

(* What an invocation may end with, and a stream's client receive in the    *)
(* place of a message.                                                      *)
Codes == {"ok", "nil", "Unknown", "Internal", "Canceled", "InvalidArgument", "ResourceExhausted", "DeadlineExceeded", "panic"}

\* A message and an error are of different types.
ASSUME MessagesAssumption == Messages \in Seq(Range(Messages)) /\ Range(Messages) \cap Codes = {}
ASSUME NoneAssumption == None \notin Codes

VARIABLES
    mux,    \* the services of the ServerMux, in order, and those found in the registry
    req,    \* request -> its goroutine
    strm    \* request -> the stream between the mux and the handler

hvars == <<mux, req, strm>>
vars == <<mvars, hvars>>

NoMux == [made |-> FALSE, order |-> <<>>, found |-> {}]
IdleStream == [sent |-> 0, queue |-> <<>>, hdrSent |-> FALSE, closed |-> FALSE]

(* RecvMsg of the client's side tells a message from an error.              *)
IsMessage(chunk) == \E k \in DOMAIN Messages : chunk = Messages[k]

-----------------------------------------------------------------------------
(* The response writer of net/http: the first WriteHeader, or the first     *)
(* Write, decides on the status and the headers.                            *)
NewWriter == [status |-> 0, hdr |-> {}, sentHdr |-> {}, body |-> <<>>]
WriteHeader(w, code) == IF w.status = 0 THEN [w EXCEPT !.status = code, !.sentHdr = w.hdr] ELSE w
Write(w, chunk) == [WriteHeader(w, 200) EXCEPT !.body = Append(@, chunk)]
SetHdr(w, hdr) == [w EXCEPT !.hdr = @ \cup hdr]

IdleReq == [pc |-> "idle", r |-> None, meta |-> None, w |-> NewWriter, first |-> TRUE, custom |-> FALSE, got |-> None]

HttpStatusFromCode(code) ==
    CASE code = "ok" -> 200
      [] code = "InvalidArgument" -> 400
      [] code = "NotFound" -> 404
      [] code = "Canceled" -> 408
      [] code = "ResourceExhausted" -> 429
      [] code = "Unavailable" -> 503
      [] code = "DeadlineExceeded" -> 504
      [] OTHER -> 500

(* The status that a handler asks for in its header.                        *)
CustomCode == 299

(* Faulty variant: the body is written before the status.                   *)
HttpErrorBodyFirst(code, w, err) ==
    IF code = 0 THEN WriteHeader(Write(SetHdr(w, {"json"}), err), HttpStatusFromCode(err))
    ELSE WriteHeader(SetHdr(w, {"json"}), code)

(* httpErrorHandler: a status of the handler's choice comes without a body. *)
HttpErrorHandler(code, w, err) ==
    IF code = 0 THEN Write(WriteHeader(SetHdr(w, {"json"}), HttpStatusFromCode(err)), err)
    ELSE WriteHeader(SetHdr(w, {"json"}), code)

(* writeResponseHeader: the handler's header, without the status.           *)
WriteResponseHeader(w, hdr) == SetHdr(w, hdr \ {"code"})

(* What becomes of a result on the way to the client: a response may lack   *)
(* the field the rule asks for, or not be marshalled, and one that is not   *)
(* there fails or panics.                                                   *)
Converted(res) ==
    CASE res = "ok" -> {"ok"} \cup IF "bad" \in Opts.outcomes THEN {"InvalidArgument", "Internal"} ELSE {}
      [] res = "nil" -> {"Internal", "panic"}
      [] OTHER -> {res}

(* UnaryInvoker.Invoke, once the method has returned.  A panic in it is     *)
(* recovered by ServeHTTP, which does not know the header.                  *)
HttpCode(hdr) == IF "code" \in hdr THEN CustomCode ELSE 0
UnaryAnswer(w, told, hdr) ==
    CASE told = "panic" -> HttpErrorHandler(0, w, "Internal")
      [] told = "ok" ->
           LET typed == SetHdr(w, {"json"})
               coded == IF HttpCode(hdr) # 0 THEN WriteHeader(typed, HttpCode(hdr)) ELSE typed
           IN Write(WriteResponseHeader(coded, hdr), "reply")
      [] OTHER -> HttpErrorHandler(HttpCode(hdr), w, told)

(* handleStreamErrorResponse.                                               *)
StreamErrorAnswer(w, first, custom, err) ==
    LET coded == IF first /\ ~custom THEN WriteHeader(w, HttpStatusFromCode(err)) ELSE w
    IN IF custom THEN coded ELSE Write(coded, err)

-----------------------------------------------------------------------------
(* registerMethods.                                                         *)

(* serviceOptions: the header X-F-Service is to be one of the service's     *)
(* alias names, its own name if it has none.                                *)
ServiceOptions(s) == IF Aliases[s] = <<>> THEN {s} ELSE {Aliases[s][k] : k \in DOMAIN Aliases[s]}

Rule(s, m, raw, b) ==
    [svc |-> s, headers |-> ServiceOptions(s), name |-> m.name, kind |-> m.kind, raw |-> raw,
     method |-> b.method, template |-> b.template, verb |-> b.verb, body |-> b.body]

(* registerRawPostApi: POST of service and method name.                     *)
RawPost(s, m) ==
    Rule(s, m, TRUE, [method |-> "post", template |-> <<Lit(s), Lit(m.name)>>, verb |-> "", body |-> TRUE])

(* registerMethod: the bindings up to the first that is not valid; without  *)
(* any, the raw method.  Methods that take a stream, and those the          *)
(* in-process registry does not have, are left out.                         *)
RegisterMethod(s, m) ==
    LET known == m.kind # "client" /\ s \in mux.found
        valid == {k \in DOMAIN m.bindings : \A j \in 1..k : m.bindings[j].valid}
    IN [raw |-> IF known /\ m.bindings = <<>> THEN <<RawPost(s, m)>> ELSE <<>>,
        rules |-> IF known THEN [k \in 1..Cardinality(valid) |-> Rule(s, m, FALSE, m.bindings[k])] ELSE <<>>]

RegisterService(s, part) ==
    FlattenSeq([k \in DOMAIN Opts.methods[s] |->
        IF part = "raw" THEN RegisterMethod(s, Opts.methods[s][k]).raw
        ELSE RegisterMethod(s, Opts.methods[s][k]).rules])

Table(part) == FlattenSeq([k \in DOMAIN mux.order |-> RegisterService(mux.order[k], part)])

(* NewServerMux: the services, all of them registered, come in the order of *)
(* a map; the methods of each are looked for under its own name.            *)
Orders == {o \in [1..Cardinality(Svcs) -> Svcs] : \A i, j \in DOMAIN o : o[i] = o[j] => i = j}
NewServerMux(order) ==
    /\ ~mux.made
    /\ \A s \in Svcs : \E n \in Names : services[n] # None /\ services[n].svc = s
    /\ mux' = [made |-> TRUE, order |-> order,
               found |-> {s \in Svcs : Query(s, s)}]
    /\ UNCHANGED <<mvars, req, strm>>

-----------------------------------------------------------------------------
(* ServeHTTP.                                                               *)

(* The method of a POST may be overridden by a header.                      *)
Method(r) == IF r.method = "post" /\ r.override # "" THEN r.override ELSE r.method

(* runtime.Pattern.Match compares the path as it was sent.                  *)
PatternMatch(rule, r) ==
    rule.verb = r.verb /\ Stands(TemplateConvert(rule.template), r.path, 0)

(* makeRawPostRequest: for POST only.                                       *)
RawPostRequest(r) ==
    IF Method(r) = "post"
    THEN MatchWithMeta(Table("raw"), [r EXCEPT !.method = "post"], ToSet(Table("raw"))) ELSE <<>>

(* makeHttpRuleRequest: the rules of the one node of the tree, if their     *)
(* pattern matches.                                                         *)
HttpRuleRequest(r) ==
    MatchWithMeta(Table("rules"), [r EXCEPT !.method = Method(r)],
                  {m \in ToSet(Table("rules")) : PatternMatch(m, r)})

(* makeRequest: the first of the raw methods, else of the rules.            *)
MakeRequest(r) == RawPostRequest(r) \o HttpRuleRequest(r)

(* decodeBody, for the methods that have a body.                            *)
DecodeBody(r, m) == m.body => r.body # "bad"

(* The handlers of makeRawPostHandler and makeHttpRuleHandler: a raw method *)
(* has no parameters in path and query.                                     *)
Decodes(r, m) == DecodeBody(r, m) /\ (~m.raw => r.params # "bad")

(* A form that comes with an override is parsed before anything else.       *)
FormFails(r) == r.method = "post" /\ r.override # "" /\ r.form /\ r.body = "bad"

(* HttpServerReqIdHandler: the request id is also the call id unless there  *)
(* is one.                                                                  *)
ReqIdInfo(r) ==
    IF r.rid = None THEN NoInfo
    ELSE [rid |-> r.rid, cid |-> IF r.cid = None THEN r.rid ELSE r.cid, pid |-> None]

Answer(h, w) == req' = [req EXCEPT ![h].pc = "done", ![h].w = WriteHeader(w, 200)]

(* A stream is not begun on a response writer that cannot flush.            *)
Flushes(m) == m.kind = "server" => Opts.flusher

Refuse(h, r, meta, err) ==
    /\ req' = [req EXCEPT ![h] = [IdleReq EXCEPT !.pc = "done", !.r = r, !.meta = meta,
                                     !.w = HttpErrorHandler(0, NewWriter, err)]]
    /\ over' = over \cup {h}
    /\ UNCHANGED <<inv, callstack>>

(* Routing, decoding and, if they succeed, the invocation.  Headers become  *)
(* incoming metadata; there are no outgoing ones.                           *)
ServeHTTP(h, r) ==
    LET found == MakeRequest(r)
    IN /\ req[h].pc = "idle" /\ mux.made
       /\ \/ FormFails(r) /\ Refuse(h, r, None, "InvalidArgument")
          \/ ~FormFails(r) /\ found = <<>> /\ Refuse(h, r, None, "NotFound")
          \/ ~FormFails(r) /\ found # <<>> /\ ~Decodes(r, found[1]) /\ Refuse(h, r, found[1], "InvalidArgument")
          \/ /\ ~FormFails(r) /\ found # <<>> /\ Decodes(r, found[1])
             /\ ~Flushes(found[1]) /\ Refuse(h, r, found[1], "Internal")
          \/ /\ ~FormFails(r) /\ found # <<>>
             /\ Decodes(r, found[1]) /\ Flushes(found[1])
             /\ req' = [req EXCEPT ![h] = [IdleReq EXCEPT !.r = r, !.meta = found[1],
                                              !.pc = IF found[1].kind = "server" THEN "send" ELSE "unary"]]
             /\ \E i \in Hooked(Invoke(h, [NoCtx EXCEPT !.tr = ReqIdInfo(r), !.in = {h}, !.md = h],
                                      found[1].kind = "server")) :
                  inv' = [inv EXCEPT ![h] = i]
             /\ callstack' = [callstack EXCEPT ![h] = IF r.callstack THEN h ELSE None]
             /\ UNCHANGED over
       /\ UNCHANGED <<scn, hooked, services, conn, call, crashed, mux, strm>>

(* The client goes away.                                                    *)
Disconnect(h) ==
    /\ req[h].pc \notin {"idle", "done"} /\ h \notin over
    /\ over' = over \cup {h}
    /\ UNCHANGED <<scn, hooked, services, conn, call, inv, callstack, crashed, hvars>>

UnaryRespond(h) ==
    /\ req[h].pc = "unary" /\ inv[h].st = "ret"
    /\ \E told \in Converted(inv[h].res) :
         req' = [req EXCEPT ![h].pc = "done", ![h].got = told,
                            ![h].w = WriteHeader(UnaryAnswer(req[h].w, told, inv[h].copied), 200)]
    /\ over' = over \cup {h}
    /\ UNCHANGED <<scn, hooked, services, conn, call, inv, callstack, crashed, mux, strm>>

-----------------------------------------------------------------------------
(* Streams: the handler's side, and ServerStreamingInvoker.Invoke.          *)

(* The request is sent to the handler, which waits for it.  The stream may  *)
(* be closed already: a hook that refuses the call does not wait.           *)
StreamRequest(h) ==
    /\ req[h].pc = "send"
    /\ \/ /\ strm[h].closed \/ h \in over
          /\ \E e \in {"Unknown", "Internal"} : Answer(h, HttpErrorHandler(0, req[h].w, e))
          /\ over' = over \cup {h}
          /\ UNCHANGED inv
       \/ /\ ~strm[h].closed /\ h \notin over
          /\ req' = [req EXCEPT ![h].pc = "recv", ![h].w = SetHdr(@, {"json"})]
          /\ inv' = [inv EXCEPT ![h].h = IF @ = "wait" THEN "run" ELSE @]
          /\ UNCHANGED over
    /\ UNCHANGED <<scn, hooked, services, conn, call, callstack, crashed, mux, strm>>

(* RecvMsg of the handler ends with the context.                            *)
StreamNoRequest(h) ==
    /\ inv[h].h = "wait" /\ h \in over
    /\ HandlerEnd(h, "Canceled")
    /\ UNCHANGED <<scn, hooked, services, conn, call, over, callstack, crashed, hvars>>

(* SendMsg of the handler: the header goes first.  A handler that is late   *)
(* finds the stream closed.                                                 *)
StreamSend(h) ==
    /\ inv[h].h = "run" /\ inv[h].stream
    /\ ~strm[h].closed /\ strm[h].sent < Len(Messages)
    /\ h \notin over
    /\ strm' = [strm EXCEPT ![h].sent = @ + 1, ![h].hdrSent = TRUE,
                            ![h].queue = Append(@, Messages[strm[h].sent + 1])]
    /\ UNCHANGED <<mvars, mux, req>>

(* SetHeader of a stream fails once the header is sent.                     *)
HeaderOpen(i) == i \in Reqs => ~strm[i].hdrSent

(* WriteStatus: the header is sent if it was not, then the error, then the  *)
(* end of the stream.                                                       *)
WriteStatus(h) ==
    /\ inv[h].stream /\ inv[h].st = "ret" /\ ~strm[h].closed
    /\ strm' = [strm EXCEPT ![h].hdrSent = TRUE, ![h].closed = TRUE,
                            ![h].queue = IF inv[h].res = "ok" \/ h \in over THEN @ ELSE Append(@, inv[h].res)]
    /\ UNCHANGED <<mvars, mux, req>>

(* RecvMsg: a message, the error, the end, or the end of the context, which *)
(* may take the place of a message that is there.                           *)
RecvMsg(h) ==
    /\ req[h].pc = "recv"
    /\ \/ /\ strm[h].queue # <<>>
          /\ req' = [req EXCEPT ![h].pc = "header", ![h].got = Head(strm[h].queue)]
          /\ strm' = [strm EXCEPT ![h].queue = Tail(@)]
          /\ UNCHANGED over
       \/ /\ strm[h].queue = <<>> /\ strm[h].closed
          /\ Answer(h, req[h].w)
          /\ over' = over \cup {h}
          /\ UNCHANGED strm
       \/ /\ h \in over
          /\ req' = [req EXCEPT ![h].pc = "header", ![h].got = "Canceled"]
          /\ strm' = [strm EXCEPT ![h].queue = IF @ = <<>> THEN @ ELSE Tail(@)]
          /\ UNCHANGED over
    /\ UNCHANGED <<scn, hooked, services, conn, call, inv, callstack, crashed, mux>>

(* Before the first chunk, Header: it waits until the header is sent.  Then *)
(* the chunk, or the error and the end; a message that is not converted     *)
(* ends the answer too, and one that is not marshalled as in a unary one.   *)
StreamWrite(h) ==
    LET hdr == inv[h].hdr
        custom == req[h].custom \/ (req[h].first /\ "code" \in hdr)
        coded == IF req[h].first /\ "code" \in hdr THEN WriteHeader(req[h].w, CustomCode) ELSE req[h].w
        headed == IF req[h].first THEN WriteResponseHeader(coded, hdr) ELSE coded
        Failing(err) == StreamErrorAnswer(headed, req[h].first, custom, err)
        End(told, w) ==
            /\ req' = [req EXCEPT ![h].pc = "done", ![h].custom = custom, ![h].got = told, ![h].w = WriteHeader(w, 200)]
            /\ over' = over \cup {h}
    IN /\ req[h].pc = "header"
       /\ req[h].first => strm[h].hdrSent
       /\ \/ ~IsMessage(req[h].got) /\ End(req[h].got, Failing(req[h].got))
          \/ /\ IsMessage(req[h].got)
             /\ \E told \in Converted("ok") :
                  \/ /\ told = "ok"
                     /\ req' = [req EXCEPT ![h].pc = "recv", ![h].first = FALSE, ![h].custom = custom,
                                           ![h].w = Write(headed, req[h].got)]
                     /\ UNCHANGED over
                  \/ told = "InvalidArgument" /\ End(told, Failing(told))
                  \/ told = "Internal" /\ End(told, HttpErrorHandler(0, headed, told))
       /\ UNCHANGED <<scn, hooked, services, conn, call, inv, callstack, crashed, mux, strm>>

-----------------------------------------------------------------------------
Init ==
    /\ MInit
    /\ mux = NoMux
    /\ req = [h \in Reqs |-> IdleReq]
    /\ strm = [h \in Reqs |-> IdleStream]

ReqStep(h) == UnaryRespond(h) \/ StreamRequest(h) \/ StreamNoRequest(h) \/ WriteStatus(h) \/ RecvMsg(h) \/ StreamWrite(h)

Next ==
    /\ crashed = None
    /\ \/ \E s \in Svcs : Register(s) /\ UNCHANGED hvars
       \/ HookServer /\ UNCHANGED hvars
       \/ \E o \in Orders : NewServerMux(o)
       \/ \E d \in Calls : (CallStep(d) \/ Application(d)) /\ UNCHANGED hvars
       \/ \E i \in Invs : (InvStep(i) \/ Handler(i)) /\ UNCHANGED hvars
       \/ \E i \in Invs, hdr \in Headers : HeaderOpen(i) /\ SetHeader(i, hdr) /\ UNCHANGED hvars
       \/ \E h \in Reqs : ReqStep(h) \/ StreamSend(h) \/ Disconnect(h) \/ \E r \in Opts.requests : ServeHTTP(h, r)

(* Goroutines of the framework and timers go on; handlers, clients and the  *)
(* start of a server need not.                                              *)
Framework ==
    /\ crashed = None
    /\ \/ \E d \in Calls : CallStep(d) /\ UNCHANGED hvars
       \/ \E i \in Invs : InvStep(i) /\ UNCHANGED hvars
       \/ \E h \in Reqs : ReqStep(h)

Spec == Init /\ [][Next]_vars /\ WF_vars(Framework)
-----------------------------------------------------------------------------
(* A call that succeeds has its reply, and the handler that gave it had     *)
(* returned without error: in process, the goroutine that copies the        *)
(* response (memory_registry/dialer.go) runs beside the caller's select.    *)
OkHasReply ==
    \A d \in Calls : call[d].res = "ok" =>
        call[d].reply /\ (call[d].dial = "mem" => inv[d].res = "ok")

(* A handler runs with no recover between it and the end of its goroutine:  *)
(* a stream's under a timeout, and without the recovery interceptor any     *)
(* handler under a timeout or, without server.recovery in the               *)
(* configuration, off the goroutine of an http request.                     *)
Bare(i) ==
    \/ inv[i].stream /\ inv[i].timed
    \/ /\ ~Opts.recovery
       /\ inv[i].timed \/ (~Opts.cfgRecovery /\ (inv[i].stream \/ i \notin Reqs))

(* A panic ends the process only where the nesting of hooks, interceptors,  *)
(* wrappers and goroutines leaves it bare: with recovery on, only in a      *)
(* stream's handler under a timeout; and, whatever the settings, in the     *)
(* goroutine of an in-process call whose handler returned nothing.          *)
PanicContained ==
    crashed # None =>
        \/ crashed.at = "handler" /\ Bare(crashed.inv)
        \/ crashed.at = "reply" /\ crashed.inv \in Calls /\ inv[crashed.inv].res = "nil"

(* The request a call descends from, None if there is none.                 *)
Root(i) ==
    LET root[e \in Invs \cup {None}] == IF e \in Calls THEN root[call[e].parent] ELSE e
    IN root[i]

(* The target option of a call or of the nearest caller that gave one.      *)
NearestTarget(i, svc) ==
    LET target[e \in Invs \cup {None}] ==
            IF e \notin Calls THEN svc
            ELSE IF call[e].opt # <<>> THEN Last(call[e].opt).target ELSE target[call[e].parent]
    IN target[i]

(* What a context carries does not leak: a handler sees the metadata its    *)
(* direct caller gave, or the headers of the request it descends from; a    *)
(* remote call carries the id of that request and names its call as parent, *)
(* and goes to the nearest target option.  The callstack2 item is the       *)
(* exception: tracing overwrites it for every handler that shares the map,  *)
(* but no handler of another request or with metadata of its own sees that. *)
ContextScoped ==
    \A d \in Calls :
        LET ctx == inv[d].ctx
            root == IF Root(d) = None THEN NoInfo ELSE ReqIdInfo(req[Root(d)].r)
        IN /\ ctx.in \subseteq {d, Root(d)}
           /\ ctx.md # None =>
                LET seen == callstack[ctx.md]
                IN seen # None => d \notin ctx.in /\ Root(seen) = Root(d) /\ req[Root(d)].r.callstack
           /\ call[d].trace # NoInfo =>
                call[d].trace = [rid |-> IF root.rid = None THEN d ELSE root.rid, cid |-> d, pid |-> root.cid]
           /\ call[d].to # None => call[d].to = NearestTarget(d, call[d].svc)

Lower(path) == \A k \in DOMAIN path : path[k] # "" /\ ToLower(path[k]) = path[k]

(* A request goes to a rule whose pattern stands for it, or to a raw method *)
(* with its names in whatever case.  If path and patterns are in lower case *)
(* and no "**" is followed by a literal in one pattern and "*" in another,  *)
(* it goes to the most specific rule, of the service the header names if    *)
(* several share it; and it is refused only if no rule stands for it or the *)
(* header does not decide.                                                  *)
RouteIsRight ==
    \A h \in Reqs : req[h].pc # "idle" =>
        LET r == req[h].r
            m == req[h].meta
            Cased(rule, path) == IF rule.raw THEN [k \in DOMAIN path |-> ToLower(path[k])] ELSE path
            Stand(rule, least) ==
                /\ rule.method = Method(r) /\ rule.verb = r.verb
                /\ Stands(Cased(rule, TemplateConvert(rule.template)), Cased(rule, r.path), least)
            all == Range(Table("rules"))
            cands == {rule \in all : Stand(rule, 1)}
            Shared(rule) == \E other \in all : AddPattern(other) = AddPattern(rule) /\ other.headers # rule.headers
            clear == Lower(r.path) /\ Unmixed({AddPattern(rule) : rule \in all})
                     /\ \A rule \in all : Lower(TemplateConvert(rule.template))
        IN /\ m # None => Stand(m, 0)
           /\ m # None /\ clear /\ ~m.raw =>
                /\ \A c \in cands : ~MoreSpecific(AddPattern(c), AddPattern(m))
                /\ Shared(m) => r.service \in m.headers
           /\ m = None /\ clear /\ ~FormFails(r) => \A c \in cands : \E other \in cands : Shared(other)

(* The messages in a body are the first n of those a handler sends, in      *)
(* order and before anything else.                                          *)
Tells(body, n) ==
    /\ n <= Len(body)
    /\ \A k \in DOMAIN body : IF k <= n THEN body[k] = Messages[k] ELSE ~IsMessage(body[k])

(* The handler's header does not reach the answer: the handler is late, its *)
(* panic was recovered outside of Invoke, or the conversion panicked.       *)
HeaderLost(i, told) == i.h # "end" \/ i.outer \/ told = "panic"

(* The answer of a unary method: the reply if and only if the handler       *)
(* returned it and it was converted, else the status of the error, which is *)
(* the handler's own if it returned one; the status the handler asked for;  *)
(* and with the reply the handler's header, unless it asked for a status,   *)
(* which the invoker writes before the header.                              *)
UnaryTells(w, i, told) ==
    /\ (told = "ok") = (w.body = <<"reply">>)
    /\ told = i.res \/ i.res = "nil" \/ (i.res = "ok" /\ "bad" \in Opts.outcomes)
    /\ told = "ok" => i.res = "ok"
    /\ w.status = CustomCode => "code" \in i.hdr
    /\ w.status # CustomCode =>
         /\ w.status = HttpStatusFromCode(IF told = "panic" THEN "Internal" ELSE told)
         /\ "code" \in i.hdr => HeaderLost(i, told)
    /\ told = "ok" /\ "code" \notin i.hdr => i.hdr \subseteq w.sentHdr

(* The answer of a stream: what the handler sent, in order and under its    *)
(* header and status, all of it if the handler succeeded, the client stayed *)
(* and every message was converted.                                         *)
StreamTells(w, i, sent, told) ==
    \E n \in 0..sent :
        /\ Tells(w.body, n)
        /\ i.res = "ok" /\ told \notin Codes => n = sent
        /\ n > 0 => /\ w.status = IF "code" \in i.hdr THEN CustomCode ELSE 200
                    /\ "code" \notin i.hdr => i.hdr \subseteq w.sentHdr

(* A finished answer tells what became of the invocation, whenever handler, *)
(* hook, deadline, panic and client come in between                         *)
(* (UnaryInvoker.Invoke, ServerStreamingInvoker.Invoke).                    *)
AnswerTells ==
    \A h \in Reqs : req[h].pc = "done" /\ inv[h].st = "ret" =>
        IF inv[h].stream THEN StreamTells(req[h].w, inv[h], strm[h].sent, req[h].got)
        ELSE UnaryTells(req[h].w, inv[h], req[h].got)

(* Nobody waits forever for a handler that hangs: every request under a     *)
(* timeout policy is answered, and every call whose context is done returns *)
(* (timeoutHandler, and the selects of dialer.go and                        *)
(* memory_registry/dialer.go).  Requests and calls being finitely many,     *)
(* from some moment on none of these is left waiting.                       *)
Returns ==
    <>[](\/ crashed # None
         \/ /\ \A h \in Reqs : inv[h].timed => req[h].pc = "done"
            /\ \A d \in Calls : CtxDone(d) => call[d].pc = "done")
=============================================================================
