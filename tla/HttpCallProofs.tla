--------------------------- MODULE HttpCallProofs ---------------------------
(***************************************************************************)
(* For any number of requests and calls, any scenario and any messages: a  *)
(* call that succeeds has its reply, a panic ends the process only where   *)
(* no recovery is in the way, and an answer tells what the handler did.    *)
(***************************************************************************)
EXTENDS HttpCall, TLAPS

(* The fields of the records.                                              *)
CallFields == {"pc", "parent", "svc", "opt", "ctxOpt", "out", "dial", "cancelled", "mem", "ch", "res", "reply", "to", "trace"}
InvFields == {"st", "h", "val", "res", "timed", "stream", "ctx", "frames", "outer", "hdr", "copied"}
ReqFields == {"pc", "r", "meta", "w", "first", "custom", "got"}
StrmFields == {"sent", "queue", "hdrSent", "closed"}

ShapeInv ==
    /\ DOMAIN call = Calls /\ \A d \in Calls : DOMAIN call[d] = CallFields
    /\ DOMAIN inv = Invs /\ \A i \in Invs : DOMAIN inv[i] = InvFields
    /\ DOMAIN req = Reqs /\ \A h \in Reqs : DOMAIN req[h] = ReqFields
    /\ DOMAIN strm = Reqs /\ \A h \in Reqs : DOMAIN strm[h] = StrmFields

(* A result on its way to the caller of an in-process call: it is in the   *)
(* channel, or about to be sent, only when the reply is set.               *)
CallInv(d) ==
    /\ call[d].mem \in {"off", "query", "wait", "set", "end"}
    /\ call[d].mem # "end" => call[d].ch = None
    /\ call[d].mem # "off" => call[d].dial = "mem"
    /\ call[d].pc = "invoking" => call[d].mem # "off"
    /\ call[d].pc = "remote" => call[d].dial = "remote"
    /\ call[d].pc \in {"idle", "dialing"} => call[d].mem = "off"
    /\ call[d].mem = "set" \/ call[d].ch = "ok" =>
         call[d].reply /\ inv[d].st = "ret" /\ inv[d].res = "ok"
    /\ call[d].res = "ok" => call[d].reply /\ call[d].dial \in {"mem", "remote"} /\ (call[d].dial = "mem" => call[d].ch = "ok")

(* An invocation that has returned returns nothing else: only with a       *)
(* timeout does its handler go on.                                         *)
InvInv(i) ==
    /\ inv[i].st \in {"off", "run", "ret"}
    /\ inv[i].h \in {"off", "wait", "run", "panic", "send", "end"}
    /\ inv[i].st = "off" <=> inv[i].h = "off"
    /\ inv[i].st = "ret" /\ inv[i].h # "end" => inv[i].timed
    /\ inv[i].h = "end" => inv[i].st = "ret"
    /\ inv[i].h = "send" => inv[i].timed /\ inv[i].val \in Codes
    /\ inv[i].h = "wait" => inv[i].stream
    /\ inv[i].st = "ret" => inv[i].res \in Codes /\ (inv[i].res \in {"ok", "nil"} => inv[i].h = "end")
    /\ inv[i].st = "ret" => inv[i].copied \in {{}, inv[i].hdr}
    /\ inv[i].st = "ret" /\ inv[i].copied # inv[i].hdr =>
         inv[i].res # "ok" /\ (inv[i].h # "end" \/ inv[i].outer)
    /\ inv[i].hdr \in {{}, {"h"}, {"h", "code"}}
    /\ inv[i].stream => i \in Reqs

(* Where a panic would go: no recover is left only where the nesting leaves *)
(* a handler bare, and under a timeout only the interceptor's is.          *)
FrameInv(i) ==
    inv[i].st # "off" =>
        /\ inv[i].frames = <<>> => Bare(i)
        /\ inv[i].timed /\ inv[i].frames # <<>> => Last(inv[i].frames) = "recovery"

(* Where a request is, its invocation and its stream.                      *)
StageInv(h) ==
    /\ req[h].pc \in {"idle", "unary", "send", "recv", "header", "done"}
    /\ req[h].pc = "idle" => req[h] = IdleReq /\ inv[h].st = "off"
    /\ inv[h].st = "off" => ~inv[h].stream
    /\ ~inv[h].stream => strm[h] = IdleStream
    /\ req[h].pc \in {"unary", "send"} => req[h].w = NewWriter /\ req[h].first /\ inv[h].st # "off"
    /\ req[h].pc = "unary" => ~inv[h].stream
    /\ req[h].pc \in {"send", "recv", "header"} => inv[h].stream
    /\ req[h].pc = "send" => inv[h].h # "run" /\ strm[h].sent = 0 /\ req[h].got \notin Codes
    /\ req[h].pc = "done" => h \in over /\ (inv[h].st = "run" => inv[h].stream)

(* What has been sent and not been written: the message in hand, and the   *)
(* queue, with an error at its end if the handler has failed.              *)
WriterFields == {"status", "hdr", "sentHdr", "body"}
Failed(h) == inv[h].st = "ret" /\ inv[h].res # "ok" /\ strm[h].closed
Queued(h, n) ==
    LET q == strm[h].queue
        m == strm[h].sent - n
    IN /\ n \in 0..strm[h].sent
       /\ q \in Seq(Range(Messages) \cup Codes)
       /\ Len(q) = m \/ (Len(q) = m + 1 /\ Failed(h) /\ q[m + 1] \in Codes)
       /\ \A k \in 1..m : q[k] = Messages[n + k]

Written(h) == Len(req[h].w.body)
Heads(h) ==
    /\ req[h].w.status = IF "code" \in inv[h].hdr THEN CustomCode ELSE 200
    /\ "code" \notin inv[h].hdr => inv[h].hdr \subseteq req[h].w.sentHdr
BodyInv(h) ==
    /\ req[h].w.body \in Seq(Range(Messages)) /\ Written(h) <= strm[h].sent
    /\ Tells(req[h].w.body, Written(h))
    /\ req[h].first => req[h].w.status = 0 /\ req[h].w.body = <<>>
    /\ ~req[h].first => strm[h].hdrSent /\ Heads(h)
HandInv(h) ==
    \/ req[h].got = "Canceled"
    \/ req[h].got \in Codes /\ Failed(h)
    \/ Written(h) < strm[h].sent /\ req[h].got = Messages[Written(h) + 1] /\ Queued(h, Written(h) + 1)
DoneInv(h) ==
    \E n \in 0..strm[h].sent :
        /\ Tells(req[h].w.body, n)
        /\ req[h].got \notin Codes => n = strm[h].sent \/ Failed(h)
        /\ n > 0 => Heads(h)

StreamInv(h) ==
    /\ strm[h].sent \in 0..Len(Messages) /\ strm[h].closed \in BOOLEAN
    /\ strm[h].sent > 0 => strm[h].hdrSent
    /\ DOMAIN req[h].w = WriterFields
    /\ req[h].pc \in {"send", "recv", "header"} => BodyInv(h)
    /\ req[h].pc \in {"send", "recv"} => Queued(h, Written(h))
    /\ req[h].pc = "recv" => req[h].got \notin Codes
    /\ req[h].pc = "header" => HandInv(h)
    /\ req[h].pc = "done" => DoneInv(h)

ReqInv(h) ==
    /\ StageInv(h)
    /\ req[h].pc = "done" /\ inv[h].st = "ret" /\ ~inv[h].stream => UnaryTells(req[h].w, inv[h], req[h].got)
    /\ inv[h].stream => StreamInv(h)

IndInv ==
    /\ ShapeInv
    /\ \A d \in Calls : CallInv(d)
    /\ \A i \in Invs : InvInv(i) /\ FrameInv(i)
    /\ \A h \in Reqs : ReqInv(h)
    /\ PanicContained

-----------------------------------------------------------------------------
(* Initially.                                                              *)
LEMMA InitInd == Init => IndInv
<1> SUFFICES ASSUME Init PROVE IndInv
  OBVIOUS
<1>1. ShapeInv
  BY DEF Init, MInit, ShapeInv, CallFields, InvFields, ReqFields, StrmFields, IdleCall, IdleInv, IdleReq, IdleStream
<1>2. \A d \in Calls : CallInv(d)
  BY NoneAssumption DEF Init, MInit, CallInv, IdleCall, Codes
<1>3. \A i \in Invs : InvInv(i) /\ FrameInv(i)
  BY DEF Init, MInit, InvInv, FrameInv, IdleInv
<1>4. \A h \in Reqs : ReqInv(h)
  <2> SUFFICES ASSUME NEW h \in Reqs PROVE ReqInv(h)
    OBVIOUS
  <2>1. req[h] = IdleReq /\ strm[h] = IdleStream /\ inv[h] = IdleInv
    BY DEF Init, MInit, Invs
  <2>2. req[h].pc = "idle" /\ inv[h].st = "off" /\ ~inv[h].stream
    BY <2>1 DEF IdleReq, IdleInv
  <2> QED
    BY <2>1, <2>2 DEF ReqInv, StageInv
<1>5. PanicContained
  BY DEF Init, MInit, PanicContained
<1> QED
  BY <1>1, <1>2, <1>3, <1>4, <1>5 DEF IndInv

-----------------------------------------------------------------------------
(* What a step of an invocation may change of it.                          *)
Keeps(i) ==
    /\ inv'[i].stream = inv[i].stream /\ inv'[i].timed = inv[i].timed /\ inv'[i].frames = inv[i].frames
    /\ inv[i].st = "off" <=> inv'[i].st = "off"
    /\ inv[i].st = "ret" => inv'[i].st = "ret" /\ inv'[i].res = inv[i].res /\ inv'[i].outer = inv[i].outer
    /\ inv[i].st = "ret" => (inv[i].h = "end" <=> inv'[i].h = "end")
    /\ inv[i].hdr # {} \/ inv[i].h # "run" => inv'[i].hdr = inv[i].hdr
    /\ i \in Reqs /\ strm[i].hdrSent => inv'[i].hdr = inv[i].hdr
    /\ inv'[i].h = "run" => inv[i].h = "run"

LEMMA SameKeeps ==
    ASSUME NEW i, inv'[i] = inv[i]
    PROVE  Keeps(i)
  BY DEF Keeps

(* Such steps leave all that was said of a request true.                   *)
LEMMA ReqFrame ==
    ASSUME NEW h \in Reqs, ReqInv(h), InvInv(h), Keeps(h), over \subseteq over', UNCHANGED scn,
           req'[h] = req[h], strm'[h] = strm[h]
    PROVE  ReqInv(h)'
<1>1. StageInv(h)'
  BY DEF ReqInv, StageInv, Keeps, InvInv
<1>2. ASSUME req[h].pc = "done", inv'[h].st = "ret", ~inv[h].stream
      PROVE  UnaryTells(req[h].w, inv[h], req[h].got)'
  <2> DEFINE w == req[h].w
             i == inv[h]
             j == inv'[h]
             told == req[h].got
  <2>1. i.st = "ret"
    BY <1>2 DEF ReqInv, StageInv, InvInv, Keeps
  <2>2. UnaryTells(w, i, told)
    BY <1>2, <2>1 DEF ReqInv
  <2>3. w.status = CustomCode => j.hdr = i.hdr
    BY <2>2 DEF UnaryTells, Keeps
  <2>4. j.res = i.res /\ j.outer = i.outer /\ (j.h = "end" <=> i.h = "end")
    BY <2>1 DEF Keeps
  <2>5. i.h = "end" => j.hdr = i.hdr
    BY DEF Keeps
  <2>6. i.res = "ok" => i.h = "end"
    BY <2>1 DEF InvInv
  <2>7. Opts' = Opts
    BY DEF Opts
  <2> HIDE DEF w, i, j, told
  <2>8. /\ (told = "ok") = (w.body = <<"reply">>)
        /\ told = j.res \/ j.res = "nil" \/ (j.res = "ok" /\ "bad" \in Opts.outcomes)
        /\ told = "ok" => j.res = "ok"
        /\ w.status = CustomCode => "code" \in j.hdr
        /\ w.status # CustomCode =>
             /\ w.status = HttpStatusFromCode(IF told = "panic" THEN "Internal" ELSE told)
             /\ "code" \in j.hdr => j.h # "end" \/ j.outer \/ told = "panic"
        /\ told = "ok" /\ "code" \notin j.hdr => j.hdr \subseteq w.sentHdr
    BY <2>2, <2>3, <2>4, <2>5, <2>6 DEF UnaryTells, HeaderLost
  <2> QED
    BY <2>7, <2>8 DEF UnaryTells, HeaderLost, w, j, told
<1>3. ASSUME inv[h].stream PROVE StreamInv(h)'
  <2>1. StreamInv(h)
    BY <1>3 DEF ReqInv
  <2>2. Failed(h) => Failed(h)'
    BY DEF Failed, Keeps
  <2>3. \A n : Queued(h, n) => Queued(h, n)'
    BY <2>2 DEF Queued
  <2>4. strm[h].hdrSent /\ Heads(h) => Heads(h)'
    BY DEF Heads, Keeps
  <2>5. BodyInv(h) => BodyInv(h)'
    BY <2>4 DEF BodyInv, Written
  <2>6. HandInv(h) => HandInv(h)'
    BY <2>2, <2>3 DEF HandInv, Written
  <2>7. DoneInv(h) => DoneInv(h)'
    <3> SUFFICES ASSUME DoneInv(h) PROVE DoneInv(h)'
      OBVIOUS
    <3>1. PICK n \in 0..strm[h].sent :
             /\ Tells(req[h].w.body, n)
             /\ req[h].got \notin Codes => n = strm[h].sent \/ Failed(h)
             /\ n > 0 => Heads(h)
      BY DEF DoneInv
    <3>2. n > 0 => Heads(h)'
      BY <2>1, <2>4, <3>1 DEF StreamInv
    <3> QED
      BY <2>2, <3>1, <3>2 DEF DoneInv
  <2> QED
    BY <2>1, <2>3, <2>5, <2>6, <2>7 DEF StreamInv, Written
<1> QED
  BY <1>1, <1>2, <1>3 DEF ReqInv, Keeps

LEMMA FrameKept ==
    ASSUME NEW i, FrameInv(i), Keeps(i), UNCHANGED scn
    PROVE  FrameInv(i)'
  BY DEF FrameInv, Keeps, Bare, Opts

(* One invocation moves, and nothing else.                                 *)
InvMove(i) ==
    /\ DOMAIN inv' = Invs /\ DOMAIN inv'[i] = InvFields
    /\ \A j \in Invs : j # i => inv'[j] = inv[j]
    /\ Keeps(i) /\ InvInv(i)'

LEMMA InvMoveInd ==
    ASSUME IndInv, NEW i \in Invs, InvMove(i), crashed = None, UNCHANGED <<scn, call, over, crashed, req, strm>>
    PROVE  IndInv'
<1>1. \A j \in Invs : Keeps(j) /\ InvInv(j)'
  BY SameKeeps DEF InvMove, IndInv, InvInv
<1>2. \A j \in Invs : FrameInv(j)'
  BY <1>1, FrameKept DEF IndInv
<1>3. ShapeInv'
  BY DEF InvMove, IndInv, ShapeInv
<1>4. ASSUME NEW d \in Calls PROVE CallInv(d)'
  <2>1. d \in Invs /\ CallInv(d)
    BY DEF Invs, IndInv
  <2> QED
    BY <1>1, <2>1 DEF CallInv, Keeps
<1>5. ASSUME NEW h \in Reqs PROVE ReqInv(h)'
  <2>1. h \in Invs /\ ReqInv(h) /\ InvInv(h)
    BY DEF Invs, IndInv
  <2> QED
    BY <1>1, <2>1, ReqFrame
<1>6. PanicContained'
  BY DEF PanicContained
<1> QED
  BY <1>1, <1>2, <1>3, <1>4, <1>5, <1>6 DEF IndInv

(* Nothing but the end of the process.                                     *)
LEMMA CrashInd ==
    ASSUME IndInv, UNCHANGED <<scn, call, inv, over, req, strm>>, PanicContained'
    PROVE  IndInv'
<1>1. ASSUME NEW h \in Reqs PROVE ReqInv(h)'
  <2>1. h \in Invs /\ ReqInv(h) /\ InvInv(h)
    BY DEF IndInv, Invs
  <2> QED
    BY <2>1, SameKeeps, ReqFrame
<1>2. ASSUME NEW i \in Invs PROVE InvInv(i)' /\ FrameInv(i)'
  <2>1. InvInv(i) /\ FrameInv(i)
    BY DEF IndInv
  <2> QED
    BY <2>1, SameKeeps, FrameKept DEF InvInv
<1> QED
  BY <1>1, <1>2 DEF IndInv, ShapeInv, CallInv

(* The end of a handler: only an invocation that still runs returns.       *)
LEMMA ReturnedFacts ==
    ASSUME IndInv, NEW i \in Invs, NEW r
    PROVE  LET after == Returned(i, r)
           IN /\ DOMAIN after = Invs /\ DOMAIN after[i] = InvFields
              /\ \A j \in Invs : j # i => after[j] = inv[j]
              /\ after[i].st = "ret" /\ after[i].res = r /\ after[i].copied = inv[i].hdr
              /\ after[i].h = inv[i].h /\ after[i].val = inv[i].val /\ after[i].timed = inv[i].timed
              /\ after[i].stream = inv[i].stream /\ after[i].frames = inv[i].frames
              /\ after[i].outer = inv[i].outer /\ after[i].hdr = inv[i].hdr
<1>1. DOMAIN inv = Invs /\ DOMAIN inv[i] = InvFields
  BY DEF IndInv, ShapeInv
<1> QED
  BY <1>1 DEF Returned, InvFields

LEMMA HandlerEndMoves ==
    ASSUME IndInv, NEW i \in Invs, inv[i].h \in {"run", "wait", "panic"}, NEW r \in Codes, HandlerEnd(i, r)
    PROVE  InvMove(i)
<1>1. DOMAIN inv = Invs /\ DOMAIN inv[i] = InvFields /\ InvInv(i)
  BY DEF IndInv, ShapeInv
<1>2. CASE inv[i].timed
  <2>1. inv' = [inv EXCEPT ![i].h = "send", ![i].val = r]
    BY <1>2 DEF HandlerEnd
  <2> QED
    BY <1>1, <1>2, <2>1 DEF InvMove, Keeps, InvInv, InvFields
<1>3. CASE ~inv[i].timed
  <2> DEFINE after == Returned(i, r)
  <2>1. inv' = [after EXCEPT ![i].h = "end"]
    BY <1>3 DEF HandlerEnd
  <2>2. inv[i].st = "run"
    BY <1>1, <1>3 DEF InvInv
  <2>3. /\ DOMAIN after = Invs /\ DOMAIN after[i] = InvFields
        /\ \A j \in Invs : j # i => after[j] = inv[j]
        /\ after[i].st = "ret" /\ after[i].res = r /\ after[i].copied = inv[i].hdr
        /\ after[i].timed = inv[i].timed /\ after[i].stream = inv[i].stream /\ after[i].frames = inv[i].frames
        /\ after[i].hdr = inv[i].hdr
    BY ReturnedFacts
  <2> HIDE DEF after
  <2> QED
    BY <1>1, <1>3, <2>1, <2>2, <2>3 DEF InvMove, Keeps, InvInv, InvFields
<1> QED
  BY <1>2, <1>3

(* A panic ends the process only where no recovery is in the way.          *)
LEMMA UnwindInd ==
    ASSUME IndInv, NEW i \in Invs, Unwind(i), crashed = None, UNCHANGED hvars
    PROVE  IndInv'
<1>1. DOMAIN inv = Invs /\ DOMAIN inv[i] = InvFields /\ InvInv(i) /\ FrameInv(i) /\ inv[i].h = "panic"
  BY DEF IndInv, ShapeInv, Unwind
<1>2. UNCHANGED <<scn, call, over, req, strm>>
  BY DEF Unwind, hvars
<1>3. CASE inv[i].frames = <<>> /\ crashed' = [at |-> "handler", inv |-> i] /\ UNCHANGED inv
  <2>1. Bare(i)
    BY <1>1, <1>3 DEF FrameInv, InvInv
  <2>2. crashed'.at = "handler" /\ crashed'.inv = i
    BY <1>3
  <2>3. PanicContained'
    BY <1>2, <1>3, <2>1, <2>2 DEF PanicContained, Bare, Opts
  <2> QED
    BY <1>2, <1>3, <2>3, CrashInd
<1>4. CASE HandlerEnd(i, "Internal") /\ UNCHANGED crashed
  <2>1. InvMove(i)
    BY <1>1, <1>4, HandlerEndMoves DEF Codes
  <2> QED
    BY <1>2, <1>4, <2>1, InvMoveInd
<1>5. CASE /\ inv[i].frames # <<>> /\ Last(inv[i].frames) # "recovery" /\ UNCHANGED crashed
           /\ inv' = [inv EXCEPT ![i].st = "ret", ![i].h = "end", ![i].res = "Internal", ![i].outer = TRUE]
  <2>2. ~inv[i].timed
    BY <1>1, <1>5 DEF FrameInv, InvInv
  <2>3. inv[i].st = "run"
    BY <1>1, <2>2 DEF InvInv
  <2>6. InvMove(i)
    BY <1>1, <1>5, <2>2, <2>3 DEF InvMove, Keeps, InvInv, InvFields, Codes
  <2> QED
    BY <1>2, <1>5, <2>6, InvMoveInd
<1> QED
  BY <1>3, <1>4, <1>5 DEF Unwind

LEMMA InvStepInd ==
    ASSUME IndInv, NEW i \in Invs, InvStep(i), crashed = None, UNCHANGED hvars
    PROVE  IndInv'
<1>1. DOMAIN inv = Invs /\ DOMAIN inv[i] = InvFields /\ InvInv(i)
  BY DEF IndInv, ShapeInv
<1>2. CASE HandlerDone(i)
  <2> DEFINE after == Returned(i, inv[i].val)
  <2>1. inv' = [after EXCEPT ![i].h = "end"] /\ inv[i].st = "run" /\ inv[i].h = "send"
    BY <1>2 DEF HandlerDone
  <2>2. /\ DOMAIN after = Invs /\ DOMAIN after[i] = InvFields
        /\ \A j \in Invs : j # i => after[j] = inv[j]
        /\ after[i].st = "ret" /\ after[i].res = inv[i].val /\ after[i].copied = inv[i].hdr
        /\ after[i].timed = inv[i].timed /\ after[i].stream = inv[i].stream /\ after[i].frames = inv[i].frames
        /\ after[i].hdr = inv[i].hdr
    BY ReturnedFacts
  <2> HIDE DEF after
  <2>3. InvMove(i)
    BY <1>1, <2>1, <2>2 DEF InvMove, Keeps, InvInv, InvFields
  <2> QED
    BY <1>2, <2>3, InvMoveInd DEF HandlerDone, hvars
<1>3. CASE Deadline(i)
  <2> DEFINE after == Returned(i, "DeadlineExceeded")
  <2>1. inv' = after /\ inv[i].st = "run" /\ inv[i].timed
    BY <1>3 DEF Deadline
  <2>2. /\ DOMAIN after = Invs /\ DOMAIN after[i] = InvFields
        /\ \A j \in Invs : j # i => after[j] = inv[j]
        /\ after[i].st = "ret" /\ after[i].res = "DeadlineExceeded" /\ after[i].copied = inv[i].hdr
        /\ after[i].h = inv[i].h /\ after[i].val = inv[i].val /\ after[i].timed = inv[i].timed
        /\ after[i].stream = inv[i].stream /\ after[i].frames = inv[i].frames /\ after[i].hdr = inv[i].hdr
    BY ReturnedFacts
  <2> HIDE DEF after
  <2>3. InvMove(i)
    BY <1>1, <2>1, <2>2 DEF InvMove, Keeps, InvInv, InvFields, Codes
  <2> QED
    BY <1>3, <2>3, InvMoveInd DEF Deadline, hvars
<1> QED
  BY <1>2, <1>3, UnwindInd DEF InvStep

LEMMA HandlerInd ==
    ASSUME IndInv, NEW i \in Invs, Handler(i), crashed = None, UNCHANGED hvars
    PROVE  IndInv'
<1>1. DOMAIN inv = Invs /\ DOMAIN inv[i] = InvFields /\ InvInv(i)
  BY DEF IndInv, ShapeInv
<1>2. CASE HandlerReturn(i)
  <2>1. PICK r \in {"ok", "nil", "Unknown"} : HandlerEnd(i, r)
    BY <1>2 DEF HandlerReturn
  <2>2. InvMove(i)
    BY <1>2, <2>1, HandlerEndMoves DEF HandlerReturn, Codes
  <2> QED
    BY <1>2, <2>2, InvMoveInd DEF HandlerReturn, hvars
<1>3. CASE HandlerPanic(i)
  <2>1. InvMove(i)
    BY <1>1, <1>3 DEF HandlerPanic, InvMove, Keeps, InvInv, InvFields
  <2> QED
    BY <1>3, <2>1, InvMoveInd DEF HandlerPanic, hvars
<1> QED
  BY <1>2, <1>3 DEF Handler

LEMMA SetHeaderInd ==
    ASSUME IndInv, NEW i \in Invs, NEW hdr \in Headers, HeaderOpen(i), SetHeader(i, hdr), crashed = None, UNCHANGED hvars
    PROVE  IndInv'
<1>1. DOMAIN inv = Invs /\ DOMAIN inv[i] = InvFields /\ InvInv(i)
  BY DEF IndInv, ShapeInv
<1>2. InvMove(i)
  BY <1>1 DEF SetHeader, HeaderOpen, Headers, InvMove, Keeps, InvInv, InvFields
<1> QED
  BY <1>2, InvMoveInd DEF SetHeader, hvars

-----------------------------------------------------------------------------
(* One call moves, perhaps with its invocation.                            *)
CallMove(d) ==
    /\ DOMAIN call' = Calls /\ DOMAIN call'[d] = CallFields
    /\ \A e \in Calls : e # d => call'[e] = call[e]
    /\ CallInv(d)'
    /\ DOMAIN inv' = Invs /\ DOMAIN inv'[d] = InvFields
    /\ \A j \in Invs : j # d => inv'[j] = inv[j]
    /\ InvInv(d)' /\ FrameInv(d)'

LEMMA CallMoveInd ==
    ASSUME IndInv, NEW d \in Calls, CallMove(d), crashed = None, UNCHANGED <<scn, over, crashed, req, strm>>
    PROVE  IndInv'
<1>1. ShapeInv'
  BY DEF CallMove, IndInv, ShapeInv
<1>2. ASSUME NEW j \in Invs PROVE InvInv(j)' /\ FrameInv(j)'
  <2>1. CASE j = d
    BY <2>1 DEF CallMove
  <2>2. CASE j # d
    BY <2>2, SameKeeps, FrameKept DEF CallMove, IndInv, InvInv
  <2> QED
    BY <2>1, <2>2
<1>3. ASSUME NEW e \in Calls PROVE CallInv(e)'
  <2>1. CASE e = d
    BY <2>1 DEF CallMove
  <2>2. CASE e # d
    <3>1. call'[e] = call[e] /\ inv'[e] = inv[e] /\ CallInv(e)
      BY <2>2 DEF CallMove, IndInv, Invs
    <3> QED
      BY <3>1 DEF CallInv
  <2> QED
    BY <2>1, <2>2
<1>4. \A h \in Reqs : inv'[h] = inv[h]
  BY InvsAssumption DEF CallMove, Invs
<1>5. \A h \in Reqs : ReqInv(h)'
  BY <1>4, SameKeeps, ReqFrame DEF IndInv, Invs
<1>6. PanicContained'
  BY DEF PanicContained
<1> QED
  BY <1>1, <1>2, <1>3, <1>5, <1>6 DEF IndInv

(* What an invocation begins with: the recovers around its handler are     *)
(* those of the nesting.                                                   *)
Frames == {"ServeHTTP", "wrapper", "recovery"}

LEMMA InnerFrame ==
    ASSUME NEW S, NEW frames \in Seq(S), NEW f \in S
    PROVE  Append(frames, f) \in Seq(S) /\ Append(frames, f) # <<>> /\ Last(Append(frames, f)) = f
<1>1. /\ Append(frames, f) \in Seq(S) /\ Len(Append(frames, f)) = Len(frames) + 1
      /\ Append(frames, f)[Len(frames) + 1] = f /\ Len(frames) \in Nat
  OBVIOUS
<1>2. Len(Append(frames, f)) # 0 /\ Len(<<>>) = 0
  BY <1>1
<1> QED
  BY <1>1, <1>2 DEF Last

LEMMA FramesFacts ==
    ASSUME NEW i, NEW stream \in BOOLEAN, NEW timed, timed <=> hooked /\ Opts.timeout
    PROVE  LET frames == HandlerFrames(i, stream)
           IN /\ frames = <<>> =>
                   \/ stream /\ timed
                   \/ ~Opts.recovery /\ (timed \/ (~Opts.cfgRecovery /\ (stream \/ i \notin Reqs)))
              /\ timed /\ frames # <<>> => Last(frames) = "recovery"
<1> DEFINE base == IF i \in Reqs THEN <<"ServeHTTP">> ELSE <<>>
<1>1. <<>> \in Seq(Frames) /\ base \in Seq(Frames) /\ (i \in Reqs => base # <<>>)
  <2>1. <<"ServeHTTP">> \in Seq(Frames) /\ Len(<<"ServeHTTP">>) = 1 /\ <<>> \in Seq(Frames) /\ Len(<<>>) = 0
    BY DEF Frames
  <2>2. <<"ServeHTTP">> # <<>>
    BY <2>1
  <2> QED
    BY <2>1, <2>2
<1> HIDE DEF base
<1>2. ASSUME NEW s \in Seq(Frames)
      PROVE  /\ Wrapper(s) \in Seq(Frames) /\ (Opts.cfgRecovery => Wrapper(s) # <<>>) /\ (~Opts.cfgRecovery => Wrapper(s) = s)
  BY <1>2, InnerFrame DEF Wrapper, Frames
<1>3. ASSUME NEW s \in Seq(Frames)
      PROVE  /\ Recovery(s) \in Seq(Frames) /\ (~Opts.recovery => Recovery(s) = s)
             /\ Opts.recovery => Recovery(s) # <<>> /\ Last(Recovery(s)) = "recovery"
  BY <1>3, InnerFrame DEF Recovery, Frames
<1>4. \A s : Timeout(s) = IF timed THEN <<>> ELSE s
  BY DEF Timeout
<1>5. CASE stream
  <2>1. HandlerFrames(i, stream) = Timeout(Recovery(Wrapper(<<>>)))
    BY <1>5 DEF HandlerFrames
  <2> QED
    BY <1>1, <1>2, <1>3, <1>4, <1>5, <2>1
<1>6. CASE ~stream
  <2>1. HandlerFrames(i, stream) = Recovery(Timeout(Wrapper(base)))
    BY <1>6 DEF HandlerFrames, base
  <2>2. Wrapper(base) \in Seq(Frames) /\ (Wrapper(base) = <<>> => ~Opts.cfgRecovery /\ i \notin Reqs)
    BY <1>1, <1>2
  <2>3. Timeout(Wrapper(base)) \in Seq(Frames) /\ Timeout(Wrapper(base)) = IF timed THEN <<>> ELSE Wrapper(base)
    BY <1>1, <1>4, <2>2
  <2> QED
    BY <1>3, <1>6, <2>1, <2>2, <2>3
<1> QED
  BY <1>5, <1>6

(* An invocation that has just begun, or was refused by a hook.            *)
Begun(i, rec, stream) ==
    /\ DOMAIN rec = InvFields /\ (rec.stream <=> stream) /\ rec.hdr = {} /\ rec.copied = {}
    /\ \/ rec.st = "run" /\ rec.h = (IF stream THEN "wait" ELSE "run")
       \/ rec.st = "ret" /\ rec.h = "end" /\ rec.res = "ResourceExhausted"
    /\ rec.frames = <<>> =>
         \/ rec.stream /\ rec.timed
         \/ ~Opts.recovery /\ (rec.timed \/ (~Opts.cfgRecovery /\ (rec.stream \/ i \notin Reqs)))
    /\ rec.timed /\ rec.frames # <<>> => Last(rec.frames) = "recovery"

LEMMA NewInvFacts ==
    ASSUME NEW i, NEW ctx, NEW stream \in BOOLEAN, NEW rec \in Hooked(Invoke(i, ctx, stream))
    PROVE  Begun(i, rec, stream)
<1> DEFINE first == Invoke(i, ctx, stream)
           timed == hooked /\ Opts.timeout
           frames == HandlerFrames(i, stream)
<1>1. /\ frames = <<>> =>
           \/ stream /\ timed
           \/ ~Opts.recovery /\ (timed \/ (~Opts.cfgRecovery /\ (stream \/ i \notin Reqs)))
      /\ timed /\ frames # <<>> => Last(frames) = "recovery"
  BY FramesFacts
<1>2. first = [IdleInv EXCEPT !.st = "run", !.h = IF stream THEN "wait" ELSE "run", !.stream = stream,
                              !.timed = timed, !.ctx = HandlerCtx(i, ctx, stream), !.frames = frames]
  BY DEF Invoke
<1> HIDE DEF timed, frames
<1>3. /\ DOMAIN first = InvFields /\ first.stream = stream /\ first.hdr = {} /\ first.copied = {}
      /\ first.st = "run" /\ first.h = (IF stream THEN "wait" ELSE "run")
      /\ first.timed = timed /\ first.frames = frames
  BY <1>2 DEF IdleInv, InvFields
<1>4. rec = first \/ rec = [first EXCEPT !.st = "ret", !.h = "end", !.res = "ResourceExhausted"]
  BY DEF Hooked
<1> HIDE DEF first
<1>5. /\ DOMAIN rec = InvFields /\ rec.stream = stream /\ rec.hdr = {} /\ rec.copied = {}
      /\ rec.timed = timed /\ rec.frames = frames
      /\ \/ rec.st = "run" /\ rec.h = (IF stream THEN "wait" ELSE "run")
         \/ rec.st = "ret" /\ rec.h = "end" /\ rec.res = "ResourceExhausted"
  BY <1>3, <1>4 DEF InvFields
<1> QED
  BY <1>1, <1>5 DEF Begun

LEMMA BegunInv ==
    ASSUME NEW i \in Invs, NEW stream \in BOOLEAN, stream => i \in Reqs, Begun(i, inv'[i], stream), UNCHANGED scn
    PROVE  InvInv(i)' /\ FrameInv(i)'
<1>1. InvInv(i)'
  BY DEF Begun, InvInv, Codes
<1>2. FrameInv(i)'
  BY DEF Begun, FrameInv, Bare, Opts
<1> QED
  BY <1>1, <1>2

LEMMA CallInd ==
    ASSUME IndInv, NEW d \in Calls, CallStep(d) \/ Application(d), crashed = None, UNCHANGED hvars
    PROVE  IndInv'
<1>1. /\ d \in Invs /\ DOMAIN call = Calls /\ DOMAIN call[d] = CallFields /\ CallInv(d)
      /\ DOMAIN inv = Invs /\ DOMAIN inv[d] = InvFields /\ InvInv(d) /\ FrameInv(d)
  BY DEF IndInv, ShapeInv, Invs
<1>2. None # "ok"
  BY NoneAssumption DEF Codes
<1>16. CASE MemSet(d) /\ inv[d].res = "nil"
  <2>1. crashed' = [at |-> "reply", inv |-> d] /\ UNCHANGED <<scn, call, inv, over, req, strm>>
    BY <1>16 DEF MemSet, hvars
  <2>2. crashed'.at = "reply" /\ crashed'.inv = d
    BY <2>1
  <2>3. PanicContained'
    BY <1>16, <2>1, <2>2 DEF PanicContained
  <2> QED
    BY <2>1, <2>3, CrashInd
<1> SUFFICES ASSUME ~(MemSet(d) /\ inv[d].res = "nil") PROVE CallMove(d) /\ UNCHANGED <<scn, over, crashed>>
  BY <1>16, CallMoveInd DEF hvars
<1> DEFINE Quiet == UNCHANGED <<scn, inv, over, crashed>>
<1>3. ASSUME Quiet, DOMAIN call' = Calls, DOMAIN call'[d] = CallFields,
             \A e \in Calls : e # d => call'[e] = call[e], CallInv(d)'
      PROVE  CallMove(d) /\ UNCHANGED <<scn, over, crashed>>
  BY <1>1, <1>3, SameKeeps, FrameKept DEF CallMove, InvInv
<1>4. CASE DialLoad(d)
  BY <1>1, <1>3, <1>4 DEF DialLoad, CallInv, CallFields
<1>5. CASE DialMake(d)
  BY <1>1, <1>3, <1>5 DEF DialMake, CallInv, CallFields
<1>6. CASE DialPool(d)
  BY <1>1, <1>3, <1>6 DEF DialPool, CallInv, CallFields
<1>7. CASE Dialed(d)
  BY <1>1, <1>3, <1>7 DEF Dialed, CallInv, CallFields
<1>8. CASE CallCtxDone(d)
  BY <1>1, <1>3, <1>8 DEF CallCtxDone, CallInv, CallFields
<1>9. CASE RemoteReturn(d)
  BY <1>1, <1>3, <1>9 DEF RemoteReturn, CallInv, CallFields
<1>10. CASE MemInvoke(d)
  <2>1. CASE call' = [call EXCEPT ![d].mem = "end", ![d].ch = "NotFound"] /\ UNCHANGED inv
    BY <1>1, <1>2, <1>3, <1>10, <2>1 DEF MemInvoke, CallInv, CallFields
  <2>2. ASSUME NEW ctx, NEW i \in Hooked(Invoke(d, ctx, FALSE)),
               call' = [call EXCEPT ![d].mem = "wait"], inv' = [inv EXCEPT ![d] = i]
        PROVE  CallMove(d)
    <3>1. inv'[d] = i /\ DOMAIN inv' = Invs /\ \A j \in Invs : j # d => inv'[j] = inv[j]
      BY <1>1, <2>2
    <3>2. Begun(d, inv'[d], FALSE)
      BY <2>2, <3>1, NewInvFacts
    <3>3. InvInv(d)' /\ FrameInv(d)' /\ DOMAIN inv'[d] = InvFields
      BY <1>1, <1>10, <3>2, BegunInv DEF MemInvoke, Begun
    <3>4. CallInv(d)' /\ DOMAIN call' = Calls /\ DOMAIN call'[d] = CallFields /\ \A e \in Calls : e # d => call'[e] = call[e]
      BY <1>1, <1>2, <1>10, <2>2 DEF MemInvoke, CallInv, CallFields
    <3> QED
      BY <3>1, <3>2, <3>3, <3>4 DEF CallMove
  <2> QED
    BY <1>10, <2>1, <2>2 DEF MemInvoke
<1>11. CASE MemSet(d)
  <2>1. call[d].mem = "wait" /\ inv[d].st = "ret" /\ Quiet
    BY <1>11 DEF MemSet
  <2>2. CASE inv[d].res = "ok"
    <3>1. call' = [call EXCEPT ![d].mem = "set", ![d].reply = @ \/ TRUE, ![d].ch = @]
      BY <1>11, <2>2 DEF MemSet
    <3> QED
      BY <1>1, <1>2, <1>3, <2>1, <2>2, <3>1 DEF CallInv, CallFields
  <2>3. CASE inv[d].res # "ok"
    <3>1. call' = [call EXCEPT ![d].mem = "end", ![d].reply = @ \/ FALSE, ![d].ch = inv[d].res]
      BY <1>11, <2>3 DEF MemSet
    <3> QED
      BY <1>1, <1>2, <1>3, <2>1, <2>3, <3>1 DEF CallInv, CallFields
  <2> QED
    BY <2>2, <2>3
<1>12. CASE MemSend(d)
  BY <1>1, <1>3, <1>12 DEF MemSend, CallInv, CallFields
<1>13. CASE MemReturn(d)
  BY <1>1, <1>3, <1>13 DEF MemReturn, CallInv, CallFields
<1>14. CASE Cancel(d)
  BY <1>1, <1>3, <1>14 DEF Cancel, CallInv, CallFields
<1>15. ASSUME NEW p, NEW c, Begin(d, p, c.svc, c.opt, c.puts) PROVE CallMove(d) /\ UNCHANGED <<scn, over, crashed>>
  BY <1>1, <1>2, <1>3, <1>15 DEF Begin, CallInv, CallFields, IdleCall
<1> QED
  BY <1>4, <1>5, <1>6, <1>7, <1>8, <1>9, <1>10, <1>11, <1>12, <1>13, <1>14, <1>15 DEF CallStep, Application

-----------------------------------------------------------------------------
(* One request moves, perhaps with its invocation and its stream.          *)
ReqMove(h) ==
    /\ DOMAIN req' = Reqs /\ DOMAIN req'[h] = ReqFields
    /\ DOMAIN strm' = Reqs /\ DOMAIN strm'[h] = StrmFields
    /\ DOMAIN inv' = Invs /\ DOMAIN inv'[h] = InvFields
    /\ \A g \in Reqs : g # h => req'[g] = req[g] /\ strm'[g] = strm[g]
    /\ \A j \in Invs : j # h => inv'[j] = inv[j]
    /\ InvInv(h)' /\ FrameInv(h)' /\ ReqInv(h)'

LEMMA ReqMoveInd ==
    ASSUME IndInv, NEW h \in Reqs, ReqMove(h), over \subseteq over', crashed = None, UNCHANGED <<scn, call, crashed>>
    PROVE  IndInv'
<1>1. ShapeInv'
  BY DEF ReqMove, IndInv, ShapeInv
<1>2. ASSUME NEW j \in Invs PROVE InvInv(j)' /\ FrameInv(j)'
  <2>1. CASE j = h
    BY <2>1 DEF ReqMove
  <2>2. CASE j # h
    <3>1. inv'[j] = inv[j] /\ InvInv(j) /\ FrameInv(j)
      BY <2>2 DEF ReqMove, IndInv
    <3> QED
      BY <3>1 DEF InvInv, FrameInv, Bare, Opts
  <2> QED
    BY <2>1, <2>2
<1>3. ASSUME NEW d \in Calls PROVE CallInv(d)'
  <2>1. inv'[d] = inv[d] /\ CallInv(d)
    BY InvsAssumption DEF ReqMove, IndInv, Invs
  <2> QED
    BY <2>1 DEF CallInv
<1>4. ASSUME NEW g \in Reqs PROVE ReqInv(g)'
  <2>1. CASE g = h
    BY <2>1 DEF ReqMove
  <2>2. CASE g # h
    <3>1. g \in Invs /\ ReqInv(g) /\ InvInv(g)
      BY DEF IndInv, Invs
    <3>2. req'[g] = req[g] /\ strm'[g] = strm[g] /\ inv'[g] = inv[g]
      BY <2>2, <3>1 DEF ReqMove
    <3> QED
      BY <3>1, <3>2, SameKeeps, ReqFrame
  <2> QED
    BY <2>1, <2>2
<1>5. PanicContained'
  BY DEF PanicContained
<1> QED
  BY <1>1, <1>2, <1>3, <1>4, <1>5 DEF IndInv

(* What is known of a request.                                             *)
LEMMA ReqFacts ==
    ASSUME IndInv, NEW h \in Reqs
    PROVE  /\ h \in Invs /\ DOMAIN req = Reqs /\ DOMAIN req[h] = ReqFields
           /\ DOMAIN strm = Reqs /\ DOMAIN strm[h] = StrmFields
           /\ DOMAIN inv = Invs /\ DOMAIN inv[h] = InvFields
           /\ InvInv(h) /\ FrameInv(h) /\ StageInv(h) /\ ReqInv(h)
  BY DEF IndInv, ShapeInv, Invs, ReqInv

(* Only the request moves.                                                 *)
LEMMA OnlyReq ==
    ASSUME IndInv, NEW h \in Reqs, DOMAIN req' = Reqs, DOMAIN req'[h] = ReqFields,
           \A g \in Reqs : g # h => req'[g] = req[g], UNCHANGED <<scn, inv, strm>>, ReqInv(h)'
    PROVE  ReqMove(h)
  BY ReqFacts DEF ReqMove, InvInv, FrameInv, Bare, Opts

(* Only the stream moves.                                                  *)
LEMMA OnlyStrm ==
    ASSUME IndInv, NEW h \in Reqs, DOMAIN strm' = Reqs, DOMAIN strm'[h] = StrmFields,
           \A g \in Reqs : g # h => strm'[g] = strm[g], UNCHANGED <<scn, inv, req>>, ReqInv(h)'
    PROVE  ReqMove(h)
  BY ReqFacts DEF ReqMove, InvInv, FrameInv, Bare, Opts

-----------------------------------------------------------------------------
(* The response writer.                                                    *)
LEMMA WriteHeaderFacts ==
    ASSUME NEW w, DOMAIN w = WriterFields, NEW code
    PROVE  /\ DOMAIN WriteHeader(w, code) = WriterFields
           /\ WriteHeader(w, code).body = w.body /\ WriteHeader(w, code).hdr = w.hdr
           /\ WriteHeader(w, code).status = (IF w.status = 0 THEN code ELSE w.status)
           /\ WriteHeader(w, code).sentHdr = (IF w.status = 0 THEN w.hdr ELSE w.sentHdr)
  BY DEF WriteHeader, WriterFields

LEMMA WriteFacts ==
    ASSUME NEW w, DOMAIN w = WriterFields, NEW chunk
    PROVE  /\ DOMAIN Write(w, chunk) = WriterFields
           /\ Write(w, chunk).body = Append(w.body, chunk) /\ Write(w, chunk).hdr = w.hdr
           /\ Write(w, chunk).status = (IF w.status = 0 THEN 200 ELSE w.status)
           /\ Write(w, chunk).sentHdr = (IF w.status = 0 THEN w.hdr ELSE w.sentHdr)
  BY DEF WriteHeader, Write, WriterFields

LEMMA SetHdrFacts ==
    ASSUME NEW w, DOMAIN w = WriterFields, NEW hdr
    PROVE  /\ DOMAIN SetHdr(w, hdr) = WriterFields
           /\ SetHdr(w, hdr).body = w.body /\ SetHdr(w, hdr).hdr = w.hdr \cup hdr
           /\ SetHdr(w, hdr).status = w.status /\ SetHdr(w, hdr).sentHdr = w.sentHdr
  BY DEF SetHdr, WriterFields

LEMMA StatusFacts ==
    ASSUME NEW code
    PROVE  HttpStatusFromCode(code) \in {200, 400, 404, 408, 429, 503, 504, 500}
  BY DEF HttpStatusFromCode

LEMMA ErrorAnswer ==
    ASSUME NEW w, DOMAIN w = WriterFields, w.status = 0, NEW code \in Nat, NEW err
    PROVE  LET v == HttpErrorHandler(code, w, err)
           IN /\ DOMAIN v = WriterFields
              /\ code = 0 => v.status = HttpStatusFromCode(err) /\ v.body = Append(w.body, err)
              /\ code # 0 => v.status = code /\ v.body = w.body
<1> DEFINE typed == SetHdr(w, {"json"})
           coded == WriteHeader(typed, HttpStatusFromCode(err))
           given == WriteHeader(typed, code)
<1>1. DOMAIN typed = WriterFields /\ typed.status = 0 /\ typed.body = w.body
  BY SetHdrFacts
<1>2. DOMAIN coded = WriterFields /\ coded.status = HttpStatusFromCode(err) /\ coded.body = w.body
  BY <1>1, WriteHeaderFacts
<1>3. DOMAIN given = WriterFields /\ given.status = code /\ given.body = w.body
  BY <1>1, WriteHeaderFacts
<1>4. coded.status # 0
  BY <1>2, StatusFacts
<1>5. DOMAIN Write(coded, err) = WriterFields /\ Write(coded, err).status = HttpStatusFromCode(err)
      /\ Write(coded, err).body = Append(w.body, err)
  BY <1>2, <1>4, WriteFacts
<1>6. HttpErrorHandler(code, w, err) = IF code = 0 THEN Write(coded, err) ELSE given
  BY DEF HttpErrorHandler
<1> HIDE DEF typed, coded, given
<1> QED
  BY <1>3, <1>5, <1>6

(* UnaryInvoker.Invoke: reply, status and header.                          *)
Fits(v, res, hdr) ==
    /\ (res = "ok") = (v.body = <<"reply">>)
    /\ v.status = CustomCode => "code" \in hdr
    /\ v.status # CustomCode =>
         /\ v.status = HttpStatusFromCode(IF res = "panic" THEN "Internal" ELSE res)
         /\ res # "panic" => "code" \notin hdr
    /\ res = "ok" /\ "code" \notin hdr => hdr \subseteq v.sentHdr

LEMMA OtherChunk ==
    ASSUME NEW chunk, chunk # "reply"
    PROVE  <<chunk>> # <<"reply">> /\ <<>> # <<"reply">>
<1>1. <<chunk>>[1] = chunk /\ <<"reply">>[1] = "reply" /\ Len(<<>>) = 0 /\ Len(<<"reply">>) = 1
  OBVIOUS
<1> QED
  BY <1>1

LEMMA UnaryAnswerTells ==
    ASSUME NEW res \in Codes, NEW hdr \in {{}, {"h"}, {"h", "code"}}
    PROVE  Fits(WriteHeader(UnaryAnswer(NewWriter, res, hdr), 200), res, hdr)
<1> DEFINE a == UnaryAnswer(NewWriter, res, hdr)
           v == WriteHeader(a, 200)
<1>1. DOMAIN NewWriter = WriterFields /\ NewWriter.status = 0 /\ NewWriter.body = <<>>
  BY DEF NewWriter, WriterFields
<1>2. CASE res = "panic"
  <2>1. a = HttpErrorHandler(0, NewWriter, "Internal")
    BY <1>2 DEF UnaryAnswer
  <2>2. DOMAIN a = WriterFields /\ a.status = HttpStatusFromCode("Internal") /\ a.body = <<"Internal">>
    BY <1>1, <2>1, ErrorAnswer
  <2>3. a.status # 0 /\ a.status # CustomCode
    BY <2>2, StatusFacts DEF CustomCode
  <2> HIDE DEF a
  <2>4. v.status = a.status /\ v.body = a.body
    BY <2>2, <2>3, WriteHeaderFacts
  <2>5. v.body # <<"reply">>
    BY <2>2, <2>4, OtherChunk
  <2> HIDE DEF v
  <2>6. Fits(v, res, hdr)
    BY <1>2, <2>2, <2>3, <2>4, <2>5 DEF Fits
  <2> QED
    BY <2>6 DEF v, a
<1>3. CASE res = "ok"
  <2> DEFINE typed == SetHdr(NewWriter, {"json"})
             coded == IF HttpCode(hdr) # 0 THEN WriteHeader(typed, HttpCode(hdr)) ELSE typed
             headed == WriteResponseHeader(coded, hdr)
  <2>1. a = Write(headed, "reply")
    BY <1>3 DEF UnaryAnswer
  <2>2. DOMAIN typed = WriterFields /\ typed.status = 0 /\ typed.body = <<>>
    BY <1>1, SetHdrFacts
  <2>3. /\ DOMAIN coded = WriterFields /\ coded.body = <<>>
        /\ coded.status = IF "code" \in hdr THEN CustomCode ELSE 0
    BY <2>2, WriteHeaderFacts DEF HttpCode, CustomCode
  <2> HIDE DEF typed, coded
  <2>4. DOMAIN headed = WriterFields /\ headed.body = <<>> /\ headed.status = coded.status
        /\ headed.hdr = coded.hdr \cup (hdr \ {"code"})
    BY <2>3, SetHdrFacts DEF WriteResponseHeader
  <2> HIDE DEF headed, a
  <2>5. DOMAIN a = WriterFields /\ a.body = <<"reply">>
        /\ a.status = (IF "code" \in hdr THEN CustomCode ELSE 200)
        /\ ("code" \notin hdr => a.sentHdr = headed.hdr)
    BY <2>1, <2>3, <2>4, WriteFacts DEF CustomCode
  <2>6. v.body = a.body /\ v.status = a.status /\ v.sentHdr = a.sentHdr
    BY <2>5, WriteHeaderFacts DEF CustomCode
  <2>7. "code" \notin hdr => hdr \subseteq v.sentHdr
    BY <2>4, <2>5, <2>6
  <2>8. HttpStatusFromCode("ok") = 200
    BY DEF HttpStatusFromCode
  <2> HIDE DEF v
  <2>9. Fits(v, res, hdr)
    BY <1>3, <2>5, <2>6, <2>7, <2>8 DEF Fits, CustomCode
  <2> QED
    BY <2>9 DEF v, a
<1>4. CASE res \notin {"panic", "ok"}
  <2>1. a = HttpErrorHandler(HttpCode(hdr), NewWriter, res)
    BY <1>4 DEF UnaryAnswer
  <2>2. HttpCode(hdr) \in Nat /\ (HttpCode(hdr) # 0 <=> "code" \in hdr) /\ (HttpCode(hdr) # 0 => HttpCode(hdr) = CustomCode)
    BY DEF HttpCode, CustomCode
  <2>3. /\ DOMAIN a = WriterFields
        /\ HttpCode(hdr) = 0 => a.status = HttpStatusFromCode(res) /\ a.body = <<res>>
        /\ HttpCode(hdr) # 0 => a.status = HttpCode(hdr) /\ a.body = <<>>
    BY <1>1, <2>1, <2>2, ErrorAnswer
  <2>4. HttpStatusFromCode(res) # 0 /\ HttpStatusFromCode(res) # CustomCode
    BY StatusFacts DEF CustomCode
  <2> HIDE DEF a
  <2>5. a.status # 0
    BY <2>2, <2>3, <2>4 DEF CustomCode
  <2>6. v.body = a.body /\ v.status = a.status
    BY <2>3, <2>5, WriteHeaderFacts
  <2>7. v.body # <<"reply">>
    <3>1. res # "reply"
      BY DEF Codes
    <3> QED
      BY <2>3, <2>6, <3>1, OtherChunk
  <2> HIDE DEF v
  <2>8. Fits(v, res, hdr)
    BY <1>4, <2>2, <2>3, <2>4, <2>6, <2>7 DEF Fits
  <2> QED
    BY <2>8 DEF v, a
<1> QED
  BY <1>2, <1>3, <1>4

LEMMA ConvertedFacts ==
    ASSUME NEW res \in Codes, NEW told \in Converted(res)
    PROVE  /\ told \in Codes
           /\ told = res \/ res = "nil" \/ (res = "ok" /\ "bad" \in Opts.outcomes)
           /\ told = "ok" => res = "ok"
  BY DEF Converted, Codes

LEMMA UnaryRespondInd ==
    ASSUME IndInv, NEW h \in Reqs, UnaryRespond(h), crashed = None
    PROVE  IndInv'
<1>1. /\ h \in Invs /\ DOMAIN req = Reqs /\ DOMAIN req[h] = ReqFields /\ InvInv(h) /\ StageInv(h)
      /\ req[h].pc = "unary" /\ inv[h].st = "ret"
  BY ReqFacts DEF UnaryRespond
<1> DEFINE i == inv[h]
<1>2. /\ req[h].w = NewWriter /\ ~i.stream /\ i.res \in Codes /\ i.copied \in {{}, {"h"}, {"h", "code"}}
      /\ i.copied \in {{}, i.hdr} /\ strm[h] = IdleStream
      /\ i.copied # i.hdr => i.res # "ok" /\ (i.h # "end" \/ i.outer)
  BY <1>1 DEF StageInv, InvInv
<1>3. PICK told \in Converted(i.res) :
         req' = [req EXCEPT ![h].pc = "done", ![h].got = told,
                            ![h].w = WriteHeader(UnaryAnswer(NewWriter, told, i.copied), 200)]
  BY <1>2 DEF UnaryRespond
<1> DEFINE v == WriteHeader(UnaryAnswer(NewWriter, told, i.copied), 200)
<1>4. /\ told \in Codes /\ (told = "ok" => i.res = "ok")
      /\ told = i.res \/ i.res = "nil" \/ (i.res = "ok" /\ "bad" \in Opts.outcomes)
  BY <1>2, <1>3, ConvertedFacts
<1>5. Fits(v, told, i.copied)
  BY <1>2, <1>4, UnaryAnswerTells
<1>6. req' = [req EXCEPT ![h].pc = "done", ![h].got = told, ![h].w = v]
  BY <1>3
<1> HIDE DEF v
<1>7. /\ DOMAIN req' = Reqs /\ DOMAIN req'[h] = ReqFields /\ \A g \in Reqs : g # h => req'[g] = req[g]
      /\ req'[h].pc = "done" /\ req'[h].w = v /\ req'[h].got = told
  BY <1>1, <1>6 DEF ReqFields
<1>8. UNCHANGED <<inv, strm, scn, call, crashed>> /\ over' = over \cup {h}
  BY DEF UnaryRespond
<1>9. UnaryTells(v, i, told)
  <2> HIDE DEF i
  <2>1. v.status = CustomCode => "code" \in i.hdr
    BY <1>2, <1>5 DEF Fits
  <2>2. v.status # CustomCode =>
          /\ v.status = HttpStatusFromCode(IF told = "panic" THEN "Internal" ELSE told)
          /\ "code" \in i.hdr => HeaderLost(i, told)
    BY <1>2, <1>5 DEF Fits, HeaderLost
  <2>3. told = "ok" /\ "code" \notin i.hdr => i.hdr \subseteq v.sentHdr
    BY <1>2, <1>4, <1>5 DEF Fits
  <2>4. (told = "ok") = (v.body = <<"reply">>)
    BY <1>5 DEF Fits
  <2> QED
    BY <1>4, <2>1, <2>2, <2>3, <2>4 DEF UnaryTells
<1>10. UnaryTells(req[h].w, inv[h], req[h].got)'
  <2>1. Opts' = Opts
    BY <1>8 DEF Opts
  <2> QED
    BY <1>7, <1>8, <1>9, <2>1 DEF UnaryTells, HeaderLost
<1>11. StageInv(h)'
  BY <1>1, <1>2, <1>7, <1>8 DEF StageInv
<1>12. ReqInv(h)'
  BY <1>2, <1>8, <1>10, <1>11 DEF ReqInv
<1> QED
  BY <1>7, <1>8, <1>12, OnlyReq, ReqMoveInd

-----------------------------------------------------------------------------
(* A request that comes, and one whose client goes.                        *)
LEMMA EmptyStream ==
    ASSUME NEW h, strm'[h] = IdleStream, req'[h].w = NewWriter, req'[h].first = TRUE, req'[h].pc = "send"
    PROVE  StreamInv(h)'
<1>1. strm'[h].sent = 0 /\ strm'[h].queue = <<>> /\ strm'[h].closed = FALSE
  BY DEF IdleStream
<1>2. DOMAIN req'[h].w = WriterFields /\ req'[h].w.body = <<>> /\ req'[h].w.status = 0
  BY DEF NewWriter, WriterFields
<1>3. Len(Messages) \in Nat
  BY MessagesAssumption
<1>4. Written(h)' = 0 /\ Tells(req[h].w.body, Written(h))'
  BY <1>2 DEF Written, Tells
<1>5. Queued(h, Written(h))'
  <2>1. <<>> \in Seq(Range(Messages) \cup Codes) /\ Len(<<>>) = 0 /\ 0 \in 0..0 /\ 0 - 0 = 0 /\ \A k \in 1..0 : FALSE
    OBVIOUS
  <2> QED
    BY <1>1, <1>4, <2>1 DEF Queued
<1>6. <<>> \in Seq(Range(Messages))
  OBVIOUS
<1>7. BodyInv(h)'
  BY <1>1, <1>2, <1>4, <1>6 DEF BodyInv
<1>8. strm'[h].sent \in 0..Len(Messages)
  BY <1>1, <1>3
<1>9. ~(strm'[h].sent > 0)
  BY <1>1
<1> QED
  BY <1>1, <1>2, <1>5, <1>7, <1>8, <1>9 DEF StreamInv

LEMMA ServeHTTPInd ==
    ASSUME IndInv, NEW h \in Reqs, NEW r, ServeHTTP(h, r), crashed = None
    PROVE  IndInv'
<1>1. /\ h \in Invs /\ DOMAIN req = Reqs /\ DOMAIN req[h] = ReqFields /\ InvInv(h) /\ StageInv(h)
      /\ DOMAIN inv = Invs /\ DOMAIN strm = Reqs /\ DOMAIN strm[h] = StrmFields
      /\ req[h].pc = "idle"
  BY ReqFacts DEF ServeHTTP
<1>2. inv[h].st = "off" /\ ~inv[h].stream /\ strm[h] = IdleStream
  BY <1>1 DEF StageInv
<1>3. UNCHANGED <<scn, call, crashed, strm>>
  BY DEF ServeHTTP
<1>4. ASSUME NEW meta, NEW err, Refuse(h, r, meta, err) PROVE IndInv'
  <2>1. /\ DOMAIN req' = Reqs /\ DOMAIN req'[h] = ReqFields /\ \A g \in Reqs : g # h => req'[g] = req[g]
        /\ req'[h].pc = "done" /\ UNCHANGED inv /\ over' = over \cup {h}
    BY <1>1, <1>4 DEF Refuse, IdleReq, ReqFields
  <2>2. ReqInv(h)'
    BY <1>2, <1>3, <2>1 DEF ReqInv, StageInv
  <2> QED
    BY <1>3, <2>1, <2>2, OnlyReq, ReqMoveInd
<1>5. ASSUME NEW meta, NEW ctx, NEW i \in Hooked(Invoke(h, ctx, meta.kind = "server")),
             req' = [req EXCEPT ![h] = [IdleReq EXCEPT !.r = r, !.meta = meta,
                                           !.pc = IF meta.kind = "server" THEN "send" ELSE "unary"]],
             inv' = [inv EXCEPT ![h] = i], UNCHANGED over
      PROVE  IndInv'
  <2> DEFINE stream == meta.kind = "server"
  <2>1. inv'[h] = i /\ DOMAIN inv' = Invs /\ \A j \in Invs : j # h => inv'[j] = inv[j]
    BY <1>1, <1>5
  <2>2. Begun(h, inv'[h], stream)
    BY <1>5, <2>1, NewInvFacts
  <2>3. /\ DOMAIN req' = Reqs /\ DOMAIN req'[h] = ReqFields /\ \A g \in Reqs : g # h => req'[g] = req[g]
        /\ req'[h].pc = (IF stream THEN "send" ELSE "unary")
        /\ req'[h].w = NewWriter /\ req'[h].first = TRUE /\ req'[h].got = None
    BY <1>1, <1>5 DEF IdleReq, ReqFields
  <2>4. InvInv(h)' /\ FrameInv(h)'
    BY <1>1, <1>3, <2>2, BegunInv
  <2>5. /\ DOMAIN inv'[h] = InvFields /\ (inv'[h].stream <=> stream)
        /\ inv'[h].st # "off" /\ (stream => inv'[h].h # "run")
    BY <2>2 DEF Begun
  <2> HIDE DEF stream
  <2>6. StageInv(h)'
    <3>1. strm'[h] = IdleStream /\ strm'[h].sent = 0
      BY <1>2, <1>3 DEF IdleStream
    <3> QED
      BY <2>3, <2>5, <3>1, NoneAssumption DEF StageInv
  <2>7. ReqInv(h)'
    <3>1. stream => StreamInv(h)'
      BY <1>2, <1>3, <2>3, EmptyStream
    <3> QED
      BY <2>3, <2>5, <2>6, <3>1 DEF ReqInv
  <2>8. ReqMove(h)
    BY <1>1, <1>3, <2>1, <2>3, <2>4, <2>5, <2>7 DEF ReqMove
  <2> QED
    BY <1>3, <1>5, <2>8, ReqMoveInd
<1> QED
  BY <1>4, <1>5 DEF ServeHTTP

LEMMA DisconnectInd ==
    ASSUME IndInv, NEW h \in Reqs, Disconnect(h), crashed = None
    PROVE  IndInv'
<1>1. UNCHANGED <<scn, call, inv, crashed, req, strm>> /\ over \subseteq over'
  BY DEF Disconnect, hvars
<1>2. DOMAIN req = Reqs /\ DOMAIN req[h] = ReqFields /\ ReqInv(h) /\ InvInv(h)
  BY ReqFacts
<1>3. ReqInv(h)'
  BY <1>1, <1>2, SameKeeps, ReqFrame
<1> QED
  BY <1>1, <1>2, <1>3, OnlyReq, ReqMoveInd

-----------------------------------------------------------------------------
(* Streams.                                                                *)
LEMMA MessageFacts ==
    /\ Messages \in Seq(Range(Messages)) /\ Len(Messages) \in Nat /\ DOMAIN Messages = 1..Len(Messages)
    /\ \A k \in 1..Len(Messages) : Messages[k] \in Range(Messages) /\ IsMessage(Messages[k]) /\ Messages[k] \notin Codes
    /\ \A c \in Codes : ~IsMessage(c)
<1>1. Messages \in Seq(Range(Messages)) /\ Len(Messages) \in Nat /\ DOMAIN Messages = 1..Len(Messages)
  BY MessagesAssumption
<1>2. \A k \in 1..Len(Messages) : Messages[k] \in Range(Messages) /\ IsMessage(Messages[k]) /\ Messages[k] \notin Codes
  BY <1>1, MessagesAssumption DEF Range, IsMessage
<1>3. \A c \in Codes : ~IsMessage(c)
  BY <1>1, <1>2 DEF IsMessage
<1> QED
  BY <1>1, <1>2, <1>3

(* A body that has only messages, with something else at its end or not.   *)
LEMMA BodyTells ==
    ASSUME NEW body \in Seq(Range(Messages)), Tells(body, Len(body)), NEW chunk, ~IsMessage(chunk)
    PROVE  Tells(Append(body, chunk), Len(body))
<1>1. Append(body, chunk) \in Seq(Range(Messages) \cup {chunk})
  <2>1. body \in Seq(Range(Messages) \cup {chunk})
    OBVIOUS
  <2> QED
    BY <2>1
<1>2. /\ Len(Append(body, chunk)) = Len(body) + 1
      /\ DOMAIN Append(body, chunk) = 1..Len(body) + 1
      /\ \A k \in 1..Len(body) : Append(body, chunk)[k] = body[k]
      /\ Append(body, chunk)[Len(body) + 1] = chunk
      /\ Len(body) \in Nat /\ DOMAIN body = 1..Len(body)
  BY <1>1
<1> QED
  BY <1>2 DEF Tells

LEMMA BodyGrows ==
    ASSUME NEW body \in Seq(Range(Messages)), Tells(body, Len(body)), Len(body) < Len(Messages),
           NEW chunk, chunk = Messages[Len(body) + 1]
    PROVE  /\ Append(body, chunk) \in Seq(Range(Messages)) /\ Len(Append(body, chunk)) = Len(body) + 1
           /\ Tells(Append(body, chunk), Len(body) + 1)
<1>1. chunk \in Range(Messages)
  BY MessageFacts
<1>2. /\ Append(body, chunk) \in Seq(Range(Messages)) /\ Len(Append(body, chunk)) = Len(body) + 1
      /\ DOMAIN Append(body, chunk) = 1..Len(body) + 1
      /\ \A k \in 1..Len(body) : Append(body, chunk)[k] = body[k]
      /\ Append(body, chunk)[Len(body) + 1] = chunk
      /\ Len(body) \in Nat /\ DOMAIN body = 1..Len(body)
  BY <1>1
<1> QED
  BY <1>2 DEF Tells

(* The request of a stream is sent, or it is too late for it.              *)
LEMMA StreamRequestInd ==
    ASSUME IndInv, NEW h \in Reqs, StreamRequest(h), crashed = None
    PROVE  IndInv'
<1>1. /\ h \in Invs /\ DOMAIN req = Reqs /\ DOMAIN req[h] = ReqFields /\ InvInv(h) /\ FrameInv(h) /\ StageInv(h) /\ ReqInv(h)
      /\ DOMAIN inv = Invs /\ DOMAIN inv[h] = InvFields /\ DOMAIN strm = Reqs /\ DOMAIN strm[h] = StrmFields
      /\ req[h].pc = "send"
  BY ReqFacts DEF StreamRequest
<1>2. req[h].w = NewWriter /\ req[h].first /\ inv[h].stream /\ strm[h].sent = 0 /\ StreamInv(h) /\ req[h].got \notin Codes
  BY <1>1 DEF StageInv, ReqInv
<1>3. UNCHANGED <<scn, call, crashed, strm>>
  BY DEF StreamRequest
<1>4. DOMAIN NewWriter = WriterFields /\ NewWriter.status = 0 /\ NewWriter.body = <<>>
  BY DEF NewWriter, WriterFields
<1>5. ASSUME NEW e \in {"Unknown", "Internal"}, Answer(h, HttpErrorHandler(0, req[h].w, e)), over' = over \cup {h}, UNCHANGED inv
      PROVE  IndInv'
  <2> DEFINE a == HttpErrorHandler(0, NewWriter, e)
             v == WriteHeader(a, 200)
  <2>1. DOMAIN a = WriterFields /\ a.body = <<e>>
    BY <1>4, ErrorAnswer
  <2>2. DOMAIN v = WriterFields /\ v.body = <<e>>
    BY <2>1, WriteHeaderFacts
  <2>3. req' = [req EXCEPT ![h].pc = "done", ![h].w = v]
    BY <1>2, <1>5 DEF Answer
  <2> HIDE DEF a, v
  <2>4. /\ DOMAIN req' = Reqs /\ DOMAIN req'[h] = ReqFields /\ \A g \in Reqs : g # h => req'[g] = req[g]
        /\ req'[h].pc = "done" /\ req'[h].w = v /\ req'[h].got = req[h].got
    BY <1>1, <2>3 DEF ReqFields
  <2>5. Tells(v.body, 0)
    <3>1. ~IsMessage(e)
      BY MessageFacts DEF Codes
    <3>2. <<e>>[1] = e /\ Len(<<e>>) = 1 /\ DOMAIN <<e>> = 1..1
      OBVIOUS
    <3> QED
      BY <2>2, <3>1, <3>2 DEF Tells
  <2>6. DoneInv(h)'
    BY <1>2, <1>3, <2>4, <2>5 DEF DoneInv
  <2>7. StreamInv(h)'
    BY <1>2, <1>3, <2>2, <2>4, <2>6 DEF StreamInv
  <2>8. StageInv(h)'
    BY <1>1, <1>2, <1>3, <1>5, <2>4 DEF StageInv
  <2>9. ReqInv(h)'
    BY <1>2, <1>5, <2>7, <2>8 DEF ReqInv
  <2> QED
    BY <1>3, <1>5, <2>4, <2>9, OnlyReq, ReqMoveInd
<1>6. ASSUME req' = [req EXCEPT ![h].pc = "recv", ![h].w = SetHdr(@, {"json"})],
             inv' = [inv EXCEPT ![h].h = IF @ = "wait" THEN "run" ELSE @], UNCHANGED over
      PROVE  IndInv'
  <2> DEFINE v == SetHdr(NewWriter, {"json"})
  <2>1. DOMAIN v = WriterFields /\ v.body = <<>> /\ v.status = 0
    BY <1>4, SetHdrFacts
  <2> HIDE DEF v
  <2>2. /\ DOMAIN req' = Reqs /\ DOMAIN req'[h] = ReqFields /\ \A g \in Reqs : g # h => req'[g] = req[g]
        /\ req'[h].pc = "recv" /\ req'[h].w = v /\ req'[h].first = req[h].first /\ req'[h].got = req[h].got
    BY <1>1, <1>2, <1>6 DEF ReqFields, v
  <2>3. /\ DOMAIN inv' = Invs /\ DOMAIN inv'[h] = InvFields /\ \A j \in Invs : j # h => inv'[j] = inv[j]
        /\ inv'[h].stream = inv[h].stream /\ inv'[h].st = inv[h].st /\ inv'[h].res = inv[h].res
        /\ inv'[h].timed = inv[h].timed /\ inv'[h].hdr = inv[h].hdr /\ inv'[h].val = inv[h].val
        /\ inv'[h].frames = inv[h].frames /\ inv'[h].outer = inv[h].outer /\ inv'[h].copied = inv[h].copied
        /\ inv'[h].h = (IF inv[h].h = "wait" THEN "run" ELSE inv[h].h)
    BY <1>1, <1>6 DEF InvFields
  <2>4. InvInv(h)' /\ FrameInv(h)'
    <3>1. InvInv(h)'
      BY <1>1, <2>3 DEF InvInv
    <3>2. FrameInv(h)'
      BY <1>1, <1>3, <2>3 DEF FrameInv, Bare, Opts
    <3> QED
      BY <3>1, <3>2
  <2>5. StageInv(h)'
    BY <1>1, <1>2, <1>3, <2>2, <2>3 DEF StageInv
  <2>6. StreamInv(h)'
    <3>1. Written(h) = 0 /\ Written(h)' = 0
      BY <1>2, <1>4, <2>1, <2>2 DEF Written
    <3>2. BodyInv(h) /\ Queued(h, Written(h))
      BY <1>1, <1>2 DEF StreamInv
    <3>3. BodyInv(h)'
      BY <1>2, <1>3, <1>4, <2>1, <2>2, <3>1, <3>2 DEF BodyInv, Tells
    <3>4. Queued(h, Written(h))'
      BY <1>3, <2>3, <3>1, <3>2 DEF Queued, Failed
    <3> QED
      BY <1>2, <1>3, <2>1, <2>2, <3>3, <3>4 DEF StreamInv
  <2>7. ReqInv(h)'
    BY <1>2, <2>2, <2>3, <2>5, <2>6 DEF ReqInv
  <2>8. ReqMove(h)
    BY <1>1, <1>3, <2>2, <2>3, <2>4, <2>7 DEF ReqMove
  <2> QED
    BY <1>3, <1>6, <2>8, ReqMoveInd
<1> QED
  BY <1>5, <1>6 DEF StreamRequest

LEMMA StreamNoRequestInd ==
    ASSUME IndInv, NEW h \in Reqs, StreamNoRequest(h), crashed = None
    PROVE  IndInv'
<1>1. h \in Invs /\ inv[h].h = "wait" /\ HandlerEnd(h, "Canceled") /\ UNCHANGED <<scn, call, over, crashed, req, strm>>
  BY DEF StreamNoRequest, Invs, hvars
<1>2. InvMove(h)
  BY <1>1, HandlerEndMoves DEF Codes
<1> QED
  BY <1>1, <1>2, InvMoveInd

(* The handler sends a message.                                            *)
LEMMA StreamSendInd ==
    ASSUME IndInv, NEW h \in Reqs, StreamSend(h), crashed = None
    PROVE  IndInv'
<1>1. /\ DOMAIN strm = Reqs /\ DOMAIN strm[h] = StrmFields /\ StageInv(h) /\ ReqInv(h)
      /\ inv[h].h = "run" /\ inv[h].stream /\ ~strm[h].closed /\ strm[h].sent < Len(Messages) /\ h \notin over
  BY ReqFacts DEF StreamSend
<1>2. StreamInv(h) /\ req[h].pc \in {"recv", "header"} /\ strm[h].sent \in Nat
  BY <1>1 DEF StageInv, ReqInv, StreamInv
<1>3. UNCHANGED <<scn, call, inv, over, crashed, req>>
  BY DEF StreamSend, mvars
<1> DEFINE next == Messages[strm[h].sent + 1]
<1>4. /\ DOMAIN strm' = Reqs /\ DOMAIN strm'[h] = StrmFields /\ \A g \in Reqs : g # h => strm'[g] = strm[g]
      /\ strm'[h].sent = strm[h].sent + 1 /\ strm'[h].closed = strm[h].closed /\ strm'[h].hdrSent = TRUE
      /\ strm'[h].queue = Append(strm[h].queue, next)
  <2> DEFINE one == strm[h].sent + 1
             more == Append(strm[h].queue, next)
             s == [strm[h] EXCEPT !.sent = one, !.hdrSent = TRUE, !.queue = more]
  <2>1. strm' = [strm EXCEPT ![h] = s]
    BY DEF StreamSend
  <2> HIDE DEF one, more
  <2>2. DOMAIN s = StrmFields /\ s.sent = one /\ s.closed = strm[h].closed /\ s.queue = more /\ s.hdrSent = TRUE
    BY <1>1 DEF StrmFields
  <2> HIDE DEF s
  <2>3. DOMAIN strm' = Reqs /\ strm'[h] = s /\ \A g \in Reqs : g # h => strm'[g] = strm[g]
    BY <1>1, <2>1
  <2> QED
    BY <2>2, <2>3 DEF one, more
<1>5. next \in Range(Messages)
  BY <1>1, <1>2, MessageFacts
<1>6. ASSUME NEW n, Queued(h, n) PROVE Queued(h, n)'
  <2> DEFINE q == strm[h].queue
             m == strm[h].sent - n
             S == Range(Messages) \cup Codes
  <2>1. n \in 0..strm[h].sent /\ q \in Seq(S) /\ Len(q) = m /\ \A k \in 1..m : q[k] = Messages[n + k]
    BY <1>1, <1>6 DEF Queued, Failed
  <2>2. n \in Nat /\ m \in Nat /\ strm[h].sent = n + m
    BY <1>2, <2>1
  <2>3. /\ Append(q, next) \in Seq(S) /\ Len(Append(q, next)) = m + 1
        /\ \A k \in 1..m : Append(q, next)[k] = q[k]
        /\ Append(q, next)[m + 1] = next
    <3>1. next \in S
      BY <1>5
    <3> HIDE DEF q, m, S, next
    <3> QED
      BY <2>1, <2>2, <3>1
  <2>4. next = Messages[n + (m + 1)]
    BY <2>2
  <2> HIDE DEF q, m, S, next
  <2>5. \A k \in 1..(m + 1) : Append(q, next)[k] = Messages[n + k]
    BY <2>1, <2>2, <2>3, <2>4
  <2>6. strm'[h].sent - n = m + 1 /\ n \in 0..strm'[h].sent
    BY <1>2, <1>4, <2>1, <2>2
  <2> QED
    BY <1>4, <2>3, <2>5, <2>6 DEF Queued, q, S
<1> HIDE DEF next
<1>7. Written(h)' = Written(h)
  BY <1>3 DEF Written
<1>8. BodyInv(h)'
  <2>1. BodyInv(h) /\ Written(h) \in Nat
    BY <1>2 DEF StreamInv, BodyInv, Written
  <2> QED
    BY <1>2, <1>3, <1>4, <1>7, <2>1 DEF BodyInv, Heads
<1>9. req[h].pc = "recv" => Queued(h, Written(h))'
  <2>1. req[h].pc = "recv" => Queued(h, Written(h))
    BY <1>2 DEF StreamInv
  <2> QED
    BY <1>3, <1>6, <1>7, <2>1 DEF Written
<1>10. req[h].pc = "header" => HandInv(h)'
  <2> SUFFICES ASSUME req[h].pc = "header" PROVE HandInv(h)'
    OBVIOUS
  <2>1. HandInv(h) /\ ~Failed(h)
    BY <1>1, <1>2 DEF StreamInv, Failed
  <2>2. CASE req[h].got = "Canceled"
    BY <1>3, <2>2 DEF HandInv
  <2>3. CASE Written(h) < strm[h].sent /\ req[h].got = Messages[Written(h) + 1] /\ Queued(h, Written(h) + 1)
    <3>1. Queued(h, Written(h) + 1)'
      BY <1>3, <1>6, <2>3 DEF Written
    <3>2. Written(h) \in Nat
      BY <1>2 DEF StreamInv, BodyInv, Written
    <3>3. Written(h)' < strm'[h].sent /\ req'[h].got = Messages[Written(h)' + 1]
      BY <1>2, <1>3, <1>4, <1>7, <2>3, <3>2
    <3> QED
      BY <3>1, <3>3 DEF HandInv
  <2> QED
    BY <2>1, <2>2, <2>3 DEF HandInv
<1>11. strm'[h].sent \in 0..Len(Messages)
  BY <1>1, <1>2, <1>4, MessageFacts
<1>12. StreamInv(h)'
  BY <1>2, <1>3, <1>4, <1>8, <1>9, <1>10, <1>11 DEF StreamInv
<1>13. ReqInv(h)'
  BY <1>1, <1>2, <1>3, <1>12 DEF ReqInv, StageInv
<1> QED
  BY <1>3, <1>4, <1>13, OnlyStrm, ReqMoveInd

(* The stream is closed behind the messages and the error, if any.         *)
LEMMA WriteStatusInd ==
    ASSUME IndInv, NEW h \in Reqs, WriteStatus(h), crashed = None
    PROVE  IndInv'
<1>1. /\ DOMAIN strm = Reqs /\ DOMAIN strm[h] = StrmFields /\ StageInv(h) /\ ReqInv(h) /\ InvInv(h)
      /\ inv[h].st = "ret" /\ inv[h].stream /\ ~strm[h].closed
  BY ReqFacts DEF WriteStatus
<1>2. StreamInv(h) /\ inv[h].res \in Codes /\ ~Failed(h) /\ strm[h].sent \in Nat
  BY <1>1 DEF ReqInv, InvInv, Failed, StreamInv
<1>3. UNCHANGED <<scn, call, inv, over, crashed, req>>
  BY DEF WriteStatus, mvars
<1>4. /\ DOMAIN strm' = Reqs /\ DOMAIN strm'[h] = StrmFields /\ \A g \in Reqs : g # h => strm'[g] = strm[g]
      /\ strm'[h].sent = strm[h].sent /\ strm'[h].closed = TRUE /\ strm'[h].hdrSent = TRUE
      /\ \/ strm'[h].queue = strm[h].queue
         \/ strm'[h].queue = Append(strm[h].queue, inv[h].res) /\ inv[h].res # "ok"
  <2> DEFINE more == IF inv[h].res = "ok" \/ h \in over THEN strm[h].queue ELSE Append(strm[h].queue, inv[h].res)
             s == [strm[h] EXCEPT !.hdrSent = TRUE, !.closed = TRUE, !.queue = more]
  <2>1. strm' = [strm EXCEPT ![h] = s]
    BY DEF WriteStatus
  <2>2. more = strm[h].queue \/ (more = Append(strm[h].queue, inv[h].res) /\ inv[h].res # "ok")
    OBVIOUS
  <2> HIDE DEF more
  <2>3. DOMAIN s = StrmFields /\ s.sent = strm[h].sent /\ s.closed = TRUE /\ s.queue = more /\ s.hdrSent = TRUE
    BY <1>1 DEF StrmFields
  <2> HIDE DEF s
  <2>4. DOMAIN strm' = Reqs /\ strm'[h] = s /\ \A g \in Reqs : g # h => strm'[g] = strm[g]
    BY <1>1, <2>1
  <2> QED
    BY <2>2, <2>3, <2>4
<1>5. ASSUME NEW n, Queued(h, n) PROVE Queued(h, n)'
  <2> DEFINE q == strm[h].queue
             m == strm[h].sent - n
             S == Range(Messages) \cup Codes
             err == inv[h].res
  <2>1. n \in 0..strm[h].sent /\ q \in Seq(S) /\ Len(q) = m /\ \A k \in 1..m : q[k] = Messages[n + k]
    BY <1>2, <1>5 DEF Queued
  <2>2. CASE strm'[h].queue = q
    BY <1>4, <2>1, <2>2 DEF Queued
  <2>3. CASE strm'[h].queue = Append(q, err) /\ err # "ok"
    <3>1. m \in Nat /\ err \in S /\ err \in Codes
      BY <1>2, <2>1
    <3>2. /\ Append(q, err) \in Seq(S) /\ Len(Append(q, err)) = m + 1
          /\ \A k \in 1..m : Append(q, err)[k] = q[k]
          /\ Append(q, err)[m + 1] = err
      BY <2>1, <3>1
    <3>3. Failed(h)'
      BY <1>1, <1>3, <1>4, <2>3 DEF Failed
    <3> HIDE DEF m
    <3>4. strm'[h].sent - n = m
      BY <1>4 DEF m
    <3> QED
      BY <1>4, <2>1, <2>3, <3>1, <3>2, <3>3, <3>4 DEF Queued
  <2> QED
    BY <1>4, <2>2, <2>3
<1>6. Written(h)' = Written(h)
  BY <1>3 DEF Written
<1>7. req[h].pc \in {"send", "recv", "header"} => BodyInv(h)'
  BY <1>2, <1>3, <1>4, <1>6 DEF StreamInv, BodyInv, Heads
<1>8. req[h].pc \in {"send", "recv"} => Queued(h, Written(h))'
  <2>1. req[h].pc \in {"send", "recv"} => Queued(h, Written(h))
    BY <1>2 DEF StreamInv
  <2> QED
    BY <1>3, <1>5, <2>1 DEF Written
<1>9. req[h].pc = "header" => HandInv(h)'
  <2> SUFFICES ASSUME req[h].pc = "header" PROVE HandInv(h)'
    OBVIOUS
  <2>1. HandInv(h)
    BY <1>2 DEF StreamInv
  <2>2. CASE req[h].got = "Canceled"
    BY <1>3, <2>2 DEF HandInv
  <2>3. CASE Written(h) < strm[h].sent /\ req[h].got = Messages[Written(h) + 1] /\ Queued(h, Written(h) + 1)
    <3>1. Queued(h, Written(h) + 1)'
      BY <1>3, <1>5, <2>3 DEF Written
    <3> QED
      BY <1>3, <1>4, <1>6, <2>3, <3>1 DEF HandInv
  <2> QED
    BY <1>2, <2>1, <2>2, <2>3 DEF HandInv
<1>10. req[h].pc = "done" => DoneInv(h)'
  BY <1>2, <1>3, <1>4 DEF StreamInv, DoneInv, Heads
<1>11. StreamInv(h)'
  BY <1>2, <1>3, <1>4, <1>7, <1>8, <1>9, <1>10 DEF StreamInv
<1>12. ReqInv(h)'
  BY <1>1, <1>3, <1>4, <1>11 DEF ReqInv, StageInv
<1> QED
  BY <1>3, <1>4, <1>12, OnlyStrm, ReqMoveInd

(* What is next in the queue: a message, an error or nothing.              *)
LEMMA QueueHead ==
    ASSUME NEW h, NEW n, Queued(h, n), strm[h].sent \in Nat
    PROVE  LET q == strm[h].queue
           IN /\ q = <<>> => n = strm[h].sent
              /\ q # <<>> =>
                   \/ Head(q) \in Codes /\ Failed(h)
                   \/ /\ n < strm[h].sent /\ Head(q) = Messages[n + 1]
                      /\ \A k \in 1..(strm[h].sent - (n + 1)) : Tail(q)[k] = Messages[(n + 1) + k]
                      /\ Tail(q) \in Seq(Range(Messages) \cup Codes)
                      /\ LET m == strm[h].sent - (n + 1)
                         IN Len(Tail(q)) = m \/ (Len(Tail(q)) = m + 1 /\ Failed(h) /\ Tail(q)[m + 1] \in Codes)
<1> DEFINE q == strm[h].queue
           S == Range(Messages) \cup Codes
           m == strm[h].sent - n
<1>1. /\ n \in Nat /\ m \in Nat /\ n <= strm[h].sent /\ q \in Seq(S)
      /\ Len(q) = m \/ (Len(q) = m + 1 /\ Failed(h) /\ q[m + 1] \in Codes)
      /\ \A k \in 1..m : q[k] = Messages[n + k]
  BY DEF Queued
<1> HIDE DEF q, S, m
<1>2. CASE q = <<>>
  <2>1. Len(q) = 0
    BY <1>2
  <2>2. m = 0
    BY <1>1, <2>1
  <2> QED
    BY <1>1, <1>2, <2>2 DEF q, m
<1>3. CASE q # <<>> /\ m = 0
  <2>1. Len(q) > 0 /\ Head(q) = q[1]
    BY <1>1, <1>3
  <2>2. Len(q) # m /\ m + 1 = 1
    BY <1>3, <2>1
  <2>3. Head(q) \in Codes /\ Failed(h)
    BY <1>1, <2>1, <2>2
  <2> QED
    BY <1>3, <2>3 DEF q
<1>4. CASE q # <<>> /\ m > 0
  <2>1. /\ Len(q) > 0 /\ Head(q) = q[1] /\ Tail(q) \in Seq(S) /\ Len(Tail(q)) = Len(q) - 1
        /\ \A k \in 1..(Len(q) - 1) : Tail(q)[k] = q[k + 1]
    BY <1>1, <1>4
  <2>2. n < strm[h].sent /\ Head(q) = Messages[n + 1]
    BY <1>1, <1>4, <2>1 DEF m
  <2> DEFINE r == strm[h].sent - (n + 1)
  <2>3. r \in Nat /\ r = m - 1
    BY <1>1, <2>2 DEF m
  <2> HIDE DEF r
  <2>4. ASSUME NEW k \in 1..r PROVE Tail(q)[k] = Messages[(n + 1) + k]
    <3>1. k \in 1..(Len(q) - 1) /\ k + 1 \in 1..m /\ n + (k + 1) = (n + 1) + k
      BY <1>1, <2>3
    <3> QED
      BY <1>1, <2>1, <3>1
  <2>5. Len(Tail(q)) = r \/ (Len(Tail(q)) = r + 1 /\ Failed(h) /\ Tail(q)[r + 1] \in Codes)
    <3>1. CASE Len(q) = m
      BY <2>1, <2>3, <3>1
    <3>2. CASE Len(q) = m + 1 /\ Failed(h) /\ q[m + 1] \in Codes
      <4>1. r + 1 \in 1..(Len(q) - 1) /\ (r + 1) + 1 = m + 1 /\ Len(q) - 1 = r + 1
        BY <1>1, <2>3, <3>2
      <4>2. Tail(q)[r + 1] = q[(r + 1) + 1]
        BY <2>1, <4>1
      <4> QED
        BY <2>1, <3>2, <4>1, <4>2
    <3> QED
      BY <1>1, <3>1, <3>2
  <2> QED
    BY <1>4, <2>1, <2>2, <2>4, <2>5 DEF q, S, r
<1>5. m = 0 \/ m > 0
  BY <1>1
<1> QED
  BY <1>2, <1>3, <1>4, <1>5

(* The mux receives a message, the error, the end or the end of the        *)
(* context.                                                                *)
LEMMA RecvMsgInd ==
    ASSUME IndInv, NEW h \in Reqs, RecvMsg(h), crashed = None
    PROVE  IndInv'
<1>1. /\ h \in Invs /\ DOMAIN req = Reqs /\ DOMAIN req[h] = ReqFields /\ InvInv(h) /\ FrameInv(h) /\ StageInv(h) /\ ReqInv(h)
      /\ DOMAIN inv = Invs /\ DOMAIN inv[h] = InvFields /\ DOMAIN strm = Reqs /\ DOMAIN strm[h] = StrmFields
      /\ req[h].pc = "recv"
  BY ReqFacts DEF RecvMsg
<1>2. /\ inv[h].stream /\ inv[h].st # "off" /\ StreamInv(h) /\ BodyInv(h) /\ Queued(h, Written(h)) /\ req[h].got \notin Codes
      /\ strm[h].sent \in Nat /\ Written(h) \in Nat /\ DOMAIN req[h].w = WriterFields
  BY <1>1 DEF StageInv, ReqInv, StreamInv, BodyInv, Written
<1>3. UNCHANGED <<scn, call, inv, crashed>>
  BY DEF RecvMsg
<1> DEFINE q == strm[h].queue
<1>4. ASSUME NEW got, NEW rest, over' = over,
             req' = [req EXCEPT ![h].pc = "header", ![h].got = got], strm' = [strm EXCEPT ![h].queue = rest],
             \/ got = "Canceled"
             \/ got \in Codes /\ Failed(h)
             \/ /\ Written(h) < strm[h].sent /\ got = Messages[Written(h) + 1]
                /\ \A k \in 1..(strm[h].sent - (Written(h) + 1)) : rest[k] = Messages[(Written(h) + 1) + k]
                /\ rest \in Seq(Range(Messages) \cup Codes)
                /\ LET m == strm[h].sent - (Written(h) + 1)
                   IN Len(rest) = m \/ (Len(rest) = m + 1 /\ Failed(h) /\ rest[m + 1] \in Codes)
      PROVE  IndInv'
  <2>1. /\ DOMAIN req' = Reqs /\ DOMAIN req'[h] = ReqFields /\ \A g \in Reqs : g # h => req'[g] = req[g]
        /\ req'[h].pc = "header" /\ req'[h].got = got /\ req'[h].w = req[h].w /\ req'[h].first = req[h].first
    BY <1>1, <1>4 DEF ReqFields
  <2>2. /\ DOMAIN strm' = Reqs /\ DOMAIN strm'[h] = StrmFields /\ \A g \in Reqs : g # h => strm'[g] = strm[g]
        /\ strm'[h].queue = rest /\ strm'[h].sent = strm[h].sent /\ strm'[h].closed = strm[h].closed
        /\ strm'[h].hdrSent = strm[h].hdrSent
    BY <1>1, <1>4 DEF StrmFields
  <2>3. Written(h)' = Written(h) /\ (Failed(h) => Failed(h)')
    BY <1>3, <2>1, <2>2 DEF Written, Failed
  <2>4. BodyInv(h)'
    BY <1>2, <1>3, <2>1, <2>2, <2>3 DEF BodyInv, Heads
  <2>5. HandInv(h)'
    <3>1. CASE got = "Canceled"
      BY <2>1, <3>1 DEF HandInv
    <3>2. CASE got \in Codes /\ Failed(h)
      BY <2>1, <2>3, <3>2 DEF HandInv
    <3>3. CASE got # "Canceled" /\ ~(got \in Codes /\ Failed(h))
      <4>1. Written(h) + 1 \in 0..strm[h].sent
        BY <1>2, <1>4, <3>3
      <4>2. Queued(h, Written(h) + 1)'
        BY <1>4, <2>2, <2>3, <3>3, <4>1 DEF Queued
      <4> QED
        BY <1>4, <2>1, <2>2, <2>3, <3>3, <4>2 DEF HandInv
    <3> QED
      BY <3>1, <3>2, <3>3
  <2>6. StreamInv(h)'
    BY <1>2, <2>1, <2>2, <2>4, <2>5 DEF StreamInv
  <2>7. StageInv(h)'
    BY <1>1, <1>2, <1>3, <2>1 DEF StageInv
  <2>8. ReqInv(h)'
    BY <1>2, <1>3, <2>1, <2>6, <2>7 DEF ReqInv
  <2>9. InvInv(h)' /\ FrameInv(h)'
    BY <1>1, <1>3, SameKeeps, FrameKept DEF InvInv
  <2>10. ReqMove(h)
    BY <1>1, <1>3, <2>1, <2>2, <2>8, <2>9 DEF ReqMove
  <2> QED
    BY <1>3, <1>4, <2>10, ReqMoveInd
<1>5. CASE /\ q # <<>> /\ req' = [req EXCEPT ![h].pc = "header", ![h].got = Head(q)]
           /\ strm' = [strm EXCEPT ![h].queue = Tail(@)] /\ UNCHANGED over
  <2>1. strm' = [strm EXCEPT ![h].queue = Tail(q)]
    BY <1>5
  <2> QED
    BY <1>2, <1>4, <1>5, <2>1, QueueHead
<1>6. CASE q = <<>> /\ Answer(h, req[h].w) /\ over' = over \cup {h} /\ UNCHANGED strm
  <2> DEFINE w == req[h].w
             v == WriteHeader(w, 200)
  <2>1. req' = [req EXCEPT ![h].pc = "done", ![h].w = v]
    BY <1>6 DEF Answer
  <2> HIDE DEF w
  <2>2. /\ DOMAIN v = WriterFields /\ v.body = w.body
        /\ w.status # 0 => v.status = w.status /\ v.sentHdr = w.sentHdr
    BY <1>2, WriteHeaderFacts DEF w
  <2> HIDE DEF v
  <2>3. /\ DOMAIN req' = Reqs /\ DOMAIN req'[h] = ReqFields /\ \A g \in Reqs : g # h => req'[g] = req[g]
        /\ req'[h].pc = "done" /\ req'[h].w = v /\ req'[h].got = req[h].got
    BY <1>1, <2>1 DEF ReqFields
  <2>4. Written(h) = strm[h].sent
    BY <1>2, <1>6, QueueHead
  <2>5. Written(h) > 0 => Heads(h)'
    <3>1. Written(h) > 0 => Heads(h)
      BY <1>2 DEF BodyInv, Written
    <3> QED
      BY <1>3, <2>2, <2>3, <3>1 DEF Heads, CustomCode, w
  <2>6. DoneInv(h)'
    <3>1. Tells(v.body, strm[h].sent)
      BY <1>2, <2>2, <2>4 DEF BodyInv, w
    <3>2. strm'[h].sent = strm[h].sent /\ strm[h].sent \in 0..strm[h].sent
      BY <1>2, <1>6
    <3> QED
      BY <2>3, <2>4, <2>5, <3>1, <3>2 DEF DoneInv
  <2>7. StreamInv(h)'
    BY <1>2, <1>6, <2>2, <2>3, <2>6 DEF StreamInv
  <2>8. StageInv(h)'
    BY <1>1, <1>2, <1>3, <1>6, <2>3 DEF StageInv
  <2>9. ReqInv(h)'
    BY <1>2, <1>3, <2>7, <2>8 DEF ReqInv
  <2> QED
    BY <1>3, <1>6, <2>3, <2>9, OnlyReq, ReqMoveInd
<1>7. CASE /\ req' = [req EXCEPT ![h].pc = "header", ![h].got = "Canceled"]
           /\ strm' = [strm EXCEPT ![h].queue = IF @ = <<>> THEN @ ELSE Tail(@)] /\ UNCHANGED over
  <2>1. strm' = [strm EXCEPT ![h].queue = IF q = <<>> THEN q ELSE Tail(q)]
    BY <1>7
  <2> QED
    BY <1>4, <1>7, <2>1
<1> QED
  BY <1>5, <1>6, <1>7 DEF RecvMsg

(* A chunk is written, with the header before the first.                   *)
Headed(h) ==
    LET coded == IF req[h].first /\ "code" \in inv[h].hdr THEN WriteHeader(req[h].w, CustomCode) ELSE req[h].w
    IN IF req[h].first THEN WriteResponseHeader(coded, inv[h].hdr) ELSE coded

LEMMA HeadedFacts ==
    ASSUME NEW h, DOMAIN req[h].w = WriterFields, BodyInv(h)
    PROVE  /\ DOMAIN Headed(h) = WriterFields /\ Headed(h).body = req[h].w.body
           /\ ~req[h].first => Headed(h) = req[h].w
           /\ req[h].first =>
                /\ Headed(h).status = IF "code" \in inv[h].hdr THEN CustomCode ELSE 0
                /\ "code" \notin inv[h].hdr => inv[h].hdr \subseteq Headed(h).hdr
<1> DEFINE w == req[h].w
           code == req[h].first /\ "code" \in inv[h].hdr
           coded == IF code THEN WriteHeader(w, CustomCode) ELSE w
<1>1. DOMAIN w = WriterFields /\ (req[h].first => w.status = 0)
  BY DEF BodyInv
<1> HIDE DEF w
<1>2. /\ DOMAIN coded = WriterFields /\ coded.body = w.body /\ (~req[h].first => coded = w)
      /\ req[h].first => coded.status = IF "code" \in inv[h].hdr THEN CustomCode ELSE 0
  BY <1>1, WriteHeaderFacts
<1>3. Headed(h) = IF req[h].first THEN SetHdr(coded, inv[h].hdr \ {"code"}) ELSE coded
  BY DEF Headed, WriteResponseHeader, w
<1> HIDE DEF coded
<1>4. CASE req[h].first
  <2>1. /\ DOMAIN Headed(h) = WriterFields /\ Headed(h).body = w.body /\ Headed(h).status = coded.status
        /\ Headed(h).hdr = coded.hdr \cup (inv[h].hdr \ {"code"})
    BY <1>2, <1>3, <1>4, SetHdrFacts
  <2> QED
    BY <1>2, <1>4, <2>1 DEF w
<1>5. CASE ~req[h].first
  BY <1>2, <1>3, <1>5 DEF w
<1> QED
  BY <1>4, <1>5

(* An error behind what has been written: status and header, once sent,    *)
(* stay as they are.                                                       *)
Behind(v, w, err) ==
    /\ DOMAIN v = WriterFields /\ v.body \in {w.body, Append(w.body, err)}
    /\ w.status # 0 => v.status = w.status /\ v.sentHdr = w.sentHdr

LEMMA StreamErrorBehind ==
    ASSUME NEW w, DOMAIN w = WriterFields, NEW first, NEW custom, NEW err
    PROVE  Behind(WriteHeader(StreamErrorAnswer(w, first, custom, err), 200), w, err)
<1> DEFINE coded == IF first /\ ~custom THEN WriteHeader(w, HttpStatusFromCode(err)) ELSE w
           a == IF custom THEN coded ELSE Write(coded, err)
<1>1. StreamErrorAnswer(w, first, custom, err) = a
  BY DEF StreamErrorAnswer
<1>2. DOMAIN coded = WriterFields /\ coded.body = w.body /\ (w.status # 0 => coded.status = w.status /\ coded.sentHdr = w.sentHdr)
  BY WriteHeaderFacts
<1> HIDE DEF coded
<1>3. Behind(a, w, err)
  BY <1>2, WriteFacts DEF Behind
<1> HIDE DEF a
<1> QED
  BY <1>1, <1>3, WriteHeaderFacts DEF Behind

LEMMA HttpErrorBehind ==
    ASSUME NEW w, DOMAIN w = WriterFields, NEW err
    PROVE  Behind(WriteHeader(HttpErrorHandler(0, w, err), 200), w, err)
<1> DEFINE typed == SetHdr(w, {"json"})
           coded == WriteHeader(typed, HttpStatusFromCode(err))
           a == Write(coded, err)
<1>1. HttpErrorHandler(0, w, err) = a
  BY DEF HttpErrorHandler
<1>2. DOMAIN typed = WriterFields /\ typed.body = w.body /\ typed.status = w.status /\ typed.sentHdr = w.sentHdr
  BY SetHdrFacts
<1> HIDE DEF typed
<1>3. DOMAIN coded = WriterFields /\ coded.body = w.body /\ (w.status # 0 => coded.status = w.status /\ coded.sentHdr = w.sentHdr)
  BY <1>2, WriteHeaderFacts
<1> HIDE DEF coded
<1>4. Behind(a, w, err)
  BY <1>3, WriteFacts DEF Behind
<1> HIDE DEF a
<1> QED
  BY <1>1, <1>4, WriteHeaderFacts DEF Behind

(* What StreamWrite does, one writer at a time.                            *)
LEMMA StreamWriteCases ==
    ASSUME NEW h \in Reqs, StreamWrite(h)
    PROVE  LET custom == req[h].custom \/ (req[h].first /\ "code" \in inv[h].hdr)
               got == req[h].got
           IN \/ /\ IsMessage(got) /\ UNCHANGED over
                 /\ req' = [req EXCEPT ![h].pc = "recv", ![h].first = FALSE, ![h].custom = custom, ![h].w = Write(Headed(h), got)]
              \/ \E told, a :
                   /\ (told = got /\ ~IsMessage(got)) \/ told \in {"InvalidArgument", "Internal"}
                   /\ \/ a = StreamErrorAnswer(Headed(h), req[h].first, custom, told)
                      \/ a = HttpErrorHandler(0, Headed(h), told)
                   /\ over' = over \cup {h}
                   /\ req' = [req EXCEPT ![h].pc = "done", ![h].custom = custom, ![h].got = told, ![h].w = WriteHeader(a, 200)]
<1> DEFINE custom == req[h].custom \/ (req[h].first /\ "code" \in inv[h].hdr)
           End(told, w) ==
             /\ req' = [req EXCEPT ![h].pc = "done", ![h].custom = custom, ![h].got = told, ![h].w = WriteHeader(w, 200)]
             /\ over' = over \cup {h}
           Failing(err) == StreamErrorAnswer(Headed(h), req[h].first, custom, err)
<1>1. \/ ~IsMessage(req[h].got) /\ End(req[h].got, Failing(req[h].got))
      \/ /\ IsMessage(req[h].got) /\ UNCHANGED over
         /\ req' = [req EXCEPT ![h].pc = "recv", ![h].first = FALSE, ![h].custom = custom, ![h].w = Write(Headed(h), req[h].got)]
      \/ End("InvalidArgument", Failing("InvalidArgument"))
      \/ End("Internal", HttpErrorHandler(0, Headed(h), "Internal"))
  BY DEF StreamWrite, Headed
<1> QED
  BY <1>1

LEMMA StreamWriteInd ==
    ASSUME IndInv, NEW h \in Reqs, StreamWrite(h), crashed = None
    PROVE  IndInv'
<1>1. /\ h \in Invs /\ DOMAIN req = Reqs /\ DOMAIN req[h] = ReqFields /\ InvInv(h) /\ StageInv(h) /\ ReqInv(h)
      /\ req[h].pc = "header" /\ (req[h].first => strm[h].hdrSent)
  BY ReqFacts DEF StreamWrite
<1>2. /\ inv[h].stream /\ inv[h].st # "off" /\ StreamInv(h) /\ BodyInv(h) /\ HandInv(h)
      /\ strm[h].sent \in Nat /\ strm[h].sent <= Len(Messages) /\ Written(h) \in Nat /\ DOMAIN req[h].w = WriterFields
  <2>1. inv[h].stream /\ StreamInv(h)
    BY <1>1 DEF StageInv, ReqInv
  <2> QED
    BY <1>1, <2>1, MessageFacts DEF StageInv, StreamInv, BodyInv, Written
<1>3. UNCHANGED <<scn, call, inv, crashed, strm>>
  BY DEF StreamWrite
<1> DEFINE w == req[h].w
           got == req[h].got
           headed == Headed(h)
           custom == req[h].custom \/ (req[h].first /\ "code" \in inv[h].hdr)
<1>4. /\ DOMAIN headed = WriterFields /\ headed.body = w.body
      /\ ~req[h].first => headed = w
      /\ req[h].first =>
           /\ headed.status = IF "code" \in inv[h].hdr THEN CustomCode ELSE 0
           /\ "code" \notin inv[h].hdr => inv[h].hdr \subseteq headed.hdr
  BY <1>2, HeadedFacts
<1>5. ~req[h].first => strm[h].hdrSent /\ Heads(h)
  BY <1>2 DEF BodyInv
<1> HIDE DEF headed, custom
<1>6. CASE /\ IsMessage(got) /\ UNCHANGED over
           /\ req' = [req EXCEPT ![h].pc = "recv", ![h].first = FALSE, ![h].custom = custom, ![h].w = Write(headed, got)]
  <2> DEFINE v == Write(headed, got)
  <2>1. /\ DOMAIN v = WriterFields /\ v.body = Append(w.body, got)
        /\ v.status = (IF "code" \in inv[h].hdr THEN CustomCode ELSE 200)
        /\ "code" \notin inv[h].hdr => inv[h].hdr \subseteq v.sentHdr
    <3>1. /\ ~req[h].first => w.status = (IF "code" \in inv[h].hdr THEN CustomCode ELSE 200)
          /\ ~req[h].first /\ "code" \notin inv[h].hdr => inv[h].hdr \subseteq w.sentHdr
      BY <1>5 DEF Heads
    <3> HIDE DEF w, got
    <3>2. /\ DOMAIN v = WriterFields /\ v.body = Append(headed.body, got)
          /\ v.status = (IF headed.status = 0 THEN 200 ELSE headed.status)
          /\ v.sentHdr = (IF headed.status = 0 THEN headed.hdr ELSE headed.sentHdr)
      BY <1>4, WriteFacts
    <3> QED
      BY <1>4, <3>1, <3>2 DEF CustomCode
  <2> HIDE DEF v
  <2>2. /\ DOMAIN req' = Reqs /\ DOMAIN req'[h] = ReqFields /\ \A g \in Reqs : g # h => req'[g] = req[g]
        /\ req'[h].pc = "recv" /\ req'[h].w = v /\ req'[h].first = FALSE /\ req'[h].got = got
    BY <1>1, <1>6 DEF ReqFields, v
  <2>3. got \notin Codes
    BY <1>6, MessageFacts
  <2>4. Written(h) < strm[h].sent /\ got = Messages[Written(h) + 1] /\ Queued(h, Written(h) + 1)
    BY <1>2, <2>3 DEF HandInv, Codes
  <2>5. /\ v.body \in Seq(Range(Messages)) /\ Len(v.body) = Written(h) + 1 /\ Tells(v.body, Written(h) + 1)
    <3>1. w.body \in Seq(Range(Messages)) /\ Tells(w.body, Len(w.body)) /\ Len(w.body) < Len(Messages)
      BY <1>2, <2>4, MessageFacts DEF BodyInv, Written
    <3> QED
      BY <2>1, <2>4, <3>1, BodyGrows DEF Written
  <2>6. Written(h)' = Written(h) + 1
    BY <2>2, <2>5 DEF Written
  <2>7. BodyInv(h)'
    <3>1. Written(h) + 1 <= strm'[h].sent
      BY <1>2, <1>3, <2>4
    <3>2. Heads(h)'
      BY <1>3, <2>1, <2>2 DEF Heads
    <3> QED
      BY <1>1, <1>3, <1>5, <2>2, <2>5, <2>6, <3>1, <3>2 DEF BodyInv
  <2>8. Queued(h, Written(h))'
    BY <1>3, <2>4, <2>6 DEF Queued, Failed
  <2>9. StreamInv(h)'
    BY <1>2, <1>3, <2>1, <2>2, <2>3, <2>7, <2>8 DEF StreamInv
  <2>10. ReqInv(h)'
    BY <1>1, <1>2, <1>3, <2>2, <2>9 DEF ReqInv, StageInv
  <2> QED
    BY <1>3, <1>6, <2>2, <2>10, OnlyReq, ReqMoveInd
<1>7. ASSUME NEW told, NEW a,
             (told = got /\ ~IsMessage(got)) \/ told \in {"InvalidArgument", "Internal"},
             a = StreamErrorAnswer(headed, req[h].first, custom, told) \/ a = HttpErrorHandler(0, headed, told),
             over' = over \cup {h},
             req' = [req EXCEPT ![h].pc = "done", ![h].custom = custom, ![h].got = told, ![h].w = WriteHeader(a, 200)]
      PROVE  IndInv'
  <2> DEFINE v == WriteHeader(a, 200)
  <2>1. Behind(v, headed, told)
    BY <1>4, <1>7, StreamErrorBehind, HttpErrorBehind
  <2>2. /\ DOMAIN req' = Reqs /\ DOMAIN req'[h] = ReqFields /\ \A g \in Reqs : g # h => req'[g] = req[g]
        /\ req'[h].pc = "done" /\ req'[h].w = v /\ req'[h].got = told
    <3> HIDE DEF v
    <3>1. req' = [req EXCEPT ![h].pc = "done", ![h].custom = custom, ![h].got = told, ![h].w = v]
      BY <1>7 DEF v
    <3> QED
      BY <1>1, <3>1 DEF ReqFields
  <2> HIDE DEF v
  <2>3. told \in Codes /\ ~IsMessage(told)
    <3>1. CASE told \in {"InvalidArgument", "Internal"}
      BY <3>1, MessageFacts DEF Codes
    <3>2. CASE told = got /\ ~IsMessage(got)
      <4>1. Written(h) < strm[h].sent => Written(h) + 1 \in 1..Len(Messages)
        BY <1>2, MessageFacts
      <4>2. ~(Written(h) < strm[h].sent /\ got = Messages[Written(h) + 1])
        BY <3>2, <4>1, MessageFacts
      <4> QED
        BY <1>2, <3>2, <4>2 DEF HandInv, Codes
    <3> QED
      BY <1>7, <3>1, <3>2
  <2>4. Tells(v.body, Written(h))
    <3>1. w.body \in Seq(Range(Messages)) /\ Tells(w.body, Len(w.body))
      BY <1>2 DEF BodyInv, Written
    <3>2. Tells(Append(w.body, told), Len(w.body))
      BY <2>3, <3>1, BodyTells
    <3> QED
      BY <1>4, <2>1, <3>1, <3>2 DEF Written, Behind
  <2>5. Written(h) > 0 => Heads(h)'
    <3>1. Written(h) > 0 => ~req[h].first
      BY <1>2 DEF BodyInv, Written
    <3>2. ~req[h].first => w.status # 0 /\ v.status = w.status /\ v.sentHdr = w.sentHdr
      BY <1>4, <1>5, <2>1 DEF Behind, Heads, CustomCode
    <3> QED
      BY <1>3, <1>5, <2>2, <3>1, <3>2 DEF Heads
  <2>6. DoneInv(h)'
    <3>1. Written(h) \in 0..strm[h].sent
      BY <1>2 DEF BodyInv
    <3> QED
      BY <1>3, <2>2, <2>3, <2>4, <2>5, <3>1 DEF DoneInv
  <2>7. StreamInv(h)'
    BY <1>2, <1>3, <2>1, <2>2, <2>6 DEF StreamInv, Behind
  <2>8. StageInv(h)'
    BY <1>1, <1>2, <1>3, <1>7, <2>2 DEF StageInv
  <2>9. ReqInv(h)'
    BY <1>2, <1>3, <2>7, <2>8 DEF ReqInv
  <2> QED
    BY <1>3, <1>7, <2>2, <2>9, OnlyReq, ReqMoveInd
<1> QED
  BY <1>6, <1>7, StreamWriteCases DEF headed, custom

-----------------------------------------------------------------------------
(* Registration, hooks and the mux touch none of this.                     *)
LEMMA QuietInd ==
    ASSUME IndInv, UNCHANGED <<scn, call, inv, over, crashed, req, strm>>
    PROVE  IndInv'
<1>1. PanicContained'
  BY DEF IndInv, PanicContained, Bare, Opts
<1> QED
  BY <1>1, CrashInd

LEMMA NextInd == IndInv /\ [Next]_vars => IndInv'
<1> SUFFICES ASSUME IndInv, [Next]_vars PROVE IndInv'
  OBVIOUS
<1>1. CASE UNCHANGED vars
  BY <1>1, QuietInd DEF vars, mvars, hvars
<1>2. ASSUME NEW s \in Svcs, Register(s), UNCHANGED hvars PROVE IndInv'
  BY <1>2, QuietInd DEF Register, RegisterWithServiceInfo, UnregisterWithServiceInfo, hvars
<1>3. CASE HookServer /\ UNCHANGED hvars
  BY <1>3, QuietInd DEF HookServer, hvars
<1>4. ASSUME NEW o \in Orders, NewServerMux(o) PROVE IndInv'
  BY <1>4, QuietInd DEF NewServerMux, mvars
<1>5. ASSUME NEW d \in Calls, CallStep(d) \/ Application(d), UNCHANGED hvars, crashed = None PROVE IndInv'
  BY <1>5, CallInd
<1>6. ASSUME NEW i \in Invs, InvStep(i) \/ Handler(i), UNCHANGED hvars, crashed = None PROVE IndInv'
  BY <1>6, InvStepInd, HandlerInd
<1>7. ASSUME NEW i \in Invs, NEW hdr \in Headers, HeaderOpen(i), SetHeader(i, hdr), UNCHANGED hvars, crashed = None
      PROVE  IndInv'
  BY <1>7, SetHeaderInd
<1>8. ASSUME NEW h \in Reqs, crashed = None,
             ReqStep(h) \/ StreamSend(h) \/ Disconnect(h) \/ \E r \in Opts.requests : ServeHTTP(h, r)
      PROVE  IndInv'
  BY <1>8, UnaryRespondInd, StreamRequestInd, StreamNoRequestInd, WriteStatusInd, RecvMsgInd, StreamWriteInd,
     StreamSendInd, DisconnectInd, ServeHTTPInd DEF ReqStep
<1> QED
  BY <1>1, <1>2, <1>3, <1>4, <1>5, <1>6, <1>7, <1>8 DEF Next

(* The invariant of requests, invocations and calls holds, whatever the    *)
(* handlers do and whoever leaves.                                         *)
THEOREM IndInvHolds == Spec => []IndInv
  BY InitInd, NextInd, PTL DEF Spec

(* A call that succeeds has its reply, and in process the handler that     *)
(* gave it had returned without error (memory_registry/dialer.go: the      *)
(* reply is set before the result is sent).                                *)
THEOREM OkHasReplyThm == Spec => []OkHasReply
<1>1. IndInv => OkHasReply
  BY DEF IndInv, CallInv, OkHasReply
<1> QED
  BY <1>1, IndInvHolds, PTL

(* The recovers deferred on the goroutines of handlers (unary_wrapper.go,  *)
(* streaming_wrapper.go, recovery.go, http_mux.go) catch every panic but   *)
(* those of handlers left bare, by the timeout or without recovery, and    *)
(* that of an in-process call whose handler returned nothing.              *)
THEOREM PanicContainedThm == Spec => []PanicContained
<1>1. IndInv => PanicContained
  BY DEF IndInv
<1> QED
  BY <1>1, IndInvHolds, PTL

(* A finished answer tells what became of the invocation: reply, status    *)
(* and header of a unary method, the messages of a stream in order and     *)
(* under the handler's header, all of them if the handler succeeded, the   *)
(* client stayed and every message was converted.                          *)
THEOREM AnswerTellsThm == Spec => []AnswerTells
<1>1. ASSUME IndInv, NEW h \in Reqs, req[h].pc = "done", inv[h].st = "ret", inv[h].stream
      PROVE  StreamTells(req[h].w, inv[h], strm[h].sent, req[h].got)
  <2>1. DoneInv(h)
    BY <1>1 DEF IndInv, ReqInv, StreamInv
  <2> QED
    BY <1>1, <2>1 DEF DoneInv, StreamTells, Heads, Failed
<1>2. ASSUME IndInv, NEW h \in Reqs, req[h].pc = "done", inv[h].st = "ret", ~inv[h].stream
      PROVE  UnaryTells(req[h].w, inv[h], req[h].got)
  BY <1>2 DEF IndInv, ReqInv
<1>3. IndInv => AnswerTells
  BY <1>1, <1>2 DEF AnswerTells
<1> QED
  BY <1>3, IndInvHolds, PTL
=============================================================================
