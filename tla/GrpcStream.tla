----------------------------- MODULE GrpcStream -----------------------------
(***************************************************************************)
(* The in-process gRPC stream (stream/grpc_stream.go) driven as            *)
(* StreamingWrapper.NewStream drives it: a client goroutine that sends, a  *)
(* client goroutine that receives, a handler that sends and receives side  *)
(* by side, the goroutine that waits for the handler, writes its status    *)
(* and closes the client's side, and the client's context, which may be    *)
(* cancelled at any moment.  Under a timeout policy the goroutine does not *)
(* wait for ever: it writes its status while the handler still runs.       *)
(*                                                                         *)
(* A message is its number in the order its sender sent it; the handler's  *)
(* error is the payload Err.  A client stops sending, or receiving, at the *)
(* first error it gets, as http_server's invoker does; a handler may go on *)
(* after any error.  Send's and Close's first, unlocked look at closed is  *)
(* repeated under the mutex and is not a step of its own.                  *)
(***************************************************************************)
EXTENDS Integers, Sequences

CONSTANTS
    QueueDepth,     \* capacity of c2s and s2c (16 in the code)
    MaxMsgs,        \* bound on the messages sent in each direction
    MaxHeaders      \* bound on the handler's SetHeader calls

ASSUME DepthAssumption == QueueDepth \in Nat \ {0}
ASSUME BoundsAssumption == MaxMsgs \in Nat /\ MaxHeaders \in Nat

VARIABLES
    c2s, s2c,                   \* payloads in the two channels
    c2sClosed, s2cClosed,       \* _StreamInternal.closed of the two senders
    cancelled,                  \* clientCtx is done
    closeCtx,                   \* srvCloseCtx is done
    srvClosed,                  \* GrpcStream.srvClosed
    headerSent, headerMd,       \* headerWrapper
    headerRead,                 \* what the client's Header() returned, if it did
    csend,                      \* client's sending goroutine
    crecv,                      \* client's receiving goroutine: "open" or its end
    handler,                    \* the application's handler
    ssend, srecv,               \* its SendMsg and its RecvMsg
    closer,                     \* the goroutine NewStream starts
    status,                     \* what it writes as the handler's status
    errSent,                    \* the status is in s2c, or has been
    upSent, upRecv,             \* messages accepted from the client; received
    upDropped,                  \* messages a cancelled Recv took and dropped
    upEOF,                      \* the handler has read io.EOF
    downSent, downRecv          \* messages accepted ahead of the status; received

chanVars == <<c2s, s2c>>
closeVars == <<c2sClosed, s2cClosed, cancelled, closeCtx, srvClosed>>
headerVars == <<headerSent, headerMd, headerRead>>
clientVars == <<csend, crecv>>
handlerVars == <<handler, ssend, srecv>>
closerVars == <<closer, status, errSent>>
upVars == <<upSent, upRecv, upDropped, upEOF>>
downVars == <<downSent, downRecv>>
vars == <<chanVars, closeVars, headerVars, clientVars, handlerVars, closerVars, upVars, downVars>>

Err == 0
Unread == -1
Msgs == 1..MaxMsgs
Ends == {"EOF", "error", "Canceled"}

Init ==
    /\ c2s = <<>> /\ s2c = <<>>
    /\ c2sClosed = FALSE /\ s2cClosed = FALSE
    /\ cancelled = FALSE /\ closeCtx = FALSE /\ srvClosed = FALSE
    /\ headerSent = FALSE /\ headerMd = 0 /\ headerRead = Unread
    /\ csend = "idle" /\ crecv = "open"
    /\ handler = "run" /\ ssend = "idle" /\ srecv = "idle"
    /\ closer = "wait" /\ status = "none" /\ errSent = FALSE
    /\ upSent = 0 /\ upRecv = <<>> /\ upDropped = {} /\ upEOF = FALSE
    /\ downSent = 0 /\ downRecv = <<>>

-----------------------------------------------------------------------------
(* _StreamInternal *)

\* Send up to its blocking select: it takes the read lock and goes on only if
\* the channel is open and the stream is not cancelled.
MaySend(closed) == ~closed /\ ~cancelled

\* The blocking select of Send: whichever ready case Go picks.
SendSelected(ch) == Len(ch) < QueueDepth
SendAborted == cancelled \/ closeCtx

\* Faulty variant: a closed channel reads as EOF before it is drained.
RecvOutcomesClosedFirst(ch, closed) ==
    (IF closed THEN {<<FALSE, "EOF">>} ELSE {})
    \cup (IF ch # <<>> /\ ~closed THEN {<<TRUE, IF Head(ch) = Err THEN "error" ELSE "data">>} ELSE {})
    \cup (IF cancelled THEN {<<ch # <<>>, "Canceled">>} ELSE {})

\* Faulty variant: Recv does not watch the client's context.
RecvOutcomesNoCancel(ch, closed) ==
    (IF ch # <<>> THEN {<<TRUE, IF Head(ch) = Err THEN "error" ELSE "data">>} ELSE {})
    \cup (IF ch = <<>> /\ closed THEN {<<FALSE, "EOF">>} ELSE {})

\* Recv on channel ch: whether it takes a payload, and how it returns, "data"
\* or an end.  A cancelled Recv takes, and drops, a payload that is there.
RecvOutcomes(ch, closed) ==
    (IF ch # <<>> THEN {<<TRUE, IF Head(ch) = Err THEN "error" ELSE "data">>} ELSE {})
    \cup (IF ch = <<>> /\ closed THEN {<<FALSE, "EOF">>} ELSE {})
    \cup (IF cancelled /\ ~(ch = <<>> /\ closed) THEN {<<ch # <<>>, "Canceled">>} ELSE {})

-----------------------------------------------------------------------------
(* The client *)

\* SendMsg, up to the select.
ClientSendMsg ==
    /\ csend = "idle" /\ upSent < MaxMsgs
    /\ csend' = IF ~srvClosed /\ MaySend(c2sClosed) THEN "select" ELSE "done"
    /\ UNCHANGED <<chanVars, closeVars, headerVars, crecv, handlerVars, closerVars, upVars, downVars>>

ClientSendSelect ==
    /\ csend = "select"
    /\ \/ /\ SendSelected(c2s)
          /\ c2s' = Append(c2s, upSent + 1)
          /\ upSent' = upSent + 1
          /\ csend' = "idle"
       \/ /\ SendAborted
          /\ csend' = "done"
          /\ UNCHANGED <<c2s, upSent>>
    /\ UNCHANGED <<s2c, closeVars, headerVars, crecv, handlerVars, closerVars,
                   upRecv, upDropped, upEOF, downVars>>

\* CloseSend by the client; a no-op when NewStream's goroutine closed first.
ClientCloseSend ==
    /\ csend = "idle"
    /\ c2sClosed' = TRUE
    /\ csend' = "done"
    /\ UNCHANGED <<chanVars, s2cClosed, cancelled, closeCtx, srvClosed, headerVars, crecv,
                   handlerVars, closerVars, upVars, downVars>>

\* RecvMsg by the client.
ClientRecvMsg ==
    /\ crecv = "open"
    /\ \E o \in RecvOutcomes(s2c, s2cClosed) :
        /\ s2c' = IF o[1] THEN Tail(s2c) ELSE s2c
        /\ downRecv' = IF o[2] = "data" THEN Append(downRecv, Head(s2c)) ELSE downRecv
        /\ crecv' = IF o[2] = "data" THEN "open" ELSE o[2]
    /\ UNCHANGED <<c2s, closeVars, headerVars, csend, handlerVars, closerVars, upVars, downSent>>

\* Header waits for the header to be sent, cancelled or not.
ClientHeader ==
    /\ headerRead = Unread
    /\ headerSent
    /\ headerRead' = headerMd
    /\ UNCHANGED <<chanVars, closeVars, headerSent, headerMd, clientVars, handlerVars, closerVars,
                   upVars, downVars>>

Cancel ==
    /\ ~cancelled
    /\ cancelled' = TRUE
    /\ UNCHANGED <<chanVars, c2sClosed, s2cClosed, closeCtx, srvClosed, headerVars, clientVars,
                   handlerVars, closerVars, upVars, downVars>>

-----------------------------------------------------------------------------
(* The handler *)

\* The handler calls RecvMsg, whatever the last one returned.
ServerRecvMsg ==
    /\ handler = "run" /\ srecv = "idle"
    /\ srecv' = "recv"
    /\ UNCHANGED <<chanVars, closeVars, headerVars, clientVars, handler, ssend, closerVars,
                   upVars, downVars>>

\* The blocking select of Recv returns.
ServerRecvSelect ==
    /\ srecv = "recv"
    /\ \E o \in RecvOutcomes(c2s, c2sClosed) :
        /\ c2s' = IF o[1] THEN Tail(c2s) ELSE c2s
        /\ upRecv' = IF o[2] = "data" THEN Append(upRecv, Head(c2s)) ELSE upRecv
        /\ upDropped' = upDropped \cup IF o[1] /\ o[2] # "data" THEN {Head(c2s)} ELSE {}
        /\ upEOF' = (upEOF \/ o[2] = "EOF")
    /\ srecv' = "idle"
    /\ UNCHANGED <<s2c, closeVars, headerVars, clientVars, handler, ssend, closerVars,
                   upSent, downVars>>

\* Faulty variant: SetHeader does not look at sent.
ServerSetHeaderLate ==
    /\ handler = "run" /\ headerMd < MaxHeaders
    /\ ~srvClosed
    /\ headerMd' = headerMd + 1
    /\ UNCHANGED <<chanVars, closeVars, headerSent, headerRead, clientVars, handlerVars, closerVars,
                   upVars, downVars>>

\* SetHeader: refused once the header was sent.
ServerSetHeader ==
    /\ handler = "run" /\ headerMd < MaxHeaders
    /\ ~srvClosed /\ ~headerSent
    /\ headerMd' = headerMd + 1
    /\ UNCHANGED <<chanVars, closeVars, headerSent, headerRead, clientVars, handlerVars, closerVars,
                   upVars, downVars>>

\* SendMsg sends the header first; the payload follows in ServerSendSelect.  A
\* Close that waits for its write lock keeps new readers of the lock out.
ServerSendMsg ==
    /\ handler = "run" /\ ssend = "idle" /\ downSent < MaxMsgs
    /\ closer # "close"
    /\ headerSent' = TRUE
    /\ ssend' = IF MaySend(s2cClosed) THEN "select" ELSE "idle"
    /\ UNCHANGED <<chanVars, closeVars, headerMd, headerRead, clientVars, handler, srecv,
                   closerVars, upVars, downVars>>

\* A message that is accepted behind the status is one the client never reads.
ServerSendSelect ==
    /\ ssend = "select"
    /\ \/ /\ SendSelected(s2c)
          /\ s2c' = Append(s2c, downSent + 1)
          /\ downSent' = IF errSent THEN downSent ELSE downSent + 1
       \/ /\ SendAborted
          /\ UNCHANGED <<s2c, downSent>>
    /\ ssend' = "idle"
    /\ UNCHANGED <<c2s, closeVars, headerVars, clientVars, handler, srecv, closerVars,
                   upVars, downRecv>>

\* The handler returns nil or an error, or panics and is recovered, which
\* differs from an error only in what follows WriteStatus.  After the deadline
\* nobody listens, and a panic is one that nobody recovers (MemoryCall).
HandlerReturn(st) ==
    /\ handler = "run" /\ ssend = "idle" /\ srecv = "idle"
    /\ handler' = "returned"
    /\ \/ closer = "wait" /\ closer' = "writeHeader" /\ status' = st
       \/ closer # "wait" /\ st # "panic" /\ UNCHANGED <<closer, status>>
    /\ UNCHANGED <<chanVars, closeVars, headerVars, clientVars, ssend, srecv, errSent,
                   upVars, downVars>>

\* Under a timeout policy timeoutHandler gives up waiting and reports
\* DeadlineExceeded; the handler goes on.
Deadline ==
    /\ closer = "wait"
    /\ closer' = "writeHeader"
    /\ status' = "error"
    /\ UNCHANGED <<chanVars, closeVars, headerVars, clientVars, handlerVars, errSent, upVars, downVars>>

-----------------------------------------------------------------------------
(* WriteStatus and the rest of NewStream's goroutine *)

WriteStatusHeader ==
    /\ closer = "writeHeader"
    /\ headerSent' = TRUE
    /\ closer' = IF status # "nil" /\ MaySend(s2cClosed) THEN "writeErr" ELSE "closeFunc"
    /\ UNCHANGED <<chanVars, closeVars, headerMd, headerRead, clientVars, handlerVars, status, errSent,
                   upVars, downVars>>

\* Faulty variant: the error is dropped when the channel is full.
WriteStatusErrNonBlocking ==
    /\ closer = "writeErr"
    /\ s2c' = IF SendSelected(s2c) THEN Append(s2c, Err) ELSE s2c
    /\ errSent' = SendSelected(s2c)
    /\ closer' = "closeFunc"
    /\ UNCHANGED <<c2s, closeVars, headerVars, clientVars, handlerVars, status, upVars, downVars>>

WriteStatusErr ==
    /\ closer = "writeErr"
    /\ \/ SendSelected(s2c) /\ s2c' = Append(s2c, Err) /\ errSent' = TRUE
       \/ SendAborted /\ UNCHANGED <<s2c, errSent>>
    /\ closer' = "closeFunc"
    /\ UNCHANGED <<c2s, closeVars, headerVars, clientVars, handlerVars, status, upVars, downVars>>

\* Faulty variant: WriteStatus does not call srvCloseFunc.
WriteStatusNoCloseFunc ==
    /\ closer = "closeFunc"
    /\ closer' = "close"
    /\ UNCHANGED <<chanVars, closeVars, headerVars, clientVars, handlerVars, status, errSent,
                   upVars, downVars>>

WriteStatusCloseFunc ==
    /\ closer = "closeFunc"
    /\ closeCtx' = TRUE
    /\ closer' = "close"
    /\ UNCHANGED <<chanVars, c2sClosed, s2cClosed, cancelled, srvClosed, headerVars, clientVars,
                   handlerVars, status, errSent, upVars, downVars>>

\* serverStream.s.Close(): its write lock waits for a handler inside Send.
WriteStatusClose ==
    /\ closer = "close"
    /\ ssend # "select"
    /\ s2cClosed' = TRUE
    /\ closer' = "flag"
    /\ UNCHANGED <<chanVars, c2sClosed, cancelled, closeCtx, srvClosed, headerVars, clientVars,
                   handlerVars, status, errSent, upVars, downVars>>

WriteStatusFlag ==
    /\ closer = "flag"
    /\ srvClosed' = TRUE
    /\ closer' = IF status = "panic" THEN "exit" ELSE "closeSend"
    /\ UNCHANGED <<chanVars, c2sClosed, s2cClosed, cancelled, closeCtx, headerVars, clientVars,
                   handlerVars, status, errSent, upVars, downVars>>

\* Faulty variant: Close closes the channel without taking the mutex.
CloserCloseSendNoLock ==
    /\ closer = "closeSend"
    /\ c2sClosed' = TRUE
    /\ closer' = "exit"
    /\ UNCHANGED <<chanVars, s2cClosed, cancelled, closeCtx, srvClosed, headerVars, clientVars,
                   handlerVars, status, errSent, upVars, downVars>>

\* ClientStream().CloseSend() by NewStream's goroutine: Close's write lock waits
\* for a client that is inside Send.
CloserCloseSend ==
    /\ closer = "closeSend"
    /\ c2sClosed \/ csend # "select"
    /\ c2sClosed' = TRUE
    /\ closer' = "exit"
    /\ UNCHANGED <<chanVars, s2cClosed, cancelled, closeCtx, srvClosed, headerVars, clientVars,
                   handlerVars, status, errSent, upVars, downVars>>

-----------------------------------------------------------------------------
HandlerChoice ==
    \/ ServerRecvMsg \/ ServerSetHeader \/ ServerSendMsg
    \/ \E st \in {"nil", "error", "panic"} : HandlerReturn(st)

CloserStep ==
    \/ WriteStatusHeader \/ WriteStatusErr \/ WriteStatusCloseFunc
    \/ WriteStatusClose \/ WriteStatusFlag
    \/ CloserCloseSend

ClientChoice == ClientSendMsg \/ ClientCloseSend \/ ClientHeader \/ Cancel

Next ==
    \/ HandlerChoice \/ ServerRecvSelect \/ ServerSendSelect \/ Deadline \/ CloserStep
    \/ ClientChoice \/ ClientSendSelect \/ ClientRecvMsg

Spec == Init /\ [][Next]_vars

(* A goroutine that can go on does, and the client keeps receiving until   *)
(* its stream ends.  Nothing obliges the handler to return, anyone to send *)
(* or to close, a deadline to be set, or anyone to cancel.                 *)
Fairness ==
    /\ WF_vars(CloserStep)
    /\ WF_vars(ServerSendSelect)
    /\ WF_vars(ServerRecvSelect)
    /\ WF_vars(ClientSendSelect)
    /\ WF_vars(ClientRecvMsg)

FairSpec == Spec /\ Fairness

-----------------------------------------------------------------------------
(* Properties *)

\* Nobody is sending on a closed channel, which would panic: the mutexes keep
\* NewStream's CloseSend away from a client that is blocked in SendMsg, and
\* WriteStatus away from a handler that still sends after its deadline.
NoSendOnClosedChannel ==
    /\ csend = "select" => ~c2sClosed
    /\ ssend = "select" \/ closer = "writeErr" => ~s2cClosed

\* The handler receives the client's messages in order and none twice.  It may
\* go on receiving after an error; then a message is missing only if a Recv that
\* reported a cancellation had taken it.  io.EOF comes after everything the
\* client's SendMsg accepted.  The client receives in order and without gaps.
Received == {upRecv[k] : k \in 1..Len(upRecv)}

UplinkFaithful ==
    /\ \A j, k \in 1..Len(upRecv) : j < k => upRecv[j] < upRecv[k]
    /\ \A n \in Received : \A m \in 1..n : m \in Received \cup upDropped
    /\ upEOF => \A m \in 1..upSent : m \in Received \cup upDropped
    /\ upDropped # {} => cancelled
    /\ \A k \in 1..Len(downRecv) : downRecv[k] = k

\* Once the client has a message or a status, Header() does not block, and the
\* header it has read stays the header of the stream, although the handler may
\* call SetHeader at any later moment.
HeaderIsFinal ==
    /\ downRecv # <<>> \/ crecv \in {"EOF", "error"} => headerSent
    /\ headerRead # Unread => headerRead = headerMd

\* What the client reads is an instance of StreamDelivery, in which the handler
\* returns when its status is queued, or the channel is closed without it.
AbstractStatus ==
    IF ~errSent /\ ~s2cClosed THEN "none"
    ELSE IF status = "panic" THEN "error" ELSE status

Downlink == INSTANCE StreamDelivery WITH
    sent <- downSent, recv <- Len(downRecv), status <- AbstractStatus, end <- crecv

\* The client's view implements the abstract stream: all messages accepted ahead
\* of the status, in order, then the status, also when the status is that of a
\* deadline and the handler still sends.
DownlinkDelivers == Downlink!Spec

\* Nobody is inside a call that blocks; a client that reads is inside one.
Released ==
    csend # "select" /\ crecv # "open" /\ ssend # "select" /\ srecv # "recv" /\ closer # "writeErr"

\* Once the handler has returned or its deadline has passed, NewStream's
\* goroutine ends and everybody blocked on the stream is released, although the
\* client may be in SendMsg, the handler in either call and both channels full.
StreamWindsDown == (status # "none") ~> (closer = "exit" /\ Released)

\* Cancelling the context releases every blocked Send and Recv of both sides.
CancelReleases == cancelled ~> Released
=============================================================================
