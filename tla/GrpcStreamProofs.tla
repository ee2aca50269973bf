-------------------------- MODULE GrpcStreamProofs --------------------------
(***************************************************************************)
(* Proofs about GrpcStream, for every channel capacity and every number of *)
(* messages: no send on a closed channel, ordered delivery in both         *)
(* directions, the finality of the header, and that the client's view      *)
(* implements StreamDelivery.                                              *)
(***************************************************************************)
EXTENDS GrpcStream, SequenceTheorems, TLAPS

\* NewStream's goroutine while it writes the status, and after that.
Writing == {"writeHeader", "writeErr"}
Closing == {"closeFunc", "close", "flag", "closeSend", "exit"}

TypeInv ==
    /\ c2s \in Seq(Nat) /\ s2c \in Seq(Nat)
    /\ upRecv \in Seq(Nat) /\ downRecv \in Seq(Nat)
    /\ upSent \in Nat /\ downSent \in Nat /\ upEOF \in BOOLEAN
    /\ c2sClosed \in BOOLEAN /\ s2cClosed \in BOOLEAN /\ cancelled \in BOOLEAN
    /\ closeCtx \in BOOLEAN /\ srvClosed \in BOOLEAN /\ headerSent \in BOOLEAN
    /\ headerMd \in Nat /\ headerRead \in Nat \cup {Unread}
    /\ csend \in {"idle", "select", "done"}
    /\ crecv \in {"open"} \cup Ends
    /\ handler \in {"run", "returned"} /\ ssend \in {"idle", "select"} /\ srecv \in {"idle", "recv"}
    /\ closer \in {"wait"} \cup Writing \cup Closing
    /\ status \in {"none", "nil", "error", "panic"} /\ errSent \in BOOLEAN

Failed == status \in {"error", "panic"}

\* How far NewStream's goroutine is decides what has been closed and sent.
PhaseInv ==
    /\ status = "none" <=> closer = "wait"
    /\ ssend = "select" => downSent < MaxMsgs /\ ~s2cClosed
    /\ csend = "select" => ~c2sClosed
    /\ closer = "writeErr" => Failed
    /\ closer \in {"wait", "closeFunc"} \cup Writing => ~closeCtx
    /\ closer \in {"wait", "closeFunc", "close"} \cup Writing => ~s2cClosed
    /\ errSent => closer \in Closing /\ Failed
    /\ closer \in Closing /\ Failed => errSent \/ cancelled

\* ch holds the messages from the one after number n on, in order.
From(ch, n) == \A k \in 1..Len(ch) : ch[k] = n + k

\* Towards the handler: every message that has left the channel was received,
\* in order, or dropped by a cancelled receive.
Taken == upSent - Len(c2s)

UplinkInv ==
    /\ Taken \in Nat
    /\ From(c2s, Taken)
    /\ \A k \in 1..Len(upRecv) : upRecv[k] \in 1..Taken
    /\ \A j, k \in 1..Len(upRecv) : j < k => upRecv[j] < upRecv[k]
    /\ \A m \in 1..Taken : m \in Received \cup upDropped
    /\ upDropped # {} => cancelled
    /\ upEOF => c2sClosed /\ c2s = <<>>

\* Towards the client: behind what it has received come the other messages in
\* order and, once the status is written, the error payload.
ErrAt(p) ==
    /\ s2c[p] = Err
    /\ \A k \in 1..(p - 1) : s2c[k] = Len(downRecv) + k
    /\ downSent = Len(downRecv) + p - 1

DownlinkInv ==
    /\ From(downRecv, 0)
    /\ Len(downRecv) <= downSent
    /\ crecv = "open" /\ ~errSent => From(s2c, Len(downRecv)) /\ downSent = Len(downRecv) + Len(s2c)
    /\ crecv = "open" /\ errSent => \E p \in 1..Len(s2c) : ErrAt(p)

\* The header is out before any payload and before the stream ends.
HeaderInv ==
    /\ downSent > 0 \/ ssend = "select" \/ closer \notin {"wait", "writeHeader"} => headerSent
    /\ crecv \in {"EOF", "error"} => closer \in Closing
    /\ headerRead # Unread => headerSent /\ headerRead = headerMd

IndInv == TypeInv /\ PhaseInv /\ UplinkInv /\ DownlinkInv /\ HeaderInv

-----------------------------------------------------------------------------
(* Lemmas about Recv and about the channels *)

\* The four ways in which Recv returns.
LEMMA RecvCases ==
    ASSUME NEW ch, NEW closed, NEW o \in RecvOutcomes(ch, closed)
    PROVE  \/ ch # <<>> /\ Head(ch) # Err /\ o[1] = TRUE /\ o[2] = "data"
           \/ ch # <<>> /\ Head(ch) = Err /\ o[1] = TRUE /\ o[2] = "error"
           \/ ch = <<>> /\ closed /\ o[1] = FALSE /\ o[2] = "EOF"
           \/ cancelled /\ o[2] = "Canceled" /\ (o[1] <=> ch # <<>>)
<1>1. CASE ch # <<>> /\ o = <<TRUE, IF Head(ch) = Err THEN "error" ELSE "data">>
  BY <1>1
<1>2. CASE ch = <<>> /\ closed /\ o = <<FALSE, "EOF">>
  BY <1>2
<1>3. CASE cancelled /\ o = <<ch # <<>>, "Canceled">>
  BY <1>3
<1> QED
  BY <1>1, <1>2, <1>3 DEF RecvOutcomes

\* Channels and histories are sequences of numbers.
LEMMA SeqAppend ==
    ASSUME NEW s \in Seq(Nat), NEW e \in Nat
    PROVE  /\ Append(s, e) \in Seq(Nat) /\ Append(s, e) # <<>> /\ Len(Append(s, e)) = Len(s) + 1
           /\ \A k \in 1..Len(s) : Append(s, e)[k] = s[k]
           /\ Append(s, e)[Len(s) + 1] = e
BY AppendProperties

LEMMA SeqTail ==
    ASSUME NEW s \in Seq(Nat), s # <<>>
    PROVE  /\ Head(s) \in Nat /\ Head(s) = s[1]
           /\ Tail(s) \in Seq(Nat) /\ Len(s) \in Nat \ {0} /\ Len(Tail(s)) = Len(s) - 1
           /\ \A k \in 1..Len(Tail(s)) : Tail(s)[k] = s[k + 1]
BY HeadTailProperties, EmptySeq

\* Sending the next message keeps a channel in order.
LEMMA FromAppend ==
    ASSUME NEW ch \in Seq(Nat), NEW n \in Nat, From(ch, n), NEW e \in Nat, e = n + Len(ch) + 1
    PROVE  From(Append(ch, e), n) /\ Len(Append(ch, e)) = Len(ch) + 1
BY DEF From

\* Receiving a message keeps a channel in order.
LEMMA FromTail ==
    ASSUME NEW ch \in Seq(Nat), NEW n \in Nat, From(ch, n), ch # <<>>
    PROVE  From(Tail(ch), n + 1) /\ Head(ch) = n + 1 /\ Len(Tail(ch)) = Len(ch) - 1
BY DEF From

-----------------------------------------------------------------------------
\* Initially the channels are empty and the handler runs.
LEMMA InitInd == Init => IndInv
<1> SUFFICES ASSUME Init PROVE IndInv
  OBVIOUS
<1>1. TypeInv /\ PhaseInv
  BY EmptySeq DEF Init, TypeInv, PhaseInv, Writing, Closing, Ends
<1>2. UplinkInv /\ DownlinkInv
  BY EmptySeq DEF Init, UplinkInv, DownlinkInv, From, Taken, Received
<1>3. HeaderInv
  BY DEF Init, HeaderInv, Closing, Unread
<1> QED
  BY <1>1, <1>2, <1>3 DEF IndInv

\* Every step keeps the types.
LEMMA TypeStep == TypeInv /\ [Next]_vars => TypeInv'
<1> SUFFICES ASSUME TypeInv, [Next]_vars PROVE TypeInv'
  OBVIOUS
<1> USE DEF TypeInv, Writing, Closing, Ends, chanVars, closeVars, headerVars, clientVars, handlerVars,
            closerVars, upVars, downVars
<1>1. CASE ClientSendMsg
  BY <1>1 DEF ClientSendMsg
<1>2. CASE ClientSendSelect
  <2>0. upSent + 1 \in Nat
    OBVIOUS
  <2>1. Append(c2s, upSent + 1) \in Seq(Nat)
    BY <2>0, SeqAppend
  <2>2. (c2s' = Append(c2s, upSent + 1) /\ upSent' = upSent + 1) \/ UNCHANGED <<c2s, upSent>>
    BY <1>2 DEF ClientSendSelect
  <2>3. c2s' \in Seq(Nat) /\ upSent' \in Nat
    BY <2>0, <2>1, <2>2
  <2>4. csend' \in {"idle", "select", "done"}
    BY <1>2 DEF ClientSendSelect
  <2> QED
    BY <1>2, <2>3, <2>4 DEF ClientSendSelect
<1>3. CASE ClientCloseSend
  BY <1>3 DEF ClientCloseSend
<1>4. CASE ClientRecvMsg
  <2>1. PICK o \in RecvOutcomes(s2c, s2cClosed) :
          /\ s2c' = IF o[1] THEN Tail(s2c) ELSE s2c
          /\ downRecv' = IF o[2] = "data" THEN Append(downRecv, Head(s2c)) ELSE downRecv
          /\ crecv' = IF o[2] = "data" THEN "open" ELSE o[2]
    BY <1>4 DEF ClientRecvMsg
  <2>2. s2c' \in Seq(Nat) /\ downRecv' \in Seq(Nat) /\ crecv' \in {"open"} \cup Ends
    BY <2>1, RecvCases, SeqTail, SeqAppend
  <2> QED
    BY <1>4, <2>2 DEF ClientRecvMsg
<1>5. CASE ClientHeader
  BY <1>5 DEF ClientHeader
<1>6. CASE Cancel
  BY <1>6 DEF Cancel
<1>7. CASE ServerRecvSelect
  <2>1. PICK o \in RecvOutcomes(c2s, c2sClosed) :
          /\ c2s' = IF o[1] THEN Tail(c2s) ELSE c2s
          /\ upRecv' = IF o[2] = "data" THEN Append(upRecv, Head(c2s)) ELSE upRecv
          /\ upEOF' = (upEOF \/ o[2] = "EOF")
    BY <1>7 DEF ServerRecvSelect
  <2>2. c2s' \in Seq(Nat) /\ upRecv' \in Seq(Nat) /\ upEOF' \in BOOLEAN
    BY <2>1, RecvCases, SeqTail, SeqAppend
  <2> QED
    BY <1>7, <2>2 DEF ServerRecvSelect
<1>8. CASE ServerSetHeader
  BY <1>8 DEF ServerSetHeader
<1>9. CASE ServerSendMsg
  BY <1>9 DEF ServerSendMsg
<1>10. CASE ServerSendSelect
  <2>0. downSent + 1 \in Nat
    OBVIOUS
  <2>1. Append(s2c, downSent + 1) \in Seq(Nat)
    BY <2>0, SeqAppend
  <2>2. s2c' \in {s2c, Append(s2c, downSent + 1)} /\ downSent' \in {downSent, downSent + 1}
    BY <1>10 DEF ServerSendSelect
  <2>3. s2c' \in Seq(Nat) /\ downSent' \in Nat
    BY <2>0, <2>1, <2>2
  <2> QED
    BY <1>10, <2>3 DEF ServerSendSelect
<1>11. ASSUME NEW st \in {"nil", "error", "panic"}, HandlerReturn(st) PROVE TypeInv'
  BY <1>11 DEF HandlerReturn
<1>12. CASE WriteStatusHeader
  BY <1>12 DEF WriteStatusHeader
<1>13. CASE WriteStatusErr
  <2>1. Append(s2c, Err) \in Seq(Nat)
    BY SeqAppend DEF Err
  <2>2. s2c' \in {s2c, Append(s2c, Err)} /\ errSent' \in {errSent, TRUE}
    BY <1>13 DEF WriteStatusErr
  <2>3. s2c' \in Seq(Nat) /\ errSent' \in BOOLEAN
    BY <2>1, <2>2
  <2> QED
    BY <1>13, <2>3 DEF WriteStatusErr
<1>14. CASE WriteStatusCloseFunc
  BY <1>14 DEF WriteStatusCloseFunc
<1>15. CASE WriteStatusClose
  BY <1>15 DEF WriteStatusClose
<1>16. CASE WriteStatusFlag
  BY <1>16 DEF WriteStatusFlag
<1>17. CASE CloserCloseSend
  BY <1>17 DEF CloserCloseSend
<1>18. CASE ServerRecvMsg
  BY <1>18 DEF ServerRecvMsg
<1>19. CASE Deadline
  BY <1>19 DEF Deadline
<1>20. CASE UNCHANGED vars
  BY <1>20 DEF vars
<1> HIDE DEF TypeInv
<1> QED
  BY <1>1, <1>2, <1>3, <1>4, <1>5, <1>6, <1>7, <1>8, <1>9, <1>10, <1>11, <1>12, <1>13, <1>14, <1>15,
     <1>16, <1>17, <1>18, <1>19, <1>20 DEF Next, HandlerChoice, CloserStep, ClientChoice

\* NewStream's goroutine goes through its phases in order, and closes a channel
\* only while nobody sends on it.
LEMMA PhaseStep == TypeInv /\ PhaseInv /\ [Next]_vars => PhaseInv'
<1> SUFFICES ASSUME TypeInv, PhaseInv, [Next]_vars PROVE PhaseInv'
  OBVIOUS
<1> USE DEF PhaseInv, Failed, Writing, Closing, closeVars, clientVars, handlerVars, closerVars, downVars
<1>1. CASE ClientSendMsg
  BY <1>1 DEF ClientSendMsg, MaySend
<1>2. CASE ClientSendSelect
  BY <1>2 DEF ClientSendSelect
<1>3. CASE ClientCloseSend
  BY <1>3 DEF ClientCloseSend
<1>4. CASE ClientRecvMsg
  BY <1>4 DEF ClientRecvMsg
<1>5. CASE ClientHeader \/ Cancel
  BY <1>5 DEF ClientHeader, Cancel
<1>6. CASE ServerRecvMsg \/ ServerRecvSelect
  BY <1>6 DEF ServerRecvMsg, ServerRecvSelect
<1>7. CASE ServerSetHeader
  BY <1>7 DEF ServerSetHeader
<1>8. CASE ServerSendMsg
  BY <1>8 DEF ServerSendMsg, MaySend
<1>9. CASE ServerSendSelect
  BY <1>9 DEF ServerSendSelect
<1>10. ASSUME NEW st \in {"nil", "error", "panic"}, HandlerReturn(st) PROVE PhaseInv'
  BY <1>10 DEF HandlerReturn
<1>11. CASE WriteStatusHeader
  BY <1>11 DEF WriteStatusHeader, MaySend, TypeInv
<1>12. CASE WriteStatusErr
  BY <1>12 DEF WriteStatusErr, SendAborted
<1>13. CASE WriteStatusCloseFunc
  BY <1>13 DEF WriteStatusCloseFunc
<1>14. CASE WriteStatusClose
  BY <1>14 DEF WriteStatusClose
<1>15. CASE WriteStatusFlag
  BY <1>15 DEF WriteStatusFlag
<1>16. CASE CloserCloseSend
  BY <1>16 DEF CloserCloseSend
<1>17. CASE Deadline
  BY <1>17 DEF Deadline
<1>18. CASE UNCHANGED vars
  BY <1>18 DEF vars
<1> QED
  BY <1>1, <1>2, <1>3, <1>4, <1>5, <1>6, <1>7, <1>8, <1>9, <1>10, <1>11, <1>12, <1>13, <1>14, <1>15,
     <1>16, <1>17, <1>18 DEF Next, HandlerChoice, CloserStep, ClientChoice

\* Towards the handler, only sending, receiving and closing matter.
LEMMA UplinkStep == TypeInv /\ PhaseInv /\ UplinkInv /\ [Next]_vars => UplinkInv'
<1> SUFFICES ASSUME TypeInv, PhaseInv, UplinkInv, [Next]_vars PROVE UplinkInv'
  OBVIOUS
<1>0. /\ c2s \in Seq(Nat) /\ upRecv \in Seq(Nat) /\ upSent \in Nat
      /\ Len(c2s) \in Nat /\ Len(upRecv) \in Nat /\ Taken \in Nat /\ upSent = Taken + Len(c2s)
  BY DEF TypeInv, UplinkInv, Taken
<1>1. ASSUME UNCHANGED <<c2s, upSent, upRecv, upDropped, upEOF>>, c2sClosed => c2sClosed',
             cancelled => cancelled'
      PROVE  UplinkInv'
  BY <1>1 DEF UplinkInv, From, Taken, Received
<1>2. CASE ClientSendSelect
  <2>1. CASE UNCHANGED <<c2s, upSent>>
    BY <1>1, <1>2, <2>1 DEF ClientSendSelect, closeVars
  <2>2. CASE c2s' = Append(c2s, upSent + 1) /\ upSent' = upSent + 1
    <3>1. ~upEOF /\ UNCHANGED <<upRecv, upDropped, upEOF, cancelled>>
      BY <1>2 DEF ClientSendSelect, UplinkInv, PhaseInv, closeVars
    <3>2. From(c2s', Taken) /\ Len(c2s') = Len(c2s) + 1
      BY <1>0, <2>2, FromAppend DEF UplinkInv
    <3>3. Taken' = Taken
      BY <1>0, <2>2, <3>2 DEF Taken
    <3> QED
      BY <3>1, <3>2, <3>3 DEF UplinkInv, Received
  <2> QED
    BY <1>2, <2>1, <2>2 DEF ClientSendSelect
<1>3. CASE ServerRecvSelect
  <2>1. PICK o \in RecvOutcomes(c2s, c2sClosed) :
          /\ c2s' = IF o[1] THEN Tail(c2s) ELSE c2s
          /\ upRecv' = IF o[2] = "data" THEN Append(upRecv, Head(c2s)) ELSE upRecv
          /\ upDropped' = upDropped \cup IF o[1] /\ o[2] # "data" THEN {Head(c2s)} ELSE {}
          /\ upEOF' = (upEOF \/ o[2] = "EOF")
    BY <1>3 DEF ServerRecvSelect
  <2>2. UNCHANGED <<upSent, c2sClosed, cancelled>> /\ (o[2] # "EOF" => upEOF' = upEOF)
    BY <1>3, <2>1 DEF ServerRecvSelect, closeVars, TypeInv
  <2>3. ASSUME c2s # <<>>, c2s' = Tail(c2s)
        PROVE  /\ Taken' = Taken + 1 /\ From(c2s', Taken') /\ Head(c2s) = Taken + 1
               /\ \A m \in 1..Taken' : m \in 1..Taken \/ m = Taken + 1
    <3>1. From(Tail(c2s), Taken + 1) /\ Head(c2s) = Taken + 1 /\ Len(Tail(c2s)) = Len(c2s) - 1
      BY <1>0, <2>3, FromTail DEF UplinkInv
    <3>2. Taken' = Taken + 1
      BY <1>0, <2>2, <2>3, <3>1 DEF Taken
    <3> QED
      BY <1>0, <2>3, <3>1, <3>2
  <2>4. CASE c2s # <<>> /\ Head(c2s) # Err /\ o[1] = TRUE /\ o[2] = "data"
    <3>1. c2s' = Tail(c2s) /\ upRecv' = Append(upRecv, Head(c2s)) /\ UNCHANGED <<upDropped, upEOF>>
      BY <2>1, <2>2, <2>4
    <3>2. Taken' = Taken + 1 /\ From(c2s', Taken') /\ Head(c2s) = Taken + 1
          /\ \A m \in 1..Taken' : m \in 1..Taken \/ m = Taken + 1
      BY <2>3, <2>4, <3>1
    <3>3. /\ Len(upRecv') = Len(upRecv) + 1 /\ upRecv'[Len(upRecv) + 1] = Taken + 1
          /\ \A k \in 1..Len(upRecv) : upRecv'[k] = upRecv[k]
      BY <1>0, <3>1, <3>2, SeqAppend
    <3>4. \A k \in 1..Len(upRecv') : k \in 1..Len(upRecv) \/ k = Len(upRecv) + 1
      BY <1>0, <3>3
    <3>5. \A k \in 1..Len(upRecv') : upRecv'[k] \in 1..Taken'
      <4>1. \A m \in 1..Taken : m \in 1..Taken'
        BY <1>0, <3>2
      <4>2. Taken + 1 \in 1..Taken'
        BY <1>0, <3>2
      <4> QED
        BY <3>3, <3>4, <4>1, <4>2 DEF UplinkInv
    <3>6. ASSUME NEW j \in 1..Len(upRecv'), NEW k \in 1..Len(upRecv'), j < k PROVE upRecv'[j] < upRecv'[k]
      <4>1. j \in 1..Len(upRecv)
        BY <1>0, <3>3, <3>6
      <4>2. CASE k \in 1..Len(upRecv)
        BY <3>3, <3>6, <4>1, <4>2 DEF UplinkInv
      <4>3. CASE k = Len(upRecv) + 1
        <5>1. upRecv[j] \in 1..Taken
          BY <4>1 DEF UplinkInv
        <5> QED
          BY <1>0, <3>3, <4>1, <4>3, <5>1
      <4> QED
        BY <3>4, <4>2, <4>3
    <3>7. Received \subseteq Received' /\ Taken + 1 \in Received'
      <4>1. \A k \in 1..Len(upRecv) : k \in 1..Len(upRecv')
        BY <1>0, <3>3
      <4>2. Len(upRecv) + 1 \in 1..Len(upRecv')
        BY <1>0, <3>3
      <4> QED
        BY <3>3, <4>1, <4>2 DEF Received
    <3>8. \A m \in 1..Taken' : m \in Received' \cup upDropped'
      BY <3>1, <3>2, <3>7 DEF UplinkInv
    <3>9. ~upEOF
      BY <2>4 DEF UplinkInv
    <3> QED
      BY <1>0, <2>2, <3>1, <3>2, <3>5, <3>6, <3>8, <3>9 DEF UplinkInv
  <2>5. CASE c2s # <<>> /\ Head(c2s) = Err
    <3>1. Head(c2s) = Taken + 1
      BY <1>0, <2>5, FromTail DEF UplinkInv
    <3> QED
      BY <1>0, <2>5, <3>1 DEF Err
  <2>6. CASE c2s = <<>> /\ c2sClosed /\ o[1] = FALSE /\ o[2] = "EOF"
    <3>1. UNCHANGED <<c2s, upRecv, upDropped>>
      BY <2>1, <2>6
    <3> QED
      BY <2>2, <2>6, <3>1 DEF UplinkInv, From, Taken, Received
  <2>7. CASE cancelled /\ o[2] = "Canceled" /\ (o[1] <=> c2s # <<>>)
    <3>1. CASE c2s = <<>>
      <4>1. UNCHANGED <<c2s, upRecv, upDropped, upEOF>>
        BY <2>1, <2>2, <2>7, <3>1
      <4> QED
        BY <1>1, <2>2, <4>1
    <3>2. CASE c2s # <<>>
      <4>1. c2s' = Tail(c2s) /\ upDropped' = upDropped \cup {Head(c2s)} /\ UNCHANGED <<upRecv, upEOF>>
        BY <2>1, <2>2, <2>7, <3>2
      <4>2. Taken' = Taken + 1 /\ From(c2s', Taken') /\ Head(c2s) = Taken + 1
            /\ \A m \in 1..Taken' : m \in 1..Taken \/ m = Taken + 1
        BY <2>3, <3>2, <4>1
      <4>3. Received' = Received
        BY <4>1 DEF Received
      <4>4. \A m \in 1..Taken' : m \in Received' \cup upDropped'
        BY <4>1, <4>2, <4>3 DEF UplinkInv
      <4>5. \A k \in 1..Len(upRecv') : upRecv'[k] \in 1..Taken'
        <5>1. \A m \in 1..Taken : m \in 1..Taken'
          BY <1>0, <4>2
        <5> QED
          BY <4>1, <5>1 DEF UplinkInv
      <4>6. ~upEOF
        BY <3>2 DEF UplinkInv
      <4> QED
        BY <1>0, <2>2, <2>7, <4>1, <4>2, <4>4, <4>5, <4>6 DEF UplinkInv
    <3> QED
      BY <3>1, <3>2
  <2> QED
    BY <2>1, <2>4, <2>5, <2>6, <2>7, RecvCases
<1>4. CASE ClientCloseSend \/ CloserCloseSend \/ Cancel
  BY <1>1, <1>4 DEF ClientCloseSend, CloserCloseSend, Cancel, chanVars, upVars
<1>5. CASE UNCHANGED <<c2s, upVars, c2sClosed, cancelled>>
  BY <1>1, <1>5 DEF upVars
<1> QED
  BY <1>2, <1>3, <1>4, <1>5 DEF Next, HandlerChoice, CloserStep, ClientChoice, vars, chanVars, closeVars,
     ClientSendMsg, ClientRecvMsg, ClientHeader, ServerRecvMsg, ServerSetHeader, ServerSendMsg, ServerSendSelect,
     HandlerReturn, Deadline, WriteStatusHeader, WriteStatusErr, WriteStatusCloseFunc, WriteStatusClose,
     WriteStatusFlag

\* The error payload is the next one exactly when all messages before it have
\* been received.
LEMMA ErrHead ==
    ASSUME TypeInv, NEW p \in 1..Len(s2c), ErrAt(p)
    PROVE  /\ s2c # <<>>
           /\ Head(s2c) = Err <=> p = 1
           /\ p # 1 => Head(s2c) = Len(downRecv) + 1
<1>1. s2c \in Seq(Nat) /\ Len(s2c) \in Nat /\ Len(downRecv) \in Nat /\ p \in Nat /\ p >= 1
  BY DEF TypeInv
<1>2. s2c # <<>>
  BY <1>1, EmptySeq
<1>3. Head(s2c) = s2c[1]
  BY <1>1, <1>2, SeqTail
<1>4. p # 1 => 1 \in 1..(p - 1)
  BY <1>1
<1> QED
  BY <1>1, <1>2, <1>3, <1>4 DEF ErrAt, Err

\* Towards the client: messages in order, then the error.
LEMMA DownlinkStep == TypeInv /\ PhaseInv /\ DownlinkInv /\ [Next]_vars => DownlinkInv'
<1> SUFFICES ASSUME TypeInv, PhaseInv, DownlinkInv, [Next]_vars PROVE DownlinkInv'
  OBVIOUS
<1>0. /\ s2c \in Seq(Nat) /\ downRecv \in Seq(Nat) /\ downSent \in Nat
      /\ Len(s2c) \in Nat /\ Len(downRecv) \in Nat
  BY DEF TypeInv
<1>1. ASSUME UNCHANGED <<s2c, downRecv, crecv, downSent, errSent>> PROVE DownlinkInv'
  BY <1>1 DEF DownlinkInv, From, ErrAt
<1>2. CASE ServerSendSelect
  <2>1. UNCHANGED <<downRecv, crecv, errSent>>
    BY <1>2 DEF ServerSendSelect, downVars, clientVars, closerVars
  <2>2. CASE UNCHANGED <<s2c, downSent>>
    BY <1>1, <2>1, <2>2
  <2>3. CASE s2c' = Append(s2c, downSent + 1) /\ downSent' = IF errSent THEN downSent ELSE downSent + 1
    <3>1. /\ Len(s2c') = Len(s2c) + 1 /\ \A k \in 1..Len(s2c) : s2c'[k] = s2c[k]
      BY <1>0, <2>3, SeqAppend
    <3>2. CASE crecv = "open" /\ ~errSent
      <4>1. From(s2c, Len(downRecv)) /\ downSent = Len(downRecv) + Len(s2c)
        BY <3>2 DEF DownlinkInv
      <4>2. From(s2c', Len(downRecv)) /\ downSent' = Len(downRecv) + Len(s2c')
        BY <1>0, <2>3, <3>1, <3>2, <4>1, FromAppend
      <4> QED
        BY <1>0, <2>1, <3>2, <4>1, <4>2 DEF DownlinkInv
    <3>3. CASE crecv = "open" /\ errSent
      <4>1. PICK p \in 1..Len(s2c) : ErrAt(p)
        BY <3>3 DEF DownlinkInv
      <4>2. p \in 1..Len(s2c') /\ p \in 1..Len(s2c) /\ \A k \in 1..(p - 1) : k \in 1..Len(s2c)
        BY <1>0, <3>1, <4>1
      <4>3. ErrAt(p)'
        BY <2>1, <2>3, <3>1, <3>3, <4>1, <4>2 DEF ErrAt
      <4> QED
        BY <2>1, <2>3, <3>3, <4>2, <4>3 DEF DownlinkInv
    <3>4. CASE crecv # "open"
      BY <1>0, <2>1, <2>3, <3>4 DEF DownlinkInv
    <3> QED
      BY <3>2, <3>3, <3>4 DEF TypeInv
  <2> QED
    BY <1>2, <2>2, <2>3 DEF ServerSendSelect
<1>3. CASE WriteStatusErr
  <2>1. UNCHANGED <<downRecv, crecv, downSent>> /\ ~errSent
    BY <1>3 DEF WriteStatusErr, downVars, clientVars, PhaseInv, Closing
  <2>2. CASE UNCHANGED <<s2c, errSent>>
    BY <1>1, <2>1, <2>2
  <2>3. CASE s2c' = Append(s2c, Err) /\ errSent' = TRUE
    <3>1. Len(s2c') = Len(s2c) + 1 /\ s2c'[Len(s2c) + 1] = Err /\ \A k \in 1..Len(s2c) : s2c'[k] = s2c[k]
      BY <1>0, <2>3, SeqAppend DEF Err
    <3>2. CASE crecv = "open"
      <4>1. From(s2c, Len(downRecv)) /\ downSent = Len(downRecv) + Len(s2c)
        BY <2>1, <3>2 DEF DownlinkInv
      <4>2. PICK q \in Nat : q = Len(s2c) + 1
        BY <1>0
      <4>3. q \in 1..Len(s2c') /\ q - 1 = Len(s2c)
        BY <1>0, <3>1, <4>2
      <4>4. ErrAt(q)'
        <5>1. \A k \in 1..(q - 1) : s2c'[k] = Len(downRecv') + k
          BY <2>1, <3>1, <4>1, <4>3 DEF From
        <5>2. downSent' = Len(downRecv') + q - 1
          BY <1>0, <2>1, <4>1, <4>2
        <5> QED
          BY <3>1, <4>2, <5>1, <5>2 DEF ErrAt
      <4> QED
        BY <2>1, <2>3, <4>3, <4>4 DEF DownlinkInv, From
    <3>3. CASE crecv # "open"
      BY <2>1, <3>3 DEF DownlinkInv, From
    <3> QED
      BY <3>2, <3>3
  <2> QED
    BY <1>3, <2>2, <2>3 DEF WriteStatusErr
<1>4. CASE ClientRecvMsg
  <2>1. PICK o \in RecvOutcomes(s2c, s2cClosed) :
          /\ s2c' = IF o[1] THEN Tail(s2c) ELSE s2c
          /\ downRecv' = IF o[2] = "data" THEN Append(downRecv, Head(s2c)) ELSE downRecv
          /\ crecv' = IF o[2] = "data" THEN "open" ELSE o[2]
    BY <1>4 DEF ClientRecvMsg
  <2>2. crecv = "open" /\ UNCHANGED <<downSent, errSent>>
    BY <1>4 DEF ClientRecvMsg, closerVars
  <2>3. CASE o[2] # "data"
    <3>1. downRecv' = downRecv /\ crecv' # "open"
      BY <2>1, <2>3, RecvCases
    <3> QED
      BY <2>2, <3>1 DEF DownlinkInv, From
  <2>4. CASE o[2] = "data"
    <3>1. /\ s2c # <<>> /\ Head(s2c) # Err
          /\ s2c' = Tail(s2c) /\ downRecv' = Append(downRecv, Head(s2c)) /\ crecv' = "open"
      BY <2>1, <2>4, RecvCases
    <3>2. /\ Len(s2c) \in Nat \ {0} /\ Len(s2c') = Len(s2c) - 1 /\ Head(s2c) \in Nat
          /\ \A k \in 1..Len(s2c') : s2c'[k] = s2c[k + 1]
      BY <1>0, <3>1, SeqTail
    <3>3. ASSUME Head(s2c) = Len(downRecv) + 1
          PROVE  From(downRecv', 0) /\ Len(downRecv') = Len(downRecv) + 1
      BY <1>0, <3>1, <3>2, <3>3, SeqAppend DEF DownlinkInv, From
    <3>4. CASE ~errSent
      <4>1. From(s2c, Len(downRecv)) /\ downSent = Len(downRecv) + Len(s2c)
        BY <2>2, <3>4 DEF DownlinkInv
      <4>2. From(s2c', Len(downRecv) + 1) /\ Head(s2c) = Len(downRecv) + 1
        BY <1>0, <3>1, <4>1, FromTail
      <4>3. From(downRecv', 0) /\ Len(downRecv') = Len(downRecv) + 1
        BY <3>3, <4>2
      <4>4. downSent' = Len(downRecv') + Len(s2c') /\ Len(downRecv') <= downSent'
        BY <1>0, <2>2, <3>2, <4>1, <4>3
      <4> QED
        BY <2>2, <3>1, <3>4, <4>2, <4>3, <4>4 DEF DownlinkInv
    <3>5. CASE errSent
      <4>1. PICK p \in 1..Len(s2c) : ErrAt(p)
        BY <2>2, <3>5 DEF DownlinkInv
      <4>2. p # 1 /\ Head(s2c) = Len(downRecv) + 1
        BY <3>1, <4>1, ErrHead
      <4>3. From(downRecv', 0) /\ Len(downRecv') = Len(downRecv) + 1
        BY <3>3, <4>2
      <4>4. p - 1 \in 1..Len(s2c') /\ p \in Nat /\ p >= 2
        BY <1>0, <3>2, <4>1, <4>2
      <4>5. ErrAt(p - 1)'
        <5>1. s2c'[p - 1] = Err
          <6>1. s2c'[p - 1] = s2c[(p - 1) + 1] /\ (p - 1) + 1 = p
            BY <3>2, <4>4
          <6> QED
            BY <4>1, <6>1 DEF ErrAt
        <5>2. ASSUME NEW k \in 1..((p - 1) - 1) PROVE s2c'[k] = Len(downRecv') + k
          <6>1. k \in 1..Len(s2c') /\ k + 1 \in 1..(p - 1) /\ k \in Nat
            BY <3>2, <4>4, <5>2
          <6>2. s2c'[k] = Len(downRecv) + (k + 1)
            BY <3>2, <4>1, <6>1 DEF ErrAt
          <6> QED
            BY <1>0, <4>3, <6>1, <6>2
        <5>3. downSent' = Len(downRecv') + (p - 1) - 1
          BY <1>0, <2>2, <4>1, <4>3, <4>4 DEF ErrAt
        <5> QED
          BY <5>1, <5>2, <5>3 DEF ErrAt
      <4>6. Len(downRecv') <= downSent'
        BY <1>0, <2>2, <4>1, <4>3, <4>4 DEF ErrAt
      <4> QED
        BY <2>2, <3>1, <3>5, <4>3, <4>4, <4>5, <4>6 DEF DownlinkInv
    <3> QED
      BY <3>4, <3>5
  <2> QED
    BY <2>3, <2>4
<1>5. ASSUME NEW st \in {"nil", "error", "panic"}, HandlerReturn(st) PROVE DownlinkInv'
  BY <1>1, <1>5 DEF HandlerReturn, chanVars, clientVars, downVars
<1>6. CASE UNCHANGED <<s2c, downVars, crecv, errSent>>
  BY <1>1, <1>6 DEF downVars
<1> QED
  BY <1>2, <1>3, <1>4, <1>5, <1>6 DEF Next, HandlerChoice, CloserStep, ClientChoice, vars,
     chanVars, clientVars, closerVars,
     ClientSendMsg, ClientSendSelect, ClientCloseSend, ClientHeader, Cancel, ServerRecvMsg, ServerRecvSelect,
     ServerSetHeader, ServerSendMsg, Deadline, WriteStatusHeader, WriteStatusCloseFunc, WriteStatusClose,
     WriteStatusFlag, CloserCloseSend

\* The header goes out before a payload, the status and the close.
LEMMA HeaderStep == TypeInv /\ PhaseInv /\ DownlinkInv /\ HeaderInv /\ [Next]_vars => HeaderInv'
<1> SUFFICES ASSUME TypeInv, PhaseInv, DownlinkInv, HeaderInv, [Next]_vars PROVE HeaderInv'
  OBVIOUS
<1> USE DEF HeaderInv
<1>1. CASE ClientRecvMsg
  <2>1. PICK o \in RecvOutcomes(s2c, s2cClosed) : crecv' = IF o[2] = "data" THEN "open" ELSE o[2]
    BY <1>1 DEF ClientRecvMsg
  <2>2. crecv = "open" /\ UNCHANGED <<downSent, ssend, closer, headerVars>>
    BY <1>1 DEF ClientRecvMsg, handlerVars, closerVars
  <2>3. o[2] = "EOF" => closer \in Closing
    BY RecvCases DEF PhaseInv, TypeInv, Writing, Closing
  <2>4. o[2] = "error" => closer \in Closing
    <3> SUFFICES ASSUME o[2] = "error" PROVE errSent
      BY DEF PhaseInv
    <3>1. s2c # <<>> /\ Head(s2c) = Err
      BY RecvCases
    <3>2. s2c \in Seq(Nat) /\ Len(downRecv) \in Nat
      BY DEF TypeInv
    <3>3. From(s2c, Len(downRecv)) => Head(s2c) = Len(downRecv) + 1
      BY <3>1, <3>2, FromTail
    <3> QED
      BY <2>2, <3>1, <3>2, <3>3 DEF DownlinkInv, Err
  <2> QED
    BY <2>1, <2>2, <2>3, <2>4 DEF headerVars
<1>2. CASE ServerSendSelect
  BY <1>2 DEF ServerSendSelect, headerVars, clientVars, closerVars, Closing
<1>3. CASE ServerSendMsg
  BY <1>3 DEF ServerSendMsg, Closing, clientVars, closerVars, downVars
<1>4. CASE ServerSetHeader
  BY <1>4 DEF ServerSetHeader, clientVars, handlerVars, closerVars, downVars
<1>5. ASSUME NEW st \in {"nil", "error", "panic"}, HandlerReturn(st) PROVE HeaderInv'
  BY <1>5 DEF HandlerReturn, headerVars, clientVars, downVars, Closing
<1>6. CASE WriteStatusHeader
  BY <1>6 DEF WriteStatusHeader, Closing, clientVars, handlerVars, downVars
<1>7. CASE WriteStatusErr
  BY <1>7 DEF WriteStatusErr, Closing, headerVars, clientVars, handlerVars, downVars
<1>8. CASE WriteStatusCloseFunc \/ WriteStatusClose \/ WriteStatusFlag \/ CloserCloseSend
  BY <1>8 DEF WriteStatusCloseFunc, WriteStatusClose, WriteStatusFlag, CloserCloseSend,
     Closing, headerVars, clientVars, handlerVars, downVars
<1>9. CASE ClientHeader
  BY <1>9 DEF ClientHeader, clientVars, handlerVars, closerVars, downVars
<1>10. CASE ClientSendMsg \/ ClientSendSelect \/ ClientCloseSend \/ Cancel \/ ServerRecvMsg \/ ServerRecvSelect
  BY <1>10 DEF ClientSendMsg, ClientSendSelect, ClientCloseSend, Cancel, ServerRecvMsg, ServerRecvSelect,
     headerVars, clientVars, handlerVars, closerVars, downVars
<1>11. CASE Deadline
  BY <1>11 DEF Deadline, Closing, headerVars, clientVars, handlerVars, downVars
<1>12. CASE UNCHANGED vars
  BY <1>12 DEF vars, headerVars, clientVars, handlerVars, closerVars, downVars
<1> HIDE DEF HeaderInv
<1> QED
  BY <1>1, <1>2, <1>3, <1>4, <1>5, <1>6, <1>7, <1>8, <1>9, <1>10, <1>11, <1>12
     DEF Next, HandlerChoice, CloserStep, ClientChoice

LEMMA Inductive == IndInv /\ [Next]_vars => IndInv'
BY TypeStep, PhaseStep, UplinkStep, DownlinkStep, HeaderStep DEF IndInv

\* The inductive invariant holds in every reachable state of the stream.
THEOREM IndInvHolds == Spec => []IndInv
BY InitInd, Inductive, PTL DEF Spec

-----------------------------------------------------------------------------
\* No goroutine is inside a channel send while the channel is closed, so Send
\* never panics: the write lock of Close waits for a client inside SendMsg, and
\* for a handler that still sends while its deadline is reported.
THEOREM NoSendOnClosedChannelThm == Spec => []NoSendOnClosedChannel
<1>1. IndInv => NoSendOnClosedChannel
  BY DEF IndInv, PhaseInv, NoSendOnClosedChannel, Writing
<1> QED
  BY <1>1, IndInvHolds, PTL

\* Whatever errors the handler reads past, it receives the client's messages in
\* order and none twice, misses only those that a cancelled Recv took, and reads
\* io.EOF only after all that the client's SendMsg accepted; the client receives
\* in order and without gaps.
THEOREM UplinkFaithfulThm == Spec => []UplinkFaithful
<1>1. IndInv => UplinkFaithful
  <2> SUFFICES ASSUME IndInv PROVE UplinkFaithful
    OBVIOUS
  <2>0. Taken \in Nat /\ upSent \in Nat /\ Len(c2s) \in Nat
    BY DEF IndInv, TypeInv, UplinkInv
  <2>1. ASSUME NEW n \in Received, NEW m \in 1..n PROVE m \in Received \cup upDropped
    <3>1. n \in 1..Taken
      BY DEF IndInv, UplinkInv, Received
    <3>2. m \in 1..Taken
      BY <2>0, <2>1, <3>1
    <3> QED
      BY <3>2 DEF IndInv, UplinkInv
  <2>2. upEOF => \A m \in 1..upSent : m \in Received \cup upDropped
    <3>1. upEOF => Len(c2s) = 0
      BY EmptySeq DEF IndInv, UplinkInv
    <3>2. upEOF => Taken = upSent
      BY <2>0, <3>1 DEF Taken
    <3> QED
      BY <3>2 DEF IndInv, UplinkInv
  <2>3. \A k \in 1..Len(downRecv) : downRecv[k] = k
    BY DEF IndInv, DownlinkInv, From
  <2> QED
    BY <2>1, <2>2, <2>3 DEF UplinkFaithful, IndInv, UplinkInv
<1> QED
  BY <1>1, IndInvHolds, PTL

\* A client that has a message or a status finds the header sent, and the
\* header it has read is the header of the stream from then on.
THEOREM HeaderIsFinalThm == Spec => []HeaderIsFinal
<1>1. IndInv => HeaderIsFinal
  <2> SUFFICES ASSUME IndInv PROVE HeaderIsFinal
    OBVIOUS
  <2>1. downRecv # <<>> => downSent > 0
    <3>1. downRecv # <<>> => Len(downRecv) \in Nat \ {0}
      BY EmptySeq DEF IndInv, TypeInv
    <3> QED
      BY <3>1 DEF IndInv, TypeInv, DownlinkInv
  <2>2. crecv \in {"EOF", "error"} => closer \notin {"wait", "writeHeader"}
    BY DEF IndInv, HeaderInv, Closing
  <2> QED
    BY <2>1, <2>2 DEF IndInv, HeaderInv, HeaderIsFinal
<1> QED
  BY <1>1, IndInvHolds, PTL

-----------------------------------------------------------------------------
(* The client's view implements StreamDelivery *)

\* A receive of the client is a delivery or one of the three ends.
LEMMA RecvRefines == IndInv /\ ClientRecvMsg => Downlink!Next
<1> SUFFICES ASSUME IndInv, ClientRecvMsg PROVE Downlink!Next
  OBVIOUS
<1>1. PICK o \in RecvOutcomes(s2c, s2cClosed) :
        /\ downRecv' = IF o[2] = "data" THEN Append(downRecv, Head(s2c)) ELSE downRecv
        /\ crecv' = IF o[2] = "data" THEN "open" ELSE o[2]
  BY DEF ClientRecvMsg
<1>2. crecv = "open" /\ UNCHANGED <<downSent, status, errSent, s2cClosed, cancelled>>
  BY DEF ClientRecvMsg, closeVars, closerVars
<1>3. /\ Len(downRecv) \in Nat /\ Len(s2c) \in Nat /\ downSent \in Nat
      /\ s2c \in Seq(Nat) /\ downRecv \in Seq(Nat)
  BY DEF IndInv, TypeInv
<1>4. AbstractStatus' = AbstractStatus
  BY <1>2 DEF AbstractStatus
<1>5. errSent => \E p \in 1..Len(s2c) : ErrAt(p)
  BY <1>2 DEF IndInv, DownlinkInv
<1>6. ~errSent => From(s2c, Len(downRecv)) /\ downSent = Len(downRecv) + Len(s2c)
  BY <1>2 DEF IndInv, DownlinkInv
<1>7. CASE s2c # <<>> /\ Head(s2c) # Err /\ o[2] = "data"
  <2>1. Head(s2c) \in Nat /\ Len(s2c) \in Nat \ {0}
    BY <1>3, <1>7, SeqTail
  <2>2. Len(downRecv') = Len(downRecv) + 1 /\ crecv' = "open"
    BY <1>1, <1>3, <1>7, <2>1, SeqAppend
  <2>3. Len(downRecv) < downSent
    <3>1. CASE errSent
      <4>1. PICK p \in 1..Len(s2c) : ErrAt(p)
        BY <1>5, <3>1
      <4>2. p # 1
        BY <1>7, <4>1, ErrHead DEF IndInv
      <4> QED
        BY <1>3, <4>1, <4>2 DEF ErrAt
    <3>2. CASE ~errSent
      BY <1>3, <1>6, <2>1, <3>2
    <3> QED
      BY <3>1, <3>2
  <2> QED
    BY <1>2, <1>4, <2>2, <2>3 DEF Downlink!Next, Downlink!Deliver
<1>8. CASE s2c # <<>> /\ Head(s2c) = Err /\ o[2] = "error"
  <2>1. errSent
    <3>1. From(s2c, Len(downRecv)) => Head(s2c) = Len(downRecv) + 1
      BY <1>3, <1>8, FromTail
    <3> QED
      BY <1>3, <1>6, <1>8, <3>1 DEF Err
  <2>2. PICK p \in 1..Len(s2c) : ErrAt(p)
    BY <1>5, <2>1
  <2>3. p = 1
    BY <1>8, <2>2, ErrHead DEF IndInv
  <2>4. Len(downRecv) = downSent
    BY <1>3, <2>2, <2>3 DEF ErrAt
  <2>5. AbstractStatus = "error"
    BY <2>1 DEF IndInv, PhaseInv, Failed, AbstractStatus
  <2>6. downRecv' = downRecv /\ crecv' = "error"
    BY <1>1, <1>8
  <2> QED
    BY <1>2, <1>4, <2>4, <2>5, <2>6 DEF Downlink!Next, Downlink!EndWithStatus
<1>9. CASE s2c = <<>> /\ s2cClosed /\ o[2] = "EOF"
  <2>1. Len(s2c) = 0 /\ ~errSent
    <3>1. Len(s2c) = 0
      BY <1>9
    <3>2. \A p \in 1..Len(s2c) : FALSE
      BY <3>1
    <3> QED
      BY <1>5, <3>1, <3>2
  <2>2. closer \in Closing /\ status # "none"
    BY <1>9 DEF IndInv, PhaseInv, TypeInv, Writing, Closing
  <2>3. Len(downRecv) = downSent
    BY <1>3, <1>6, <2>1
  <2>4. AbstractStatus = "nil" \/ (AbstractStatus = "error" /\ cancelled)
    BY <1>9, <2>1, <2>2 DEF IndInv, TypeInv, PhaseInv, Failed, AbstractStatus
  <2>5. downRecv' = downRecv /\ crecv' = "EOF"
    BY <1>1, <1>9
  <2> QED
    BY <1>2, <1>4, <2>3, <2>4, <2>5 DEF Downlink!Next, Downlink!EndOfStream
<1>10. CASE cancelled /\ o[2] = "Canceled"
  <2>1. downRecv' = downRecv /\ crecv' = "Canceled"
    BY <1>1, <1>10
  <2> QED
    BY <1>2, <1>4, <1>10, <2>1 DEF Downlink!Next, Downlink!EndCancelled
<1> QED
  BY <1>7, <1>8, <1>9, <1>10, RecvCases

\* Every step of the stream is a step of StreamDelivery or leaves its variables
\* as they are.
LEMMA StepRefines == IndInv /\ [Next]_vars => [Downlink!Next]_(Downlink!vars)
<1> SUFFICES ASSUME IndInv, [Next]_vars PROVE [Downlink!Next]_(Downlink!vars)
  OBVIOUS
<1>0. ASSUME UNCHANGED <<downSent, downRecv, AbstractStatus, cancelled, crecv>>
      PROVE  UNCHANGED Downlink!vars
  BY <1>0 DEF Downlink!vars
<1>1. CASE ServerSendSelect
  <2>1. UNCHANGED <<downRecv, AbstractStatus, cancelled, crecv, errSent>>
    BY <1>1 DEF ServerSendSelect, closeVars, clientVars, closerVars, AbstractStatus
  <2>2. CASE downSent' = downSent + 1 /\ ~errSent
    <3>1. AbstractStatus = "none" /\ downSent < MaxMsgs
      BY <1>1, <2>2 DEF ServerSendSelect, IndInv, PhaseInv, AbstractStatus
    <3>2. Downlink!Accept
      BY <2>1, <2>2, <3>1 DEF Downlink!Accept
    <3> QED
      BY <3>2 DEF Downlink!Next
  <2>3. CASE UNCHANGED downSent
    BY <1>0, <2>1, <2>3
  <2> QED
    BY <1>1, <2>2, <2>3 DEF ServerSendSelect
<1>2. CASE ClientRecvMsg
  BY <1>2, RecvRefines
<1>3. CASE WriteStatusErr \/ WriteStatusClose
  <2>1. UNCHANGED <<downSent, downRecv, cancelled, crecv, status>> /\ status # "none"
    BY <1>3 DEF WriteStatusErr, WriteStatusClose, closeVars, clientVars, downVars, IndInv, PhaseInv
  <2>2. CASE UNCHANGED AbstractStatus
    BY <1>0, <2>1, <2>2
  <2>3. CASE AbstractStatus = "none" /\ AbstractStatus' \in {"nil", "error"}
    <3>1. Downlink!Return(AbstractStatus')
      BY <2>1, <2>3 DEF Downlink!Return
    <3> QED
      BY <2>3, <3>1 DEF Downlink!Next
  <2>4. AbstractStatus' \in {AbstractStatus, "nil", "error"}
    <3>1. AbstractStatus' \in {"none", "nil", "error"}
      BY <2>1 DEF IndInv, TypeInv, AbstractStatus
    <3>2. (errSent => errSent') /\ (s2cClosed => s2cClosed')
      BY <1>3 DEF WriteStatusErr, WriteStatusClose, closeVars
    <3>3. AbstractStatus' = "none" => AbstractStatus = "none"
      BY <2>1, <3>2 DEF AbstractStatus
    <3> QED
      BY <3>1, <3>3
  <2>5. AbstractStatus # "none" => UNCHANGED AbstractStatus
    BY <1>3, <2>1 DEF WriteStatusErr, WriteStatusClose, AbstractStatus, closeVars, IndInv, PhaseInv, Writing, Closing
  <2> QED
    BY <2>2, <2>3, <2>4, <2>5
<1>4. CASE Cancel
  <2>1. Downlink!Cancel
    BY <1>4 DEF Cancel, Downlink!Cancel, AbstractStatus, clientVars, closerVars, downVars
  <2> QED
    BY <2>1 DEF Downlink!Next
<1>5. ASSUME UNCHANGED <<downSent, downRecv, errSent, s2cClosed, cancelled, crecv>>,
             status # "none" => UNCHANGED status
      PROVE  UNCHANGED Downlink!vars
  <2>1. UNCHANGED AbstractStatus
    BY <1>5 DEF AbstractStatus, IndInv, PhaseInv, Failed, Writing, Closing
  <2> QED
    BY <1>0, <1>5, <2>1
<1>6. CASE ClientSendMsg \/ ClientSendSelect \/ ClientCloseSend \/ ClientHeader
  BY <1>5, <1>6 DEF ClientSendMsg, ClientSendSelect, ClientCloseSend, ClientHeader,
     closeVars, clientVars, closerVars, downVars
<1>7. CASE ServerRecvMsg \/ ServerRecvSelect \/ ServerSetHeader \/ ServerSendMsg
  BY <1>5, <1>7 DEF ServerRecvMsg, ServerRecvSelect, ServerSetHeader, ServerSendMsg,
     closeVars, clientVars, closerVars, downVars
<1>8. CASE Deadline \/ \E st \in {"nil", "error", "panic"} : HandlerReturn(st)
  BY <1>5, <1>8 DEF Deadline, HandlerReturn, closeVars, clientVars, closerVars, downVars, IndInv, PhaseInv
<1>9. CASE WriteStatusHeader \/ WriteStatusCloseFunc \/ WriteStatusFlag \/ CloserCloseSend
  BY <1>5, <1>9 DEF WriteStatusHeader, WriteStatusCloseFunc, WriteStatusFlag, CloserCloseSend,
     closeVars, clientVars, downVars
<1>10. CASE UNCHANGED vars
  BY <1>5, <1>10 DEF vars, closeVars, clientVars, closerVars, downVars
<1> QED
  BY <1>1, <1>2, <1>3, <1>4, <1>6, <1>7, <1>8, <1>9, <1>10
     DEF Next, HandlerChoice, CloserStep, ClientChoice

\* What the client reads from an in-process stream is a behaviour of
\* StreamDelivery: the messages accepted ahead of the status once and in order,
\* then the handler's status or that of its deadline, and success in its place
\* only if the context was cancelled.
THEOREM DownlinkDeliversThm == Spec => DownlinkDelivers
<1>1. Init => Downlink!Init
  BY DEF Init, Downlink!Init, AbstractStatus
<1> QED
  BY <1>1, StepRefines, IndInvHolds, PTL DEF Spec, DownlinkDelivers, Downlink!Spec
=============================================================================
