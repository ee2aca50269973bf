--------------------------- MODULE StreamDelivery ---------------------------
(***************************************************************************)
(* What a client may rely on when it reads from an in-process stream,      *)
(* whatever goroutines and channels implement it: messages arrive once and *)
(* in order, the handler's status arrives only after all of them, and the  *)
(* stream reads as cancelled only if its context was cancelled.            *)
(***************************************************************************)
EXTENDS Integers

CONSTANT MaxMsgs    \* bound on the messages of one direction

VARIABLES
    sent,       \* messages the handler's SendMsg accepted
    recv,       \* messages the client has received
    status,     \* the handler's status: "none" while it runs, "nil" or "error"
    cancelled,  \* the client's context is done
    end         \* what ended the client's reading, "open" before that

vars == <<sent, recv, status, cancelled, end>>

Init == sent = 0 /\ recv = 0 /\ status = "none" /\ ~cancelled /\ end = "open"

Accept ==
    /\ status = "none" /\ sent < MaxMsgs
    /\ sent' = sent + 1
    /\ UNCHANGED <<recv, status, cancelled, end>>

Deliver ==
    /\ end = "open" /\ recv < sent
    /\ recv' = recv + 1
    /\ UNCHANGED <<sent, status, cancelled, end>>

Return(st) ==
    /\ status = "none"
    /\ status' = st
    /\ UNCHANGED <<sent, recv, cancelled, end>>

Cancel ==
    /\ cancelled' = TRUE
    /\ UNCHANGED <<sent, recv, status, end>>

\* A clean end of stream reports success; only a cancelled stream may report
\* it although the handler failed, because the error was dropped.
EndOfStream ==
    /\ end = "open" /\ recv = sent
    /\ status = "nil" \/ (status = "error" /\ cancelled)
    /\ end' = "EOF"
    /\ UNCHANGED <<sent, recv, status, cancelled>>

EndWithStatus ==
    /\ end = "open" /\ recv = sent
    /\ status = "error"
    /\ end' = "error"
    /\ UNCHANGED <<sent, recv, status, cancelled>>

EndCancelled ==
    /\ end = "open" /\ cancelled
    /\ end' = "Canceled"
    /\ UNCHANGED <<sent, recv, status, cancelled>>

Next ==
    \/ Accept \/ Deliver \/ Cancel
    \/ \E st \in {"nil", "error"} : Return(st)
    \/ EndOfStream \/ EndWithStatus \/ EndCancelled

Spec == Init /\ [][Next]_vars
=============================================================================
