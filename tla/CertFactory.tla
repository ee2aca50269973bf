---------------------------- MODULE CertFactory ----------------------------
(* The certificate factory: Fetch looks a certificate up, decides whether   *)
(* it has to be renewed, and renews it now or in the background.  A renewal *)
(* registers a consumer with the factory's notifier, starts a goroutine     *)
(* that issues and stores the certificate and tells every consumer, and     *)
(* waits for the first result on a channel of capacity one.                 *)
(*                                                                          *)
(* The notifier tells all consumers of the factory about every request, and *)
(* tells them one after another outside its lock.  The model keeps each of  *)
(* these steps apart.  A certificate is abstracted to the time it has left: *)
(* more than the renewal period ("fresh"), more than a minute ("due"), less *)
(* ("old"), or there is none.  Module Credentials has the callers of Fetch. *)
EXTENDS Naturals, Sequences, FiniteSets, SequencesExt

CONSTANTS
    Fetchers,     \* goroutines that call Fetch (TLS handshakes, options)
    Tasks,        \* bound: renewals that may be under way at a time
    Requests,     \* the requests made to one factory
    IssuerFails,  \* whether the issuer may return an error
    TimesOut      \* whether ten seconds may pass during a renewal

ASSUME Assumptions == /\ {IssuerFails, TimesOut} \subseteq BOOLEAN
                      /\ "none" \notin Tasks \cup Requests \cup Fetchers
                      /\ Fetchers # {}

VARIABLES
    store,      \* request -> what is left of the stored certificate
    fetch,      \* fetcher -> step, request, policy, task it waits for, result
    ren,        \* task -> step, request, and the fetcher that waits, if any
    result,     \* task -> resultChan, a channel of capacity one
    consumers,  \* the notifier's consumers, in the order they registered
    prod        \* task -> step of its Produce goroutine, request, error, whom it has to tell

fvars == <<store, fetch, ren, result, consumers, prod>>

Left == {"fresh", "due", "old", "none"}
Capacity == 1

IdleFetch == [at |-> "idle", req |-> "none", policy |-> "default", cert |-> "unset"]
FreeTask == [at |-> "free", req |-> "none", waiter |-> "none", err |-> "none"]
NoProducer == [at |-> "end", req |-> "none", err |-> "none", tell |-> <<>>]

(* DefaultStore.Get under its lock: the certificate or an error. *)
Get(r) == IF store[r] = "none" THEN "error" ELSE store[r]

\* Faulty variant: a certificate in its last minute is renewed in the background.
RenewalActionLazy(policy, left) ==
    CASE left \in {"none", "error"} -> "now"
      [] policy = "norenewal" \/ left = "fresh" -> "no"
      [] OTHER -> "async"

(* The renewal hooks: what to do about the certificate that was found. *)
RenewalAction(policy, left) ==
    CASE left \in {"none", "error"} -> "now"
      [] policy = "norenewal" \/ left = "fresh" -> "no"
      [] left = "due" -> "async"
      [] OTHER -> "now"

(* A task that nothing refers to any more can stand for a new renewal. *)
Unused(t) ==
    /\ ren[t].at = "free" /\ prod[t].at = "end"
    /\ \A u \in Tasks : t \notin Range(prod[u].tell)

-----------------------------------------------------------------------------
(* Fetch up to its switch: look, decide, and return, renew or start a       *)
(* renewal in the background.                                               *)
Fetch(f, r, policy) ==
    /\ fetch[f].at = "idle"
    /\ LET found == Get(r)
           act   == RenewalAction(policy, found)
           call  == [at |-> "idle", req |-> r, policy |-> policy, cert |-> "unset"]
       IN \/ /\ act = "no"
             /\ fetch' = [fetch EXCEPT ![f] = [call EXCEPT !.cert = found]]
             /\ UNCHANGED <<ren, result>>
          \/ /\ act # "no"
             /\ \E t \in Tasks :
                  /\ Unused(t)
                  /\ ren' = [ren EXCEPT ![t] =
                        [at |-> "register", req |-> r, err |-> "none",
                         waiter |-> IF act = "now" THEN f ELSE "none"]]
                  /\ result' = [result EXCEPT ![t] = <<>>]
             /\ fetch' = [fetch EXCEPT ![f] =
                    [call EXCEPT !.at = IF act = "now" THEN "renew" ELSE "get"]]
    /\ UNCHANGED <<store, consumers, prod>>

(* Fetch's second look, after the switch. *)
FetchAgain(f) ==
    /\ fetch[f].at = "get"
    /\ fetch' = [fetch EXCEPT ![f].at = "idle", ![f].cert = Get(fetch[f].req)]
    /\ UNCHANGED <<store, ren, result, consumers, prod>>

\* Faulty variant: the consumer is never registered.
RenewUnregistered(t) ==
    /\ ren[t].at = "register"
    /\ prod' = [prod EXCEPT ![t] = [NoProducer EXCEPT !.at = "issue", !.req = ren[t].req]]
    /\ ren' = [ren EXCEPT ![t].at = "wait"]
    /\ UNCHANGED <<store, fetch, result, consumers>>

(* renewal: the consumer is registered before the producer is started.      *)
Renew(t) ==
    /\ ren[t].at = "register"
    /\ consumers' = Append(consumers, t)
    /\ prod' = [prod EXCEPT ![t] = [NoProducer EXCEPT !.at = "issue", !.req = ren[t].req]]
    /\ ren' = [ren EXCEPT ![t].at = "wait"]
    /\ UNCHANGED <<store, fetch, result>>

\* Faulty variant: no deadline on the wait.
AwaitForever(t) ==
    /\ ren[t].at = "wait"
    /\ result[t] # <<>> /\ prod[t].at = "end"
    /\ ren' = [ren EXCEPT ![t].at = "cancel", ![t].err = Head(result[t])]
    /\ result' = [result EXCEPT ![t] = Tail(@)]
    /\ UNCHANGED <<store, fetch, consumers, prod>>

(* The select of renewal: the first result, or the end of the ten seconds.  *)
Await(t) ==
    /\ ren[t].at = "wait"
    /\ \/ /\ result[t] # <<>>
          /\ ren' = [ren EXCEPT ![t].at = "cancel", ![t].err = Head(result[t])]
          /\ result' = [result EXCEPT ![t] = Tail(@)]
       \/ /\ TimesOut
          /\ ren' = [ren EXCEPT ![t].at = "cancel", ![t].err = "deadline"]
          /\ UNCHANGED result
    /\ UNCHANGED <<store, fetch, consumers, prod>>

(* renewal returns: the consumer, which was registered once, is taken out   *)
(* of the notifier, and a Fetch that waited goes on to its second look or   *)
(* returns the error.                                                       *)
EndRenewal(t) ==
    /\ ren[t].at = "cancel"
    /\ consumers' = RemoveFirst(consumers, t)
    /\ ren' = [ren EXCEPT ![t] = FreeTask]
    /\ fetch' = [f \in Fetchers |->
                    IF f # ren[t].waiter THEN fetch[f]
                    ELSE IF ren[t].err = "none" THEN [fetch[f] EXCEPT !.at = "get"]
                    ELSE [fetch[f] EXCEPT !.at = "idle", !.cert = "error"]]
    /\ UNCHANGED <<store, result, prod>>

-----------------------------------------------------------------------------
(* CreateCert: options, CA certificate and key, RSA key, request, signature *)
(* and export; every failure on the way is one error.                       *)
CreateCert == {"none"} \cup (IF IssuerFails THEN {"failed"} ELSE {})

(* Produce's receiver: the certificate is stored if issuing succeeded.      *)
Produce(t) ==
    /\ prod[t].at = "issue"
    /\ \E err \in CreateCert :
         /\ prod' = [prod EXCEPT ![t].at = "size", ![t].err = err]
         /\ store' = IF err = "none" THEN [store EXCEPT ![prod[t].req] = "fresh"] ELSE store
    /\ UNCHANGED <<fetch, ren, result, consumers>>

(* notifier.Consume: nothing to do without consumers, else a copy of them.  *)
Consume(t) ==
    /\ \/ prod[t].at = "size" /\ prod' = [prod EXCEPT ![t] = IF consumers = <<>> THEN NoProducer ELSE [@ EXCEPT !.at = "copy"]]
       \/ prod[t].at = "copy" /\ prod' = [prod EXCEPT ![t].at = "tell", ![t].tell = consumers]
    /\ UNCHANGED <<store, fetch, ren, result, consumers>>

(* The copy is told one by one; a send waits until the channel has room.    *)
Tell(t) ==
    /\ prod[t].at = "tell"
    /\ IF prod[t].tell = <<>>
       THEN /\ prod' = [prod EXCEPT ![t] = NoProducer]
            /\ UNCHANGED result
       ELSE LET c == Head(prod[t].tell) IN
            /\ Len(result[c]) < Capacity
            /\ result' = [result EXCEPT ![c] = Append(@, prod[t].err)]
            /\ prod' = [prod EXCEPT ![t].tell = Tail(@)]
    /\ UNCHANGED <<store, fetch, ren, consumers>>

(* Time passes for a stored certificate.  The limits are days and a minute, *)
(* a renewal lasts ten seconds: no certificate ages before all goroutines   *)
(* are through, but for those that wait for a channel nobody reads.         *)
Stuck(t) ==
    /\ prod[t].at = "tell" /\ prod[t].tell # <<>>
    /\ LET c == Head(prod[t].tell) IN ren[c].at = "free" /\ Len(result[c]) = Capacity

Age(r) ==
    /\ \A f \in Fetchers : fetch[f].at = "idle"
    /\ \A t \in Tasks : ren[t].at = "free" /\ (prod[t].at = "end" \/ Stuck(t))
    /\ store[r] \in {"fresh", "due"}
    /\ store' = [store EXCEPT ![r] = IF @ = "fresh" THEN "due" ELSE "old"]
    /\ fetch' = [f \in Fetchers |-> IdleFetch]
    /\ UNCHANGED <<ren, result, consumers, prod>>

FInit ==
    /\ store = [r \in Requests |-> "none"]
    /\ fetch = [f \in Fetchers |-> IdleFetch]
    /\ ren = [t \in Tasks |-> FreeTask]
    /\ result = [t \in Tasks |-> <<>>]
    /\ consumers = <<>>
    /\ prod = [t \in Tasks |-> NoProducer]

(* The steps of a renewal: those of renewal itself and those of Produce.    *)
RenewalStep(t) == Renew(t) \/ Await(t) \/ EndRenewal(t)
ProduceStep(t) == Produce(t) \/ Consume(t) \/ Tell(t)

(* Goroutines run and the ten seconds end; nobody has to call Fetch.        *)
FetchFairness ==
    /\ \A f \in Fetchers : WF_fvars(FetchAgain(f))
    /\ \A t \in Tasks : WF_fvars(RenewalStep(t))
    /\ \A t \in Tasks : WF_fvars(ProduceStep(t))

-----------------------------------------------------------------------------
(* No wake-up is lost: once a renewal's own producer is through, the result *)
(* is in its channel or has been taken.  (factory.go registers the consumer *)
(* before it starts Produce, and Consume copies the list after that.)       *)
NoLostResult ==
    \A t \in Tasks : ren[t].at = "wait" /\ prod[t].at = "end" => result[t] # <<>>

(* Fetch with the default policy never returns a certificate that expires   *)
(* within the minute, and with any policy never nothing without an error:   *)
(* what it renewed "now" is in the store when it looks again.               *)
ReturnsUsable ==
    \A f \in Fetchers :
        fetch[f].at = "idle" /\ fetch[f].cert \notin {"unset", "error"}
            => fetch[f].cert # "none" /\ (fetch[f].policy = "default" => fetch[f].cert # "old")

(* Every Fetch returns: a blocked or failing producer costs a deadline.     *)
FetchReturns == \A f \in Fetchers : fetch[f].at # "idle" ~> fetch[f].at = "idle"
=============================================================================
