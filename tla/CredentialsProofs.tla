------------------------- MODULE CredentialsProofs -------------------------
(* For any number of callers of Fetch, of renewals and of settings: no      *)
(* renewal misses the result of its own producer, a certificate renewed at  *)
(* once is usable when Fetch looks again, and an open connection was vetted *)
(* as both sides asked.                                                     *)
EXTENDS Credentials, SequenceTheorems, TLAPS

Policies == {"default", "norenewal"}
Errors == {"none", "failed", "deadline"}
Results == {<<>>} \cup {<<e>> : e \in Errors}

FetchType == [at : {"idle", "renew", "get"}, req : Requests \cup {"none"}, policy : Policies,
              cert : Left \cup {"unset", "error"}]
RenType == [at : {"free", "register", "wait", "cancel"}, req : Requests \cup {"none"},
            waiter : Fetchers \cup {"none"}, err : Errors]
ProdType == [at : {"issue", "size", "copy", "tell", "end"}, req : Requests \cup {"none"},
             err : Errors, tell : Seq(Tasks)]

FTypeInv ==
    /\ store \in [Requests -> Left]
    /\ fetch \in [Fetchers -> FetchType]
    /\ ren \in [Tasks -> RenType]
    /\ result \in [Tasks -> Results]
    /\ consumers \in Seq(Tasks)
    /\ prod \in [Tasks -> ProdType]

(* A sequence without duplicates.                                           *)
Once(s) == \A i, j \in DOMAIN s : s[i] = s[j] => i = j

(* A renewal is among the notifier's consumers, once, from the time it is   *)
(* registered to the time it returns.                                       *)
ConsumersInv ==
    /\ Once(consumers)
    /\ \A t \in Tasks : t \in Range(consumers) <=> ren[t].at \in {"wait", "cancel"}

(* What a waiting renewal can count on: its own producer has not yet copied *)
(* the consumers, or it is still to be told, or it has been told something. *)
WakeInv ==
    \A t \in Tasks : ren[t].at = "wait" =>
        \/ prod[t].at \in {"issue", "size", "copy"}
        \/ prod[t].at = "tell" /\ t \in Range(prod[t].tell)
        \/ result[t] # <<>>

(* Every renewal and every producer at work has a request.                  *)
ReqInv ==
    /\ \A t \in Tasks : ren[t].at # "free" => ren[t].req \in Requests
    /\ \A t \in Tasks : prod[t].at = "issue" => prod[t].req \in Requests
    /\ \A f \in Fetchers : fetch[f].at # "idle" => fetch[f].req \in Requests
    /\ \A t \in Tasks : ren[t].at # "free" /\ ren[t].waiter # "none" =>
            fetch[ren[t].waiter].req \in Requests

(* Whoever says that a certificate was issued, the producer, the channel or *)
(* the renewal that returns, the store still has it fresh while somebody    *)
(* may act upon it: what ages waits until all of them are through.          *)
Fresh == \A r \in Requests : store[r] = "fresh"
FreshInv ==
    /\ \A u \in Tasks : prod[u].err = "none" /\ prod[u].at \in {"size", "copy"} => Fresh
    /\ \A u, t \in Tasks :
          prod[u].err = "none" /\ t \in Range(prod[u].tell) /\ ren[t].at # "free" => Fresh
    /\ \A t \in Tasks : ren[t].at \in {"register", "wait"} /\ result[t] = <<"none">> => Fresh
    /\ \A t \in Tasks : ren[t].at = "cancel" /\ ren[t].err = "none" => Fresh
    /\ \A f \in Fetchers : fetch[f].at = "get" => store[fetch[f].req] \in {"fresh", "due"}

(* A factory that is asked for one kind of certificate.                     *)
OneRequest == \A r, s \in Requests : r = s

FactoryInv == FTypeInv /\ ConsumersInv /\ WakeInv /\ ReqInv
UsableInv == FreshInv /\ ReturnsUsable

-----------------------------------------------------------------------------
(* The notifier's list.                                                     *)

LEMMA RangeEmpty == Range(<<>>) = {}
  BY DEF Range

LEMMA AppendOnce ==
    ASSUME NEW S, NEW s \in Seq(S), NEW e \in S
    PROVE  /\ Append(s, e) \in Seq(S)
           /\ Range(Append(s, e)) = Range(s) \cup {e}
           /\ Once(s) /\ e \notin Range(s) => Once(Append(s, e))
<1>1. Len(s) \in Nat /\ DOMAIN s = 1..Len(s)
  OBVIOUS
<1>2. /\ Append(s, e) \in Seq(S) /\ DOMAIN Append(s, e) = 1..(Len(s) + 1)
      /\ \A i \in 1..Len(s) : Append(s, e)[i] = s[i]
      /\ Append(s, e)[Len(s) + 1] = e
  BY AppendProperties
<1>3. ASSUME Once(s), e \notin Range(s) PROVE Once(Append(s, e))
  <2>1. \A i \in 1..Len(s) : s[i] # e
    BY <1>1, <1>3 DEF Range
  <2> QED
    BY <1>1, <1>2, <1>3, <2>1 DEF Once
<1>4. Range(Append(s, e)) \subseteq Range(s) \cup {e}
  BY <1>1, <1>2 DEF Range
<1>5. Range(s) \cup {e} \subseteq Range(Append(s, e))
  BY <1>1, <1>2 DEF Range
<1> QED
  BY <1>2, <1>3, <1>4, <1>5

LEMMA HeadTailRange ==
    ASSUME NEW S, NEW s \in Seq(S), s # <<>>
    PROVE  /\ Head(s) \in S /\ Tail(s) \in Seq(S)
           /\ Range(s) = {Head(s)} \cup Range(Tail(s))
<1>1. /\ Len(s) \in Nat \ {0} /\ DOMAIN s = 1..Len(s) /\ Head(s) = s[1]
  BY EmptySeq, HeadTailProperties
<1>2. /\ Head(s) \in S /\ Tail(s) \in Seq(S) /\ DOMAIN Tail(s) = 1..(Len(s) - 1)
      /\ \A i \in 1..(Len(s) - 1) : Tail(s)[i] = s[i + 1]
  BY <1>1, HeadTailProperties
<1>3. Range(s) \subseteq {Head(s)} \cup Range(Tail(s))
  <2> SUFFICES ASSUME NEW i \in 1..Len(s), i # 1 PROVE s[i] \in Range(Tail(s))
    BY <1>1 DEF Range
  <2>1. i - 1 \in 1..(Len(s) - 1) /\ (i - 1) + 1 = i
    BY <1>1
  <2> QED
    BY <1>2, <2>1 DEF Range
<1>4. Range(Tail(s)) \subseteq Range(s)
  <2> SUFFICES ASSUME NEW i \in 1..(Len(s) - 1) PROVE s[i + 1] \in Range(s)
    BY <1>2 DEF Range
  <2> QED
    BY <1>1 DEF Range
<1>5. Head(s) \in Range(s)
  BY <1>1 DEF Range
<1> QED
  BY <1>2, <1>3, <1>4, <1>5

(* A consumer that was registered once is gone after its removal, and       *)
(* nobody else is.                                                          *)
LEMMA RemoveOnce ==
    ASSUME NEW S, NEW s \in Seq(S), Once(s), NEW e \in Range(s)
    PROVE  /\ RemoveFirst(s, e) \in Seq(S)
           /\ Once(RemoveFirst(s, e))
           /\ Range(RemoveFirst(s, e)) = Range(s) \ {e}
<1> DEFINE n == Len(s)
<1>1. n \in Nat /\ DOMAIN s = 1..n
  OBVIOUS
<1>2. PICK p \in 1..n : s[p] = e
  BY <1>1 DEF Range
<1>3. \A i \in 1..n : s[i] = e <=> i = p
  BY <1>1, <1>2 DEF Once
<1> DEFINE before == SubSeq(s, 1, p - 1)
           after == SubSeq(s, p + 1, n)
           rest == before \o after
<1>4. RemoveFirst(s, e) = rest
  <2>1. {i \in 1..n : s[i] = e} = {p}
    BY <1>2, <1>3
  <2>2. Min({p}) = p
    BY <1>2 DEF Min
  <2>3. RemoveFirst(s, e) = RemoveAt(s, p)
    BY <1>1, <1>2, <2>1, <2>2 DEF RemoveFirst, SelectInSeq
  <2> QED
    BY <2>3 DEF RemoveAt
<1>5. /\ before \in Seq(S) /\ Len(before) = p - 1
      /\ \A i \in 1..(p - 1) : before[i] = s[i]
  BY <1>1, <1>2, SubSeqProperties
<1>6. /\ after \in Seq(S) /\ Len(after) = n - p
      /\ \A i \in 1..(n - p) : after[i] = s[i + p]
  <2>1. after \in Seq(S) /\ Len(after) = IF p + 1 <= n THEN n - (p + 1) + 1 ELSE 0
    BY <1>1, <1>2, SubSeqProperties
  <2>2. \A i \in 1..(n - (p + 1) + 1) : after[i] = s[(p + 1) + i - 1]
    BY <1>1, <1>2, SubSeqProperties
  <2>3. ASSUME NEW i \in 1..(n - p) PROVE i \in 1..(n - (p + 1) + 1) /\ (p + 1) + i - 1 = i + p
    BY <1>1, <1>2
  <2> HIDE DEF after
  <2>4. Len(after) = n - p
    <3>1. \A a \in Nat : \A b \in 1..a : (IF b + 1 <= a THEN a - (b + 1) + 1 ELSE 0) = a - b
      OBVIOUS
    <3> QED
      BY <1>1, <2>1, <3>1, Zenon
  <2>5. ASSUME NEW i \in 1..(n - p) PROVE after[i] = s[i + p]
    BY <2>2, <2>3
  <2> QED
    BY <2>1, <2>4, <2>5
<1> HIDE DEF before, after
<1>7. /\ rest \in Seq(S) /\ DOMAIN rest = 1..(n - 1)
      /\ \A i \in 1..(n - 1) : rest[i] = IF i < p THEN s[i] ELSE s[i + 1]
  <2>1. rest \in Seq(S) /\ Len(rest) = (p - 1) + (n - p)
    <3>1. rest \in Seq(S) /\ Len(rest) = Len(before) + Len(after)
      BY <1>5, <1>6, ConcatProperties, Zenon
    <3> QED
      BY <1>5, <1>6, <3>1, Zenon
  <2>2. \A i \in 1..((p - 1) + (n - p)) :
            rest[i] = IF i <= p - 1 THEN before[i] ELSE after[i - (p - 1)]
    <3>1. \A i \in 1..(Len(before) + Len(after)) :
              rest[i] = IF i <= Len(before) THEN before[i] ELSE after[i - Len(before)]
      BY <1>5, <1>6, ConcatProperties, Zenon
    <3>2. Len(before) = p - 1 /\ Len(after) = n - p
      BY <1>5, <1>6
    <3> HIDE DEF before, after, rest
    <3> QED
      BY <3>1, <3>2, Zenon
  <2>3. (p - 1) + (n - p) = n - 1
    BY <1>1, <1>2
  <2> HIDE DEF rest
  <2>4. ASSUME NEW i \in 1..(n - 1) PROVE rest[i] = IF i < p THEN s[i] ELSE s[i + 1]
    <3>1. CASE i < p
      <4>1. i <= p - 1 /\ i \in 1..(p - 1)
        BY <1>1, <1>2, <3>1
      <4> QED
        BY <1>5, <2>2, <2>3, <3>1, <4>1
    <3>2. CASE ~ (i < p)
      <4>1. i - (p - 1) \in 1..(n - p) /\ (i - (p - 1)) + p = i + 1 /\ ~ (i <= p - 1)
        BY <1>1, <1>2, <3>2
      <4>2. after[i - (p - 1)] = s[i + 1]
        BY <1>6, <4>1
      <4> QED
        BY <2>2, <2>3, <3>2, <4>1, <4>2
    <3> QED
      BY <3>1, <3>2
  <2>5. DOMAIN rest = 1..(n - 1)
    BY <2>1, <2>3
  <2> QED
    BY <2>1, <2>4, <2>5
<1> HIDE DEF rest
<1>8. Once(rest)
  <2> SUFFICES ASSUME NEW i \in 1..(n - 1), NEW j \in 1..(n - 1), rest[i] = rest[j]
               PROVE  i = j
    BY <1>7 DEF Once
  <2> DEFINE at(k) == IF k < p THEN k ELSE k + 1
  <2>1. at(i) \in 1..n /\ at(j) \in 1..n /\ rest[i] = s[at(i)] /\ rest[j] = s[at(j)]
    BY <1>1, <1>2, <1>7
  <2>2. at(i) = at(j)
    BY <1>1, <2>1 DEF Once
  <2> QED
    BY <1>1, <1>2, <2>2
<1>9. Range(rest) \subseteq Range(s) \ {e}
  <2> SUFFICES ASSUME NEW i \in 1..(n - 1) PROVE rest[i] \in Range(s) \ {e}
    BY <1>7 DEF Range
  <2>1. PICK k \in 1..n : k # p /\ rest[i] = s[k]
    BY <1>1, <1>2, <1>7
  <2> QED
    BY <1>1, <1>3, <2>1 DEF Range
<1>10. Range(s) \ {e} \subseteq Range(rest)
  <2> SUFFICES ASSUME NEW k \in 1..n, s[k] # e PROVE s[k] \in Range(rest)
    BY <1>1 DEF Range
  <2>1. k # p
    BY <1>2
  <2>2. PICK i \in 1..(n - 1) : rest[i] = s[k]
    <3>1. CASE k < p
      <4>1. k \in 1..(n - 1)
        BY <1>1, <1>2, <3>1
      <4> QED
        BY <1>7, <3>1, <4>1
    <3>2. CASE k > p
      <4>1. k - 1 \in 1..(n - 1) /\ ~ (k - 1 < p) /\ (k - 1) + 1 = k
        BY <1>1, <1>2, <3>2
      <4> QED
        BY <1>7, <4>1
    <3> QED
      BY <1>1, <1>2, <2>1, <3>1, <3>2
  <2> QED
    BY <1>7, <2>2 DEF Range
<1> QED
  BY <1>4, <1>7, <1>8, <1>9, <1>10

-----------------------------------------------------------------------------
(* What a step of the composition does to the factory.                      *)

FStep ==
    \/ UNCHANGED fvars
    \/ \E f \in Fetchers, r \in Requests, p \in Policies : Fetch(f, r, p)
    \/ \E f \in Fetchers : FetchAgain(f)
    \/ \E t \in Tasks : RenewalStep(t) \/ ProduceStep(t)
    \/ \E r \in Requests : Age(r)

LEMMA FStepOfNext ==
    ASSUME setup \in DOMAIN Setups, [Next]_vars
    PROVE  FStep
<1> USE DEF FStep
<1>1. CASE UNCHANGED vars
  BY <1>1 DEF vars
<1>2. ASSUME NEW f \in Fetchers, NEW r \in Requests, NEW p \in Settings.free, Fetch(f, r, p)
      PROVE  FStep
  BY <1>2, SetupsAssumption DEF Settings, Policies
<1>3. CASE Listen \/ ListenFetched
  <2>1. CASE UNCHANGED fvars
    BY <2>1
  <2>2. ASSUME NEW r \in Requests, Fetch(Opener, r, "default") PROVE FStep
    <3>1. Opener \in Fetchers
      BY Assumptions DEF Opener, Handshakes
    <3> QED
      BY <2>2, <3>1 DEF Policies
  <2> QED
    BY <1>3, <2>1, <2>2 DEF Listen, ListenFetched
<1>4. ASSUME NEW h \in Handshakes, Connect(h) PROVE FStep
  <2>1. CASE UNCHANGED fvars
    BY <2>1
  <2>2. ASSUME NEW r \in Requests,
               Fetch(h, r, "default") \/ Fetch(h, r, "norenewal")
        PROVE  FStep
    BY <2>2 DEF Policies, Handshakes
  <2> QED
    BY <1>4, <2>1, <2>2 DEF Connect
<1>5. ASSUME NEW h \in Handshakes,
             CertFetched(h) \/ ClientVerify(h) \/ ServerVerify(h) \/ PeerTlsInfo(h)
      PROVE  FStep
  BY <1>5 DEF CertFetched, ClientVerify, ServerVerify, PeerTlsInfo
<1>6. ASSUME NEW h \in Handshakes, NEW k, Dial(h, k) \/ PeerTlsInfoToMeta(h, k) PROVE FStep
  BY <1>6 DEF Dial, PeerTlsInfoToMeta
<1>7. ASSUME NEW key, SetDefaultPublicKey(key) PROVE FStep
  BY <1>7 DEF SetDefaultPublicKey
<1>8. CASE Rotate
  BY <1>8 DEF Rotate
<1> QED
  BY <1>1, <1>2, <1>3, <1>4, <1>5, <1>6, <1>7, <1>8 DEF Next, ShakeStep

(* A channel of capacity one: what is in it can be taken, and it has room   *)
(* only if it is empty.                                                     *)
LEMMA ResultTaken ==
    ASSUME NEW x \in Results, x # <<>>
    PROVE  /\ Head(x) \in Errors /\ Tail(x) = <<>>
           /\ x = <<Head(x)>>
<1>1. PICK e \in Errors : x = <<e>>
  BY DEF Results
<1>2. Head(<<e>>) = e /\ Tail(<<e>>) = <<>>
  OBVIOUS
<1> QED
  BY <1>1, <1>2

LEMMA NoRoom ==
    ASSUME NEW x \in Results, Len(x) < Capacity
    PROVE  x = <<>>
<1>1. ASSUME NEW e PROVE Len(<<e>>) = 1
  OBVIOUS
<1> QED
  BY <1>1 DEF Results, Capacity

(* The values of the factory's variables.                                   *)
LEMMA FTypeNext ==
    ASSUME FactoryInv, FStep
    PROVE  FTypeInv'
<1> USE DEF FactoryInv, FTypeInv
<1>1. CASE UNCHANGED fvars
  BY <1>1 DEF fvars
<1>2. ASSUME NEW f \in Fetchers, NEW r \in Requests, NEW p \in Policies, Fetch(f, r, p)
      PROVE  FTypeInv'
  <2>1. Get(r) \in Left \cup {"unset", "error"}
    BY DEF Get, Left
  <2> DEFINE call(at, cert) == [at |-> at, req |-> r, policy |-> p, cert |-> cert]
  <2>2. PICK at \in {"idle", "renew", "get"}, cert \in {"unset", Get(r)} :
            fetch' = [fetch EXCEPT ![f] = call(at, cert)]
    BY <1>2 DEF Fetch
  <2>3. call(at, cert) \in FetchType
    BY <2>1, <2>2 DEF FetchType
  <2>4. fetch' \in [Fetchers -> FetchType]
    BY <2>2, <2>3
  <2>5. \/ UNCHANGED <<ren, result>>
        \/ \E t \in Tasks, w \in {f, "none"} :
              /\ ren' = [ren EXCEPT ![t] = [at |-> "register", req |-> r, err |-> "none", waiter |-> w]]
              /\ result' = [result EXCEPT ![t] = <<>>]
    BY <1>2 DEF Fetch
  <2>6. \A w \in {f, "none"} : [at |-> "register", req |-> r, err |-> "none", waiter |-> w] \in RenType
    BY DEF RenType, Errors
  <2>7. ren' \in [Tasks -> RenType] /\ result' \in [Tasks -> Results]
    BY <2>5, <2>6 DEF Results
  <2> QED
    BY <1>2, <2>4, <2>7 DEF Fetch
<1>3. ASSUME NEW f \in Fetchers, FetchAgain(f) PROVE FTypeInv'
  <2> DEFINE cert == Get(fetch[f].req)
  <2>1. cert \in Left \cup {"unset", "error"}
    BY <1>3 DEF FetchAgain, ReqInv, Get, Left
  <2>2. fetch' = [fetch EXCEPT ![f] = [fetch[f] EXCEPT !.at = "idle", !.cert = cert]]
    BY <1>3 DEF FetchAgain
  <2>3. [fetch[f] EXCEPT !.at = "idle", !.cert = cert] \in FetchType
    BY <2>1 DEF FetchType
  <2> QED
    BY <1>3, <2>2, <2>3 DEF FetchAgain
<1>4. ASSUME NEW t \in Tasks, Renew(t) PROVE FTypeInv'
  <2>1. consumers' \in Seq(Tasks)
    BY <1>4, AppendOnce DEF Renew
  <2>2. prod' \in [Tasks -> ProdType]
    <3>1. [NoProducer EXCEPT !.at = "issue", !.req = ren[t].req] \in ProdType
      BY EmptySeq DEF NoProducer, ProdType, RenType, Errors
    <3> QED
      BY <1>4, <3>1 DEF Renew
  <2>3. ren' \in [Tasks -> RenType]
    BY <1>4 DEF Renew, RenType
  <2> QED
    BY <1>4, <2>1, <2>2, <2>3 DEF Renew
<1>5. ASSUME NEW t \in Tasks, Await(t) PROVE FTypeInv'
  <2>1. result[t] # <<>> => Head(result[t]) \in Errors /\ Tail(result[t]) = <<>>
    BY ResultTaken
  <2>2. ren' \in [Tasks -> RenType]
    <3>1. PICK err \in Errors : ren' = [ren EXCEPT ![t].at = "cancel", ![t].err = err]
      BY <1>5, <2>1 DEF Await, Errors
    <3> QED
      BY <3>1 DEF RenType
  <2>3. result' = [result EXCEPT ![t] = <<>>] \/ result' = result
    BY <1>5, <2>1 DEF Await
  <2>4. result' \in [Tasks -> Results]
    BY <2>3 DEF Results
  <2> QED
    BY <1>5, <2>2, <2>4 DEF Await
<1>6. ASSUME NEW t \in Tasks, EndRenewal(t) PROVE FTypeInv'
  <2>1. consumers' \in Seq(Tasks)
    BY <1>6, RemoveOnce DEF EndRenewal, ConsumersInv
  <2>2. FreeTask \in RenType
    BY DEF FreeTask, RenType, Errors
  <2>3. ren' \in [Tasks -> RenType]
    BY <1>6, <2>2 DEF EndRenewal
  <2>4. ASSUME NEW f \in Fetchers
        PROVE  /\ [fetch[f] EXCEPT !.at = "get"] \in FetchType
               /\ [fetch[f] EXCEPT !.at = "idle", !.cert = "error"] \in FetchType
    BY DEF FetchType
  <2>5. fetch' \in [Fetchers -> FetchType]
    BY <1>6, <2>4 DEF EndRenewal
  <2> QED
    BY <1>6, <2>1, <2>3, <2>5 DEF EndRenewal
<1>7. ASSUME NEW t \in Tasks, Produce(t) PROVE FTypeInv'
  <2>1. PICK err \in Errors :
          /\ prod' = [prod EXCEPT ![t].at = "size", ![t].err = err]
          /\ store' = IF err = "none" THEN [store EXCEPT ![prod[t].req] = "fresh"] ELSE store
    BY <1>7 DEF Produce, CreateCert, Errors
  <2>2. prod' \in [Tasks -> ProdType]
    BY <2>1 DEF ProdType
  <2>3. store' \in [Requests -> Left]
    BY <2>1 DEF Left
  <2> QED
    BY <1>7, <2>2, <2>3 DEF Produce
<1>8. ASSUME NEW t \in Tasks, Consume(t) PROVE FTypeInv'
  <2>1. NoProducer \in ProdType
    BY EmptySeq DEF NoProducer, ProdType, Errors
  <2>2. prod' \in [Tasks -> ProdType]
    <3>1. [prod[t] EXCEPT !.at = "copy"] \in ProdType
      BY DEF ProdType
    <3>2. [prod[t] EXCEPT !.at = "tell", !.tell = consumers] \in ProdType
      BY DEF ProdType
    <3>3. \E x \in ProdType : prod' = [prod EXCEPT ![t] = x]
      BY <1>8, <2>1, <3>1, <3>2 DEF Consume
    <3> QED
      BY <3>3
  <2> QED
    BY <1>8, <2>2 DEF Consume
<1>9. ASSUME NEW t \in Tasks, Tell(t) PROVE FTypeInv'
  <2> DEFINE c == Head(prod[t].tell)
             rest == Tail(prod[t].tell)
  <2>1. CASE prod[t].tell = <<>>
    <3>1. NoProducer \in ProdType
      BY EmptySeq DEF NoProducer, ProdType, Errors
    <3> QED
      BY <1>9, <2>1, <3>1 DEF Tell
  <2>2. CASE prod[t].tell # <<>>
    <3>1. c \in Tasks /\ rest \in Seq(Tasks)
      BY <2>2, HeadTailRange DEF ProdType
    <3>2. prod' = [prod EXCEPT ![t] = [prod[t] EXCEPT !.tell = rest]]
      BY <1>9, <2>2 DEF Tell
    <3>3. [prod[t] EXCEPT !.tell = rest] \in ProdType
      BY <3>1 DEF ProdType
    <3>4. prod' \in [Tasks -> ProdType]
      BY <3>2, <3>3
    <3>5. result' = [result EXCEPT ![c] = <<prod[t].err>>]
      <4>1. Len(result[c]) < Capacity /\ result' = [result EXCEPT ![c] = Append(result[c], prod[t].err)]
        BY <1>9, <2>2 DEF Tell
      <4>2. result[c] \in Results
        BY <3>1
      <4>3. result[c] = <<>>
        BY <4>1, <4>2, NoRoom
      <4> QED
        BY <4>1, <4>3
    <3>6. <<prod[t].err>> \in Results
      BY DEF Results, ProdType
    <3>7. result' \in [Tasks -> Results]
      BY <3>5, <3>6
    <3> QED
      BY <1>9, <2>2, <3>4, <3>7 DEF Tell
  <2> QED
    BY <2>1, <2>2
<1>10. ASSUME NEW r \in Requests, Age(r) PROVE FTypeInv'
  <2>1. IdleFetch \in FetchType
    BY DEF IdleFetch, FetchType, Policies
  <2>2. store' \in [Requests -> Left]
    BY <1>10 DEF Age, Left
  <2> QED
    BY <1>10, <2>1, <2>2 DEF Age
<1> QED
  BY <1>1, <1>2, <1>3, <1>4, <1>5, <1>6, <1>7, <1>8, <1>9, <1>10
  DEF FStep, RenewalStep, ProduceStep

(* What a step of Fetch, Renew, Await, EndRenewal, Produce, Consume or Tell *)
(* does to each renewal and producer: the other ones are left alone.        *)
LEMMA FetchEffect ==
    ASSUME FactoryInv, NEW f \in Fetchers, NEW r \in Requests, NEW p \in Policies, Fetch(f, r, p)
    PROVE  /\ UNCHANGED <<store, consumers, prod>>
           /\ \A g \in Fetchers : g # f => fetch'[g] = fetch[g]
           /\ fetch'[f].req = r /\ fetch'[f].policy = p
           /\ \/ /\ RenewalAction(p, Get(r)) = "no"
                 /\ fetch'[f].at = "idle" /\ fetch'[f].cert = Get(r)
                 /\ UNCHANGED <<ren, result>>
              \/ /\ fetch'[f].cert = "unset"
                 /\ \/ RenewalAction(p, Get(r)) = "now" /\ fetch'[f].at = "renew"
                    \/ RenewalAction(p, Get(r)) \notin {"no", "now"} /\ fetch'[f].at = "get"
                 /\ \E t \in Tasks :
                      /\ Unused(t)
                      /\ ren'[t].at = "register" /\ ren'[t].req = r
                      /\ ren'[t].waiter \in {f, "none"}
                      /\ result'[t] = <<>>
                      /\ \A u \in Tasks : u # t => ren'[u] = ren[u] /\ result'[u] = result[u]
<1> USE DEF FactoryInv, FTypeInv
<1> DEFINE act == RenewalAction(p, Get(r))
           call == [at |-> "idle", req |-> r, policy |-> p, cert |-> "unset"]
<1>1. CASE act = "no"
  <2>1. fetch' = [fetch EXCEPT ![f] = [call EXCEPT !.cert = Get(r)]] /\ UNCHANGED <<ren, result>>
    BY <1>1 DEF Fetch
  <2> QED
    BY <1>1, <2>1 DEF Fetch
<1>2. CASE act # "no"
  <2>1. fetch' = [fetch EXCEPT ![f] = [call EXCEPT !.at = IF act = "now" THEN "renew" ELSE "get"]]
    BY <1>2 DEF Fetch
  <2>2. PICK t \in Tasks :
          /\ Unused(t)
          /\ ren' = [ren EXCEPT ![t] =
                [at |-> "register", req |-> r, err |-> "none",
                 waiter |-> IF act = "now" THEN f ELSE "none"]]
          /\ result' = [result EXCEPT ![t] = <<>>]
    BY <1>2 DEF Fetch
  <2>3. /\ ren'[t].at = "register" /\ ren'[t].req = r /\ ren'[t].waiter \in {f, "none"}
        /\ result'[t] = <<>>
        /\ \A u \in Tasks : u # t => ren'[u] = ren[u] /\ result'[u] = result[u]
    BY <2>2
  <2>4. /\ fetch'[f].cert = "unset" /\ fetch'[f].req = r /\ fetch'[f].policy = p
        /\ fetch'[f].at = IF act = "now" THEN "renew" ELSE "get"
        /\ \A g \in Fetchers : g # f => fetch'[g] = fetch[g]
    BY <2>1
  <2>5. UNCHANGED <<store, consumers, prod>>
    BY DEF Fetch
  <2> QED
    BY <1>2, <2>2, <2>3, <2>4, <2>5
<1> QED
  BY <1>1, <1>2

LEMMA RenewEffect ==
    ASSUME FactoryInv, NEW t \in Tasks, Renew(t)
    PROVE  /\ ren[t].at = "register"
           /\ UNCHANGED <<store, fetch, result>>
           /\ consumers' = Append(consumers, t)
           /\ ren'[t].at = "wait" /\ ren'[t].req = ren[t].req /\ ren'[t].waiter = ren[t].waiter
           /\ prod'[t].at = "issue" /\ prod'[t].req = ren[t].req /\ prod'[t].tell = <<>>
           /\ \A u \in Tasks : u # t => ren'[u] = ren[u] /\ prod'[u] = prod[u]
  BY DEF Renew, FactoryInv, FTypeInv, RenType, NoProducer

LEMMA AwaitEffect ==
    ASSUME FactoryInv, NEW t \in Tasks, Await(t)
    PROVE  /\ ren[t].at = "wait"
           /\ UNCHANGED <<store, fetch, consumers, prod>>
           /\ ren'[t].at = "cancel" /\ ren'[t].req = ren[t].req /\ ren'[t].waiter = ren[t].waiter
           /\ ren'[t].err = "none" => result[t] = <<"none">>
           /\ \A u \in Tasks : u # t => ren'[u] = ren[u] /\ result'[u] = result[u]
<1> USE DEF FactoryInv, FTypeInv
<1>1. ASSUME NEW err, ren' = [ren EXCEPT ![t].at = "cancel", ![t].err = err]
      PROVE  /\ ren'[t].at = "cancel" /\ ren'[t].req = ren[t].req /\ ren'[t].waiter = ren[t].waiter
             /\ ren'[t].err = err /\ \A u \in Tasks : u # t => ren'[u] = ren[u]
  BY <1>1 DEF RenType
<1>2. UNCHANGED <<store, fetch, consumers, prod>> /\ \A u \in Tasks : u # t => result'[u] = result[u]
  BY DEF Await
<1>3. CASE ren' = [ren EXCEPT ![t].at = "cancel", ![t].err = "deadline"]
  <2>1. /\ ren'[t].at = "cancel" /\ ren'[t].req = ren[t].req /\ ren'[t].waiter = ren[t].waiter
        /\ ren'[t].err = "deadline" /\ \A u \in Tasks : u # t => ren'[u] = ren[u]
    BY <1>3 DEF RenType
  <2>2. ren[t].at = "wait"
    BY DEF Await
  <2> QED
    BY <1>2, <2>1, <2>2
<1>4. CASE result[t] # <<>> /\ ren' = [ren EXCEPT ![t].at = "cancel", ![t].err = Head(result[t])]
  <2>1. result[t] = <<Head(result[t])>>
    BY <1>4, ResultTaken
  <2>2. ren'[t].err = Head(result[t])
    BY <1>1, <1>4
  <2> QED
    BY <1>1, <1>2, <1>4, <2>1, <2>2 DEF Await
<1> QED
  BY <1>3, <1>4 DEF Await

LEMMA EndRenewalEffect ==
    ASSUME FactoryInv, NEW t \in Tasks, EndRenewal(t)
    PROVE  /\ ren[t].at = "cancel"
           /\ UNCHANGED <<store, result, prod>>
           /\ Once(consumers') /\ Range(consumers') = Range(consumers) \ {t}
           /\ ren'[t] = FreeTask
           /\ \A u \in Tasks : u # t => ren'[u] = ren[u]
           /\ \A f \in Fetchers :
                 /\ fetch'[f].req = fetch[f].req
                 /\ \/ fetch'[f] = fetch[f]
                    \/ fetch'[f].at = "idle" /\ fetch'[f].cert = "error"
                    \/ f = ren[t].waiter /\ ren[t].err = "none" /\ fetch'[f].at = "get"
<1> USE DEF FactoryInv, FTypeInv
<1>1. t \in Range(consumers)
  BY DEF EndRenewal, ConsumersInv
<1>2. Once(consumers') /\ Range(consumers') = Range(consumers) \ {t}
  BY <1>1, RemoveOnce DEF EndRenewal, ConsumersInv
<1>3. ASSUME NEW f \in Fetchers
      PROVE  /\ fetch'[f].req = fetch[f].req
             /\ \/ fetch'[f] = fetch[f]
                \/ fetch'[f].at = "idle" /\ fetch'[f].cert = "error"
                \/ f = ren[t].waiter /\ ren[t].err = "none" /\ fetch'[f].at = "get"
  BY DEF EndRenewal, FetchType
<1> QED
  BY <1>2, <1>3 DEF EndRenewal

LEMMA ProduceEffect ==
    ASSUME FactoryInv, NEW t \in Tasks, Produce(t)
    PROVE  /\ prod[t].at = "issue"
           /\ UNCHANGED <<fetch, ren, result, consumers>>
           /\ prod'[t].at = "size" /\ prod'[t].tell = prod[t].tell
           /\ \A u \in Tasks : u # t => prod'[u] = prod[u]
           /\ \/ prod'[t].err # "none" /\ store' = store
              \/ store' = [store EXCEPT ![prod[t].req] = "fresh"]
  BY DEF Produce, CreateCert, FactoryInv, FTypeInv, ProdType

LEMMA ConsumeEffect ==
    ASSUME FactoryInv, NEW t \in Tasks, Consume(t)
    PROVE  /\ UNCHANGED <<store, fetch, ren, result, consumers>>
           /\ \A u \in Tasks : u # t => prod'[u] = prod[u]
           /\ \/ consumers = <<>> /\ prod[t].at = "size" /\ prod'[t] = NoProducer
              \/ /\ prod[t].at = "size" /\ prod'[t].at = "copy"
                 /\ prod'[t].err = prod[t].err /\ prod'[t].tell = prod[t].tell
              \/ /\ prod[t].at = "copy" /\ prod'[t].at = "tell"
                 /\ prod'[t].err = prod[t].err /\ prod'[t].tell = consumers
  BY DEF Consume, FactoryInv, FTypeInv, ProdType

LEMMA TellEffect ==
    ASSUME FactoryInv, NEW t \in Tasks, Tell(t)
    PROVE  /\ prod[t].at = "tell"
           /\ UNCHANGED <<store, fetch, ren, consumers>>
           /\ \A u \in Tasks : u # t => prod'[u] = prod[u]
           /\ \/ Range(prod[t].tell) = {} /\ prod'[t] = NoProducer /\ result' = result
              \/ \E c \in Tasks :
                    /\ result'[c] = <<prod[t].err>>
                    /\ \A u \in Tasks : u # c => result'[u] = result[u]
                    /\ prod'[t].at = "tell" /\ prod'[t].err = prod[t].err
                    /\ Range(prod[t].tell) = {c} \cup Range(prod'[t].tell)
<1> USE DEF FactoryInv, FTypeInv
<1> DEFINE c == Head(prod[t].tell)
           rest == Tail(prod[t].tell)
<1>1. CASE prod[t].tell = <<>>
  BY <1>1, RangeEmpty DEF Tell
<1>2. CASE prod[t].tell # <<>>
  <2>1. c \in Tasks /\ Range(prod[t].tell) = {c} \cup Range(rest)
    BY <1>2, HeadTailRange DEF ProdType
  <2>2. prod' = [prod EXCEPT ![t].tell = rest]
    BY <1>2 DEF Tell
  <2>3. /\ prod'[t].at = prod[t].at /\ prod'[t].err = prod[t].err /\ prod'[t].tell = rest
        /\ \A u \in Tasks : u # t => prod'[u] = prod[u]
    BY <2>2 DEF ProdType
  <2>4. result' = [result EXCEPT ![c] = <<prod[t].err>>]
    <3>1. Len(result[c]) < Capacity /\ result' = [result EXCEPT ![c] = Append(result[c], prod[t].err)]
      BY <1>2 DEF Tell
    <3>2. result[c] = <<>>
      BY <2>1, <3>1, NoRoom
    <3> QED
      BY <3>1, <3>2
  <2>5. result'[c] = <<prod[t].err>> /\ \A u \in Tasks : u # c => result'[u] = result[u]
    BY <2>1, <2>4
  <2> QED
    BY <2>1, <2>3, <2>5 DEF Tell
<1> QED
  BY <1>1, <1>2

-----------------------------------------------------------------------------
(* The invariant of the notifier is kept.                                   *)

LEMMA ConsumersNext ==
    ASSUME FactoryInv, FStep
    PROVE  ConsumersInv'
<1> USE DEF FactoryInv, ConsumersInv
<1>1. ASSUME UNCHANGED <<consumers, ren>> PROVE ConsumersInv'
  BY <1>1
<1>2. ASSUME NEW f \in Fetchers, NEW r \in Requests, NEW p \in Policies, Fetch(f, r, p)
      PROVE  ConsumersInv'
  BY <1>2, FetchEffect DEF Unused
<1>3. ASSUME NEW t \in Tasks, Renew(t) PROVE ConsumersInv'
  <2>1. /\ ren[t].at = "register" /\ ren'[t].at = "wait" /\ consumers' = Append(consumers, t)
        /\ \A u \in Tasks : u # t => ren'[u] = ren[u]
    BY <1>3, RenewEffect
  <2>2. Once(consumers') /\ Range(consumers') = Range(consumers) \cup {t}
    BY <2>1, AppendOnce DEF FTypeInv
  <2> QED
    BY <2>1, <2>2
<1>4. ASSUME NEW t \in Tasks, Await(t) PROVE ConsumersInv'
  BY <1>4, AwaitEffect
<1>5. ASSUME NEW t \in Tasks, EndRenewal(t) PROVE ConsumersInv'
  BY <1>5, EndRenewalEffect DEF FreeTask
<1> QED
  BY <1>1, <1>2, <1>3, <1>4, <1>5
  DEF FStep, RenewalStep, ProduceStep, fvars, FetchAgain, Produce, Consume, Tell, Age

LEMMA WakeNext ==
    ASSUME FactoryInv, FStep
    PROVE  WakeInv'
<1> USE DEF FactoryInv, WakeInv
<1>1. ASSUME UNCHANGED <<ren, prod, result>> PROVE WakeInv'
  BY <1>1
<1>2. ASSUME NEW f \in Fetchers, NEW r \in Requests, NEW p \in Policies, Fetch(f, r, p)
      PROVE  WakeInv'
  BY <1>2, FetchEffect
<1>3. ASSUME NEW t \in Tasks, Renew(t) PROVE WakeInv'
  BY <1>3, RenewEffect
<1>4. ASSUME NEW t \in Tasks, Await(t) PROVE WakeInv'
  BY <1>4, AwaitEffect
<1>5. ASSUME NEW t \in Tasks, EndRenewal(t) PROVE WakeInv'
  BY <1>5, EndRenewalEffect DEF FreeTask
<1>6. ASSUME NEW t \in Tasks, Produce(t) PROVE WakeInv'
  BY <1>6, ProduceEffect
(* Consume finds the renewal of a producer among the consumers as long as   *)
(* it waits.                                                                *)
<1>7. ASSUME NEW t \in Tasks, Consume(t) PROVE WakeInv'
  <2>1. ren[t].at = "wait" => t \in Range(consumers) /\ consumers # <<>>
    BY RangeEmpty DEF ConsumersInv
  <2> QED
    BY <1>7, <2>1, ConsumeEffect
<1>8. ASSUME NEW t \in Tasks, Tell(t) PROVE WakeInv'
  BY <1>8, TellEffect
<1> QED
  BY <1>1, <1>2, <1>3, <1>4, <1>5, <1>6, <1>7, <1>8
  DEF FStep, RenewalStep, ProduceStep, fvars, FetchAgain, Age

LEMMA ReqNext ==
    ASSUME FactoryInv, FStep
    PROVE  ReqInv'
<1> USE DEF FactoryInv, ReqInv
<1>1. CASE UNCHANGED fvars
  BY <1>1 DEF fvars
<1>2. ASSUME NEW f \in Fetchers, NEW r \in Requests, NEW p \in Policies, Fetch(f, r, p)
      PROVE  ReqInv'
  <2>1. /\ UNCHANGED prod /\ fetch'[f].req = r
        /\ \A g \in Fetchers : g # f => fetch'[g] = fetch[g]
    BY <1>2, FetchEffect
  <2>2. \A u \in Tasks : \/ ren'[u] = ren[u]
                         \/ ren'[u].req = r /\ ren'[u].waiter \in {f, "none"}
    BY <1>2, FetchEffect
  <2>3. \A u \in Tasks : ren[u].waiter \in Fetchers \cup {"none"}
    BY DEF FTypeInv, RenType
  <2> QED
    BY <2>1, <2>2, <2>3
<1>3. ASSUME NEW f \in Fetchers, FetchAgain(f) PROVE ReqInv'
  BY <1>3 DEF FetchAgain, FTypeInv, FetchType, RenType
<1>4. ASSUME NEW t \in Tasks, Renew(t) PROVE ReqInv'
  BY <1>4, RenewEffect
<1>5. ASSUME NEW t \in Tasks, Await(t) PROVE ReqInv'
  BY <1>5, AwaitEffect
<1>6. ASSUME NEW t \in Tasks, EndRenewal(t) PROVE ReqInv'
  <2>1. /\ UNCHANGED prod /\ ren'[t].at = "free"
        /\ \A u \in Tasks : u # t => ren'[u] = ren[u]
        /\ \A f \in Fetchers : fetch'[f].req = fetch[f].req
    BY <1>6, EndRenewalEffect DEF FreeTask
  <2>2. \A f \in Fetchers : fetch'[f].at # "idle" =>
             fetch[f].at # "idle" \/ (f = ren[t].waiter /\ ren[t].at # "free")
    BY <1>6, EndRenewalEffect
  <2>3. \A u \in Tasks : ren[u].waiter \in Fetchers \cup {"none"}
    BY DEF FTypeInv, RenType
  <2> QED
    BY <2>1, <2>2, <2>3, Assumptions
<1>7. ASSUME NEW t \in Tasks, Produce(t) PROVE ReqInv'
  BY <1>7, ProduceEffect
<1>8. ASSUME NEW t \in Tasks, Consume(t) PROVE ReqInv'
  BY <1>8, ConsumeEffect DEF NoProducer
<1>9. ASSUME NEW t \in Tasks, Tell(t) PROVE ReqInv'
  BY <1>9, TellEffect DEF NoProducer
<1>10. ASSUME NEW r \in Requests, Age(r) PROVE ReqInv'
  BY <1>10 DEF Age, IdleFetch
<1> QED
  BY <1>1, <1>2, <1>3, <1>4, <1>5, <1>6, <1>7, <1>8, <1>9, <1>10
  DEF FStep, RenewalStep, ProduceStep

LEMMA FactoryInit == FInit => FactoryInv
<1> SUFFICES ASSUME FInit PROVE FactoryInv
  OBVIOUS
<1>1. IdleFetch \in FetchType /\ FreeTask \in RenType /\ NoProducer \in ProdType
  BY EmptySeq DEF IdleFetch, FetchType, Policies, FreeTask, RenType, NoProducer, ProdType, Errors
<1>2. FTypeInv
  BY <1>1, EmptySeq DEF FInit, FTypeInv, Left, Results
<1>3. ConsumersInv
  BY RangeEmpty DEF FInit, ConsumersInv, Once, FreeTask
<1> QED
  BY <1>2, <1>3 DEF FInit, FactoryInv, WakeInv, ReqInv, FreeTask, NoProducer, IdleFetch

LEMMA FactoryNext ==
    ASSUME FactoryInv, FStep
    PROVE  FactoryInv'
  BY FTypeNext, ConsumersNext, WakeNext, ReqNext DEF FactoryInv

-----------------------------------------------------------------------------
(* What is told of a certificate stays true until everybody has looked.     *)

LEMMA FreshNext ==
    ASSUME OneRequest, FactoryInv, FreshInv, FStep
    PROVE  FreshInv'
<1> USE DEF FactoryInv, FreshInv, Fresh
<1>1. CASE UNCHANGED fvars
  BY <1>1 DEF fvars
<1>2. ASSUME NEW f \in Fetchers, NEW r \in Requests, NEW p \in Policies, Fetch(f, r, p)
      PROVE  FreshInv'
  <2>1. UNCHANGED <<store, prod>>
    BY <1>2, FetchEffect
  <2>2. \A t \in Tasks :
           \/ ren'[t] = ren[t] /\ result'[t] = result[t]
           \/ /\ \A u \in Tasks : t \notin Range(prod[u].tell)
              /\ ren'[t].at = "register" /\ result'[t] = <<>>
    BY <1>2, FetchEffect DEF Unused
  <2>3. ASSUME NEW g \in Fetchers, fetch'[g].at = "get"
        PROVE  store[fetch'[g].req] \in {"fresh", "due"}
    <3>1. CASE g # f
      BY <1>2, <2>3, <3>1, FetchEffect
    <3>2. CASE g = f
      <4>1. fetch'[f].req = r /\ RenewalAction(p, Get(r)) \notin {"no", "now"}
        BY <1>2, <2>3, <3>2, FetchEffect
      <4>2. Get(r) = "due"
        BY <4>1 DEF RenewalAction
      <4> QED
        BY <3>2, <4>1, <4>2 DEF Get
    <3> QED
      BY <3>1, <3>2
  <2> QED
    BY <2>1, <2>2, <2>3
<1>3. ASSUME NEW f \in Fetchers, FetchAgain(f) PROVE FreshInv'
  <2>1. \A g \in Fetchers : fetch'[g] = fetch[g] \/ fetch'[g].at = "idle"
    BY <1>3 DEF FetchAgain, FTypeInv, FetchType
  <2> QED
    BY <1>3, <2>1 DEF FetchAgain
<1>4. ASSUME NEW t \in Tasks, Renew(t) PROVE FreshInv'
  BY <1>4, RenewEffect, RangeEmpty
<1>5. ASSUME NEW t \in Tasks, Await(t) PROVE FreshInv'
  BY <1>5, AwaitEffect
<1>6. ASSUME NEW t \in Tasks, EndRenewal(t) PROVE FreshInv'
  <2>1. /\ UNCHANGED <<store, result, prod>> /\ ren'[t].at = "free"
        /\ \A u \in Tasks : u # t => ren'[u] = ren[u]
    BY <1>6, EndRenewalEffect DEF FreeTask
  <2>2. ASSUME NEW f \in Fetchers, fetch'[f].at = "get"
        PROVE  store[fetch'[f].req] \in {"fresh", "due"}
    <3>1. fetch'[f].req = fetch[f].req
      BY <1>6, EndRenewalEffect
    <3>2. fetch[f].at = "get" \/ (f = ren[t].waiter /\ ren[t].at = "cancel" /\ ren[t].err = "none")
      BY <1>6, <2>2, EndRenewalEffect
    <3>3. f # "none"
      BY Assumptions
    <3> QED
      BY <3>1, <3>2, <3>3 DEF ReqInv
  <2> QED
    BY <2>1, <2>2
<1>7. ASSUME NEW t \in Tasks, Produce(t) PROVE FreshInv'
  <2>1. prod[t].req \in Requests
    BY <1>7, ProduceEffect DEF ReqInv
  <2>2. CASE prod'[t].err # "none" /\ store' = store
    BY <1>7, <2>2, ProduceEffect
  <2>3. CASE store' = [store EXCEPT ![prod[t].req] = "fresh"]
    <3>1. \A r \in Requests : store'[r] = "fresh"
      BY <2>1, <2>3 DEF OneRequest, FTypeInv
    <3>2. \A f \in Fetchers : fetch[f].at = "get" => fetch[f].req \in Requests
      BY DEF ReqInv
    <3> QED
      BY <1>7, <3>1, <3>2, ProduceEffect
  <2> QED
    BY <1>7, <2>2, <2>3, ProduceEffect
(* The copy is made while the certificate is still fresh, and of renewals   *)
(* that have not returned.                                                  *)
<1>8. ASSUME NEW t \in Tasks, Consume(t) PROVE FreshInv'
  BY <1>8, ConsumeEffect, RangeEmpty DEF NoProducer
<1>9. ASSUME NEW t \in Tasks, Tell(t) PROVE FreshInv'
  <2>1. UNCHANGED <<store, fetch, ren>> /\ \A u \in Tasks : u # t => prod'[u] = prod[u]
    BY <1>9, TellEffect
  <2>2. CASE prod'[t] = NoProducer /\ result' = result
    BY <2>1, <2>2, RangeEmpty DEF NoProducer
  <2>3. ASSUME NEW c \in Tasks,
               result'[c] = <<prod[t].err>>,
               \A u \in Tasks : u # c => result'[u] = result[u],
               prod'[t].at = "tell" /\ prod'[t].err = prod[t].err,
               Range(prod[t].tell) = {c} \cup Range(prod'[t].tell)
        PROVE  FreshInv'
    <3>1. result'[c] = <<"none">> => prod[t].err = "none"
      BY <2>3
    <3>2. ren[c].at # "free" /\ result'[c] = <<"none">> => Fresh
      BY <2>3, <3>1
    <3> QED
      BY <2>1, <2>3, <3>2
  <2> QED
    BY <1>9, <2>2, <2>3, TellEffect
(* Nothing ages before all are through.                                     *)
<1>10. ASSUME NEW r \in Requests, Age(r) PROVE FreshInv'
  BY <1>10 DEF Age, IdleFetch, Stuck
<1> QED
  BY <1>1, <1>2, <1>3, <1>4, <1>5, <1>6, <1>7, <1>8, <1>9, <1>10
  DEF FStep, RenewalStep, ProduceStep

LEMMA UsableNext ==
    ASSUME FactoryInv, FreshInv, ReturnsUsable, FStep
    PROVE  ReturnsUsable'
<1> USE DEF FactoryInv, ReturnsUsable
<1>1. ASSUME UNCHANGED fetch PROVE ReturnsUsable'
  BY <1>1
<1>2. ASSUME NEW f \in Fetchers, NEW r \in Requests, NEW p \in Policies, Fetch(f, r, p)
      PROVE  ReturnsUsable'
  <2>1. Get(r) # "none"
    BY DEF Get
  <2>2. RenewalAction(p, Get(r)) = "no" /\ p = "default" => Get(r) # "old"
    BY DEF RenewalAction
  <2>3. \/ fetch'[f].cert = "unset"
        \/ /\ RenewalAction(p, Get(r)) = "no" /\ fetch'[f].cert = Get(r)
           /\ fetch'[f].policy = p
    BY <1>2, FetchEffect
  <2>4. \A g \in Fetchers : g # f => fetch'[g] = fetch[g]
    BY <1>2, FetchEffect
  <2> QED
    BY <2>1, <2>2, <2>3, <2>4
<1>3. ASSUME NEW f \in Fetchers, FetchAgain(f) PROVE ReturnsUsable'
  <2>1. Get(fetch[f].req) \in {"fresh", "due"}
    BY <1>3 DEF FetchAgain, FreshInv, Get
  <2>2. /\ fetch'[f].cert = Get(fetch[f].req)
        /\ \A g \in Fetchers : g # f => fetch'[g] = fetch[g]
    BY <1>3 DEF FetchAgain, FTypeInv, FetchType
  <2> QED
    BY <2>1, <2>2
<1>4. ASSUME NEW t \in Tasks, EndRenewal(t) PROVE ReturnsUsable'
  BY <1>4, EndRenewalEffect
<1>5. ASSUME NEW r \in Requests, Age(r) PROVE ReturnsUsable'
  BY <1>5 DEF Age, IdleFetch
<1> QED
  BY <1>1, <1>2, <1>3, <1>4, <1>5
  DEF FStep, RenewalStep, ProduceStep, fvars, Renew, Await, Produce, Consume, Tell

LEMMA UsableInit == FInit => UsableInv
  BY RangeEmpty DEF FInit, UsableInv, FreshInv, ReturnsUsable, IdleFetch, FreeTask, NoProducer

-----------------------------------------------------------------------------
(* Handshakes.                                                              *)

(* What is trusted at some time since the handshake began only grows.       *)
LiveCAs(since) == UNION {Trusted[j] : j \in since..trust}

(* Vetted, of a given set of CAs for the verifiers that ask each time.      *)
VettedBy(opts, cert, usage, made, live, late) ==
    IF opts.verifiers # <<>>
    THEN \A k \in DOMAIN opts.verifiers :
           LET v == opts.verifiers[k]
           IN /\ cert.ca \in IF v.live THEN live ELSE Trusted[made]
              /\ usage \in cert.usage
              /\ late /\ cert.left = "old" => opts.ignoreExpires
              /\ <<"*">> \in v.names \/ \E n \in v.names : VerifyHostname(cert.chain[v.level + 1], n)
    ELSE opts.verify \/ (cert.ca \in Trusted[made] /\ usage \in cert.usage /\ ~(late /\ cert.left = "old"))

(* The two halves of what an open connection s between a client with the    *)
(* options c and a server with the options o has gone through.              *)
ClientSide(c, cert, s, live) ==
    \/ c.skipVerify /\ c.verifiers = <<>>
    \/ /\ VettedBy(c, cert, "server", s.made, live, s.late)
       /\ c.verifiers = <<>> /\ ~c.verify => VerifyHostname(ServerCert.chain[1], c.serverName)

ServerSide(o, cert, start, s, live) ==
    /\ o.authType \in {2, 4} => s.given
    /\ o.authType >= 3 /\ s.given => VettedBy(o, cert, "client", start, live, s.late)

(* The client side is through before the server side begins.                *)
SidesInv(h) ==
    /\ shake[h].at \in {"verify", "open"} =>
          ClientSide(ClientOpts(h), ServerCertOf(h), shake[h], LiveCAs(shake[h].since))
    /\ shake[h].at = "open" =>
          ServerSide(ServerOpts, ClientCert[h], listen.start, shake[h], LiveCAs(shake[h].since))

(* The clients whose certificates tlsInfoToMetaMap takes for those of h.    *)
Alike(h) == {g \in Handshakes : InfoKey(ClientCert[g]) = InfoKey(ClientCert[h])}

(* The header of an open connection, and the peer read from it.             *)
HandedOnInv(h) ==
    /\ shake[h].header # <<>> =>
          /\ shake[h].at = "open" /\ shake[h].given
          /\ \E g \in Alike(h) : shake[h].header[2] = ClientCert[g].chain
    /\ shake[h].peer \notin {<<>>, Gateway} =>
          /\ shake[h].header # <<>>
          /\ \E g \in Alike(h) : shake[h].peer = ClientCert[g].chain[1].cn

Fields == {"at", "settings", "made", "since", "late", "left", "given", "header", "peer"}
ShapeInv(h) ==
    LET s == shake[h] IN
    /\ DOMAIN s = Fields
    /\ s.since \in Nat /\ s.since <= trust
    /\ s.at # "idle" => listen.at = "up"

HandshakeInv(h) == ShapeInv(h) /\ SidesInv(h) /\ HandedOnInv(h)

MetaInv ==
    \A i \in DOMAIN toMeta : \E g \in Handshakes :
        i = InfoKey(ClientCert[g]) /\ toMeta[i][2] = ClientCert[g].chain

ServerInv ==
    /\ setup \in DOMAIN Setups
    /\ trust \in Nat
    /\ shake = [h \in Handshakes |-> shake[h]]

PeerInv == ServerInv /\ MetaInv /\ \A h \in Handshakes : HandshakeInv(h)

LEMMA VettedMonotone ==
    ASSUME NEW opts, NEW cert, NEW usage, NEW made, NEW late, NEW live, NEW more,
           live \subseteq more, VettedBy(opts, cert, usage, made, live, late)
    PROVE  VettedBy(opts, cert, usage, made, more, late)
  BY DEF VettedBy

LEMMA SidesMonotone ==
    ASSUME NEW opts, NEW cert, NEW start, NEW s, NEW live, NEW more, live \subseteq more
    PROVE  /\ ClientSide(opts, cert, s, live) => ClientSide(opts, cert, s, more)
           /\ ServerSide(opts, cert, start, s, live) => ServerSide(opts, cert, start, s, more)
  BY VettedMonotone DEF ClientSide, ServerSide

(* A step that leaves a handshake alone, and the server once it is up,      *)
(* keeps what holds of that handshake, also if CAs are rotated.             *)
LEMMA HandshakeFrame ==
    ASSUME PeerInv, NEW h \in Handshakes, shake'[h] = shake[h], setup' = setup,
           trust' \in Nat, trust <= trust', listen' = listen \/ listen.at # "up"
    PROVE  HandshakeInv(h)'
<1> USE DEF PeerInv, HandshakeInv
<1>1. ShapeInv(h)'
  BY DEF ShapeInv, ServerInv
<1>2. SidesInv(h)'
  <2>1. LiveCAs(shake[h].since) \subseteq LiveCAs(shake[h].since)'
    <3>1. shake[h].since \in Nat /\ trust \in Nat
      BY DEF ShapeInv, ServerInv
    <3>2. (shake[h].since)..trust \subseteq (shake[h].since)..(trust')
      BY <3>1
    <3> QED
      BY <3>2 DEF LiveCAs
  <2>2. /\ ClientOpts(h)' = ClientOpts(h) /\ ServerOpts' = ServerOpts
        /\ ServerCertOf(h)' = ServerCertOf(h)
    BY DEF ClientOpts, ServerOpts, Settings, ServerCertOf
  <2>3. shake[h].at # "idle" => listen' = listen
    BY DEF ShapeInv
  <2> QED
    BY <2>1, <2>2, <2>3, SidesMonotone DEF SidesInv
<1>3. HandedOnInv(h)'
  BY DEF HandedOnInv
<1> QED
  BY <1>1, <1>2, <1>3

(* A step of one handshake: it is enough to look at that one.               *)
LEMMA OneHandshake ==
    ASSUME PeerInv, NEW h \in Handshakes, NEW s, Shake(h, s),
           UNCHANGED <<setup, trust, listen>>, MetaInv', HandshakeInv(h)'
    PROVE  PeerInv'
<1>1. shake' = [shake EXCEPT ![h] = s]
  BY DEF Shake
<1>2. ServerInv'
  BY <1>1 DEF PeerInv, ServerInv
<1>3. ASSUME NEW g \in Handshakes PROVE HandshakeInv(g)'
  <2>1. CASE g = h
    BY <2>1
  <2>2. CASE g # h
    <3>1. shake'[g] = shake[g]
      BY <1>1, <2>2 DEF PeerInv, ServerInv
    <3>2. trust' \in Nat /\ trust <= trust'
      BY DEF PeerInv, ServerInv
    <3> QED
      BY <3>1, <3>2, HandshakeFrame
  <2> QED
    BY <2>1, <2>2
<1> QED
  BY <1>2, <1>3 DEF PeerInv

(* Up to the certificate's arrival nothing is claimed of a handshake, nor   *)
(* when it has failed.                                                      *)
LEMMA EarlySteps ==
    ASSUME PeerInv, NEW h \in Handshakes, NEW s, Shake(h, s), OnlyShake,
           listen.at = "up", shake[h].at # "open",
           s.at \notin {"verify", "open"},
           DOMAIN s = Fields,
           s.since \in {shake[h].since, trust},
           s.header = shake[h].header, s.peer = shake[h].peer
    PROVE  PeerInv'
<1>1. shake'[h] = s
  BY DEF Shake, PeerInv, ServerInv
<1>2. ShapeInv(h)'
  BY <1>1 DEF ShapeInv, OnlyShake, PeerInv, HandshakeInv, ServerInv
<1>3. SidesInv(h)'
  BY <1>1 DEF SidesInv
<1>4. HandedOnInv(h)'
  BY <1>1 DEF HandedOnInv, PeerInv, HandshakeInv
<1>5. MetaInv' /\ UNCHANGED <<setup, trust, listen>>
  BY DEF MetaInv, OnlyShake, PeerInv
<1> QED
  BY <1>2, <1>3, <1>4, <1>5, OneHandshake DEF HandshakeInv

LEMMA DialNext ==
    ASSUME PeerInv, NEW h \in Handshakes, NEW k, Dial(h, k)
    PROVE  PeerInv'
<1> DEFINE s(at) == [shake[h] EXCEPT !.settings = k, !.made = trust, !.at = at]
<1>1. PICK at \in {"failed", "dialled"} : Shake(h, s(at))
  BY DEF Dial
<1>2. DOMAIN shake[h] = Fields
  BY DEF PeerInv, HandshakeInv, ShapeInv
<1>3. /\ DOMAIN s(at) = Fields /\ s(at).at = at /\ s(at).since = shake[h].since
      /\ s(at).header = shake[h].header /\ s(at).peer = shake[h].peer
  BY <1>2 DEF Fields
<1> HIDE DEF s
<1> QED
  BY <1>1, <1>3, EarlySteps DEF Dial

LEMMA ConnectNext ==
    ASSUME PeerInv, NEW h \in Handshakes, Connect(h)
    PROVE  PeerInv'
<1>1. DOMAIN shake[h] = Fields
  BY DEF PeerInv, HandshakeInv, ShapeInv
<1>2. listen.at = "up" /\ shake[h].at # "open" /\ OnlyShake
  BY DEF Connect, PeerInv, HandshakeInv, ShapeInv
<1>3. ASSUME NEW at \in {"plain", "failed"}, Shake(h, [shake[h] EXCEPT !.at = at])
      PROVE  PeerInv'
  <2> DEFINE s == [shake[h] EXCEPT !.at = at]
  <2>1. /\ DOMAIN s = Fields /\ s.at = at /\ s.since = shake[h].since
        /\ s.header = shake[h].header /\ s.peer = shake[h].peer
    BY <1>1 DEF Fields
  <2> HIDE DEF s
  <2>2. Shake(h, s)
    BY <1>3 DEF s
  <2> QED
    BY <1>2, <2>1, <2>2, EarlySteps
<1>4. ASSUME NEW late,
             Shake(h, [shake[h] EXCEPT !.at = "hello", !.left = ServerCert.left, !.since = trust, !.late = late])
      PROVE  PeerInv'
  <2> DEFINE s == [shake[h] EXCEPT !.at = "hello", !.left = ServerCert.left, !.since = trust, !.late = late]
  <2>1. /\ DOMAIN s = Fields /\ s.at = "hello" /\ s.since = trust
        /\ s.header = shake[h].header /\ s.peer = shake[h].peer
    BY <1>1 DEF Fields
  <2> HIDE DEF s
  <2>2. Shake(h, s)
    BY <1>4 DEF s
  <2> QED
    BY <1>2, <2>1, <2>2, EarlySteps
<1>5. ASSUME NEW late, Shake(h, [shake[h] EXCEPT !.at = "fetch", !.since = trust, !.late = late])
      PROVE  PeerInv'
  <2> DEFINE s == [shake[h] EXCEPT !.at = "fetch", !.since = trust, !.late = late]
  <2>1. /\ DOMAIN s = Fields /\ s.at = "fetch" /\ s.since = trust
        /\ s.header = shake[h].header /\ s.peer = shake[h].peer
    BY <1>1 DEF Fields
  <2> HIDE DEF s
  <2>2. Shake(h, s)
    BY <1>5 DEF s
  <2> QED
    BY <1>2, <2>1, <2>2, EarlySteps
<1> QED
  BY <1>3, <1>4, <1>5 DEF Connect

LEMMA CertFetchedNext ==
    ASSUME PeerInv, NEW h \in Handshakes, CertFetched(h)
    PROVE  PeerInv'
<1> DEFINE s == IF fetch[h].cert = "error" THEN [shake[h] EXCEPT !.at = "failed"]
                ELSE [shake[h] EXCEPT !.at = "hello", !.left = fetch[h].cert]
<1>1. DOMAIN shake[h] = Fields
  BY DEF PeerInv, HandshakeInv, ShapeInv
<1>2. /\ DOMAIN s = Fields /\ s.at \in {"failed", "hello"} /\ s.since = shake[h].since
      /\ s.header = shake[h].header /\ s.peer = shake[h].peer
  BY <1>1 DEF Fields
<1>3. Shake(h, s)
  BY DEF CertFetched
<1> HIDE DEF s
<1>4. listen.at = "up" /\ shake[h].at # "open" /\ OnlyShake
  BY DEF CertFetched, PeerInv, HandshakeInv, ShapeInv
<1> QED
  BY <1>2, <1>3, <1>4, EarlySteps

(* verifyCertificate, together with the standard check where there are no   *)
(* verifiers, does what Vetted asks for.                                    *)
LEMMA VerifyVets ==
    ASSUME NEW opts, NEW cert, NEW start, NEW usage, NEW late, NEW verdict,
           NEW since \in Nat, trust \in Nat, since <= trust,
           VerifyCertificate(opts, cert, start, usage, late, verdict),
           opts.verifiers # <<>> \/ opts.verify \/ X509Verify(cert, Trusted[start], usage, late)
    PROVE  VettedBy(opts, cert, usage, start, LiveCAs(since), late)
<1>1. Trusted[trust] \subseteq LiveCAs(since)
  BY DEF LiveCAs
<1>2. CASE opts.verifiers # <<>>
  <2>1. \A k \in DOMAIN opts.verifiers :
            CertificateChainVerifier(opts.verifiers[k], cert, start, usage, opts.ignoreExpires, late)
    BY DEF VerifyCertificate
  <2> QED
    BY <1>1, <1>2, <2>1 DEF CertificateChainVerifier, X509Verify, AuthorityChecker, VettedBy
<1>3. CASE opts.verifiers = <<>>
  BY <1>3 DEF VettedBy, X509Verify
<1> QED
  BY <1>2, <1>3

(* The client: what it lets through is its half, and a server that asks for *)
(* no certificate has nothing to verify.                                    *)
LEMMA ClientVerifyNext ==
    ASSUME PeerInv, NEW h \in Handshakes, ClientVerify(h)
    PROVE  PeerInv'
<1> DEFINE t == shake[h]
           c == ClientOpts(h)
           tls == ClientTLS(h)
           asked == ServerTLS.auth # 0
           standard == /\ X509Verify(ServerCertOf(h), tls.roots, "server", t.late)
                       /\ VerifyHostname(ServerCert.chain[1], c.serverName)
           good == [t EXCEPT !.at = IF asked THEN "verify" ELSE "open",
                             !.given = asked /\ c.certificate # "none"]
           bad == [t EXCEPT !.at = "failed"]
<1>1. DOMAIN t = Fields /\ t.since \in Nat /\ t.since <= trust /\ trust \in Nat
  BY DEF PeerInv, HandshakeInv, ShapeInv, ServerInv
<1>2. listen.at = "up" /\ t.at = "hello" /\ OnlyShake
  BY DEF ClientVerify, PeerInv, HandshakeInv, ShapeInv
<1>3. CASE Shake(h, bad)
  <2>1. /\ DOMAIN bad = Fields /\ bad.at = "failed" /\ bad.since = t.since
        /\ bad.header = t.header /\ bad.peer = t.peer
    BY <1>1 DEF Fields
  <2> HIDE DEF bad
  <2> QED
    BY <1>2, <1>3, <2>1, EarlySteps
<1>4. ASSUME NEW verdict, Shake(h, good), tls.skip \/ standard,
             VerifyCertificate(c, ServerCertOf(h), t.made, "server", t.late, verdict)
      PROVE  PeerInv'
  <2>1. /\ DOMAIN good = Fields /\ good.at = IF asked THEN "verify" ELSE "open"
        /\ good.given <=> asked /\ c.certificate # "none"
        /\ good.since = t.since /\ good.header = t.header /\ good.peer = t.peer
        /\ good.made = t.made /\ good.late = t.late /\ good.left = t.left /\ good.settings = t.settings
    BY <1>1 DEF Fields
  <2> HIDE DEF good
  <2>2. shake'[h] = good
    BY <1>4 DEF Shake, PeerInv, ServerInv
  <2>3. UNCHANGED <<setup, trust, listen, toMeta>>
    BY <1>2 DEF OnlyShake
  <2>4. /\ ClientOpts(h)' = c /\ ServerOpts' = ServerOpts /\ ServerCertOf(h)' = ServerCertOf(h)
        /\ LiveCAs(shake[h].since)' = LiveCAs(t.since)
    BY <2>1, <2>2, <2>3 DEF ClientOpts, ServerOpts, Settings, ServerCertOf, LiveCAs
  <2>5. ClientSide(c, ServerCertOf(h), good, LiveCAs(t.since))
    <3>1. CASE c.skipVerify /\ c.verifiers = <<>>
      BY <3>1 DEF ClientSide
    <3>2. CASE ~ (c.skipVerify /\ c.verifiers = <<>>)
      <4>1. c.verifiers = <<>> /\ ~c.verify => standard
        BY <1>4, <3>2 DEF ClientTLS, ConfigClientTLS
      <4>2. standard => X509Verify(ServerCertOf(h), Trusted[t.made], "server", t.late)
        BY DEF ClientTLS, ConfigClientTLS, X509Verify
      <4>3. VettedBy(c, ServerCertOf(h), "server", t.made, LiveCAs(t.since), t.late)
        BY <1>1, <1>4, <4>1, <4>2, VerifyVets
      <4> QED
        BY <2>1, <4>1, <4>3 DEF ClientSide
    <3> QED
      BY <3>1, <3>2
  <2>6. ~asked => ServerSide(ServerOpts, ClientCert[h], listen.start, good, LiveCAs(t.since))
    <3>1. ~asked => ~good.given
      BY <2>1
    <3>2. ~asked => ServerOpts.authType = 0
      BY DEF ServerTLS, ConfigServerTLS
    <3> QED
      BY <3>1, <3>2 DEF ServerSide
  <2>7. SidesInv(h)'
    BY <2>1, <2>2, <2>3, <2>4, <2>5, <2>6 DEF SidesInv
  <2>8. ShapeInv(h)' /\ HandedOnInv(h)'
    BY <1>1, <1>2, <2>1, <2>2, <2>3 DEF ShapeInv, HandedOnInv, PeerInv, HandshakeInv
  <2>9. MetaInv'
    BY <2>3 DEF MetaInv, PeerInv
  <2> QED
    BY <1>4, <2>3, <2>7, <2>8, <2>9, OneHandshake DEF HandshakeInv
<1> HIDE DEF good, bad
<1> QED
  BY <1>3, <1>4 DEF ClientVerify, good, bad

(* The server: for each type of authentication the check it trades for the  *)
(* standard one is no weaker, and a certificate that must be there is.      *)
LEMMA ServerVerifyNext ==
    ASSUME PeerInv, NEW h \in Handshakes, ServerVerify(h)
    PROVE  PeerInv'
<1> DEFINE t == shake[h]
           o == ServerOpts
           tls == ServerTLS
           cert == IF t.given THEN ClientCert[h] ELSE NoCert
           standard == /\ tls.auth \in {2, 4} => t.given
                       /\ tls.auth >= 3 /\ t.given => X509Verify(cert, tls.roots, "client", t.late)
           new(at) == [t EXCEPT !.at = at]
<1>1. DOMAIN t = Fields /\ t.since \in Nat /\ t.since <= trust /\ trust \in Nat
  BY DEF PeerInv, HandshakeInv, ShapeInv, ServerInv
<1>2. listen.at = "up" /\ t.at = "verify" /\ OnlyShake
  BY DEF ServerVerify, PeerInv, HandshakeInv, ShapeInv
<1>3. ASSUME NEW at
      PROVE  /\ DOMAIN new(at) = Fields /\ new(at).at = at /\ new(at).given = t.given
             /\ new(at).since = t.since /\ new(at).header = t.header /\ new(at).peer = t.peer
             /\ new(at).made = t.made /\ new(at).late = t.late /\ new(at).left = t.left
             /\ new(at).settings = t.settings
  BY <1>1 DEF Fields
<1> HIDE DEF new
<1>4. CASE Shake(h, new("failed"))
  BY <1>2, <1>3, <1>4, EarlySteps
<1>5. ASSUME NEW verdict, Shake(h, new("open")), standard,
             \/ ~tls.own \/ (tls.auth = 1 /\ ~t.given)
             \/ VerifyCertificate(o, cert, listen.start, "client", t.late, verdict)
      PROVE  PeerInv'
  <2>1. shake'[h] = new("open")
    BY <1>5 DEF Shake, PeerInv, ServerInv
  <2>2. UNCHANGED <<setup, trust, listen, toMeta>>
    BY <1>2 DEF OnlyShake
  <2>3. /\ ClientOpts(h)' = ClientOpts(h) /\ ServerOpts' = o /\ ServerCertOf(h)' = ServerCertOf(h)
        /\ LiveCAs(shake[h].since)' = LiveCAs(t.since)
    BY <1>3, <2>1, <2>2 DEF ClientOpts, ServerOpts, Settings, ServerCertOf, LiveCAs
  <2>4. ClientSide(ClientOpts(h), ServerCertOf(h), new("open"), LiveCAs(t.since))
    BY <1>2, <1>3 DEF PeerInv, HandshakeInv, SidesInv, ClientSide
  <2>5. ServerSide(o, ClientCert[h], listen.start, new("open"), LiveCAs(t.since))
    <3>1. /\ tls.own <=> o.authType >= 3 /\ (o.verifiers # <<>> \/ o.verify)
          /\ tls.auth = IF o.authType >= 3 /\ (o.verifiers # <<>> \/ o.verify)
                          THEN (IF o.authType = 3 THEN 1 ELSE 2) ELSE o.authType
          /\ tls.roots = IF o.clientCAs THEN Trusted[listen.start] ELSE {}
      BY DEF ServerTLS, ConfigServerTLS
    <3>2. o.authType \in {2, 4} => t.given
      BY <1>5, <3>1
    <3>3. ASSUME o.authType >= 3, t.given
          PROVE  VettedBy(o, ClientCert[h], "client", listen.start, LiveCAs(t.since), t.late)
      <4>1. CASE o.verifiers # <<>> \/ o.verify
        <5>1. VerifyCertificate(o, ClientCert[h], listen.start, "client", t.late, verdict)
          BY <1>5, <3>1, <3>3, <4>1
        <5> QED
          BY <1>1, <4>1, <5>1, VerifyVets
      <4>2. CASE o.verifiers = <<>> /\ ~o.verify
        BY <1>5, <3>1, <3>3, <4>2 DEF X509Verify, VettedBy
      <4> QED
        BY <4>1, <4>2
    <3> QED
      BY <1>3, <3>2, <3>3 DEF ServerSide
  <2>6. SidesInv(h)'
    BY <2>1, <2>2, <2>3, <2>4, <2>5 DEF SidesInv
  <2>7. ShapeInv(h)' /\ HandedOnInv(h)'
    BY <1>1, <1>2, <1>3, <2>1, <2>2 DEF ShapeInv, HandedOnInv, PeerInv, HandshakeInv
  <2>8. MetaInv'
    BY <2>2 DEF MetaInv, PeerInv
  <2> QED
    BY <1>5, <2>2, <2>6, <2>7, <2>8, OneHandshake DEF HandshakeInv
<1> QED
  BY <1>4, <1>5 DEF ServerVerify, new

(* On an open connection only the header and the peer change.               *)
LEMMA HandingOn ==
    ASSUME PeerInv, NEW h \in Handshakes, NEW s, Shake(h, s),
           UNCHANGED <<setup, trust, listen>>, MetaInv', shake[h].at = "open",
           \/ \E x : s = [shake[h] EXCEPT !.header = x]
           \/ \E x : s = [shake[h] EXCEPT !.peer = x],
           HandedOnInv(h)'
    PROVE  PeerInv'
<1>1. shake'[h] = s
  BY DEF Shake, PeerInv, ServerInv
<1>2. DOMAIN shake[h] = Fields
  BY DEF PeerInv, HandshakeInv, ShapeInv
<1>3. /\ DOMAIN s = Fields /\ s.at = "open" /\ s.given = shake[h].given /\ s.since = shake[h].since
      /\ s.made = shake[h].made /\ s.late = shake[h].late /\ s.left = shake[h].left
      /\ s.settings = shake[h].settings
  BY <1>2 DEF Fields
<1>4. /\ ClientOpts(h)' = ClientOpts(h) /\ ServerOpts' = ServerOpts
      /\ ServerCertOf(h)' = ServerCertOf(h)
      /\ LiveCAs(shake[h].since)' = LiveCAs(shake[h].since)
  BY <1>1, <1>3 DEF ClientOpts, ServerOpts, Settings, ServerCertOf, LiveCAs
<1>5. /\ ClientSide(ClientOpts(h), ServerCertOf(h), s, LiveCAs(shake[h].since))
      /\ ServerSide(ServerOpts, ClientCert[h], listen.start, s, LiveCAs(shake[h].since))
  BY <1>3 DEF PeerInv, HandshakeInv, SidesInv, ClientSide, ServerSide
<1>6. SidesInv(h)'
  BY <1>1, <1>3, <1>4, <1>5 DEF SidesInv
<1>7. ShapeInv(h)'
  BY <1>1, <1>3 DEF ShapeInv, PeerInv, HandshakeInv
<1> QED
  BY <1>6, <1>7, OneHandshake DEF HandshakeInv

LEMMA PeerTlsInfoToMetaNext ==
    ASSUME PeerInv, NEW h \in Handshakes, NEW key, PeerTlsInfoToMeta(h, key)
    PROVE  PeerInv'
<1> DEFINE info == InfoKey(ClientCert[h])
           header == IF info \in DOMAIN toMeta THEN toMeta[info] ELSE <<key, ClientCert[h].chain>>
           s == [shake[h] EXCEPT !.header = header]
<1>1. /\ shake[h].at = "open" /\ shake[h].given /\ shake[h].header = <<>> /\ Shake(h, s)
      /\ toMeta' = [i \in DOMAIN toMeta \cup {info} |-> IF i = info THEN header ELSE toMeta[i]]
      /\ UNCHANGED <<setup, trust, listen>>
  BY DEF PeerTlsInfoToMeta
<1>2. PICK g \in Alike(h) : header[2] = ClientCert[g].chain
  <2>1. CASE info \in DOMAIN toMeta
    BY <2>1 DEF PeerInv, MetaInv, Alike
  <2>2. CASE info \notin DOMAIN toMeta
    BY <2>2 DEF Alike
  <2> QED
    BY <2>1, <2>2
<1> HIDE DEF header
<1>3. MetaInv'
  BY <1>1, <1>2 DEF PeerInv, MetaInv, Alike
<1>4. DOMAIN shake[h] = Fields /\ shake'[h] = s
  BY <1>1 DEF PeerInv, HandshakeInv, ShapeInv, ServerInv, Shake
<1>5. s.header = header /\ s.at = "open" /\ s.given = shake[h].given /\ s.peer = shake[h].peer
  BY <1>1, <1>4 DEF Fields
<1>6. HandedOnInv(h)'
  <2>1. shake[h].peer \in {<<>>, Gateway}
    BY <1>1 DEF PeerInv, HandshakeInv, HandedOnInv
  <2> QED
    BY <1>1, <1>2, <1>4, <1>5, <2>1 DEF HandedOnInv
<1>7. \E x : s = [shake[h] EXCEPT !.header = x]
  OBVIOUS
<1> HIDE DEF s
<1> QED
  BY <1>1, <1>3, <1>6, <1>7, HandingOn

LEMMA PeerTlsInfoNext ==
    ASSUME PeerInv, NEW h \in Handshakes, PeerTlsInfo(h)
    PROVE  PeerInv'
<1> DEFINE s(peer) == [shake[h] EXCEPT !.peer = peer]
<1>1. PICK peer \in {Gateway, shake[h].header[2][1].cn} : Shake(h, s(peer))
  BY DEF PeerTlsInfo
<1>2. shake[h].header # <<>> /\ UNCHANGED <<setup, trust, listen, toMeta>>
  BY DEF PeerTlsInfo
<1>3. /\ shake[h].at = "open" /\ shake[h].given
      /\ \E g \in Alike(h) : shake[h].header[2] = ClientCert[g].chain
  BY <1>2 DEF PeerInv, HandshakeInv, HandedOnInv
<1>4. DOMAIN shake[h] = Fields /\ shake'[h] = s(peer)
  BY <1>1 DEF PeerInv, HandshakeInv, ShapeInv, ServerInv, Shake
<1>5. /\ s(peer).header = shake[h].header /\ s(peer).at = "open"
      /\ s(peer).given = shake[h].given /\ s(peer).peer = peer
  BY <1>3, <1>4 DEF Fields
<1>6. HandedOnInv(h)'
  BY <1>1, <1>2, <1>3, <1>4, <1>5 DEF HandedOnInv
<1>7. MetaInv' /\ \E x : s(peer) = [shake[h] EXCEPT !.peer = x]
  BY <1>2 DEF PeerInv, MetaInv
<1> HIDE DEF s
<1> QED
  BY <1>1, <1>2, <1>3, <1>6, <1>7, HandingOn

LEMMA PeerInit == Init => PeerInv
<1> SUFFICES ASSUME Init PROVE PeerInv
  OBVIOUS
<1>1. ASSUME NEW h \in Handshakes
      PROVE  /\ DOMAIN shake[h] = Fields /\ shake[h].at = "idle" /\ shake[h].since = 1
             /\ shake[h].header = <<>> /\ shake[h].peer = <<>>
  BY DEF Init, IdleShake, Fields
<1>2. ASSUME NEW h \in Handshakes PROVE HandshakeInv(h)
  BY <1>1 DEF Init, HandshakeInv, ShapeInv, SidesInv, HandedOnInv
<1>3. ServerInv /\ MetaInv
  BY DEF Init, ServerInv, MetaInv
<1> QED
  BY <1>2, <1>3 DEF PeerInv

LEMMA PeerNext ==
    ASSUME PeerInv, [Next]_vars
    PROVE  PeerInv'
<1>1. ASSUME UNCHANGED <<setup, shake, toMeta>>, trust' \in Nat, trust <= trust',
             listen' = listen \/ listen.at # "up"
      PROVE  PeerInv'
  <2>1. \A h \in Handshakes : HandshakeInv(h)'
    BY <1>1, HandshakeFrame
  <2>2. ServerInv' /\ MetaInv'
    BY <1>1 DEF PeerInv, ServerInv, MetaInv
  <2> QED
    BY <2>1, <2>2 DEF PeerInv
<1>2. trust \in Nat /\ trust <= trust
  BY DEF PeerInv, ServerInv
<1>3. CASE UNCHANGED tvars
  BY <1>1, <1>2, <1>3 DEF tvars
<1>4. CASE Listen \/ ListenFetched
  BY <1>1, <1>2, <1>4 DEF Listen, ListenFetched
<1>5. CASE Rotate
  BY <1>1, <1>2, <1>5 DEF Rotate
<1>6. ASSUME NEW key, SetDefaultPublicKey(key) PROVE PeerInv'
  BY <1>1, <1>2, <1>6 DEF SetDefaultPublicKey
<1>7. ASSUME NEW h \in Handshakes, ShakeStep(h) PROVE PeerInv'
  BY <1>7, ConnectNext, CertFetchedNext, ClientVerifyNext, ServerVerifyNext, PeerTlsInfoNext DEF ShakeStep
<1>8. ASSUME NEW h \in Handshakes, NEW k, Dial(h, k) PROVE PeerInv'
  BY <1>8, DialNext
<1>9. ASSUME NEW h \in Handshakes, NEW key, PeerTlsInfoToMeta(h, key) PROVE PeerInv'
  BY <1>9, PeerTlsInfoToMetaNext
<1> QED
  BY <1>3, <1>4, <1>5, <1>6, <1>7, <1>8, <1>9 DEF Next, vars

-----------------------------------------------------------------------------
(* The theorems.                                                            *)

IndInv == FactoryInv /\ (OneRequest => UsableInv) /\ PeerInv

(* The inductive invariant of the factory and the handshakes.               *)
THEOREM IndInvHolds == Spec => []IndInv
<1>1. Init => IndInv
  BY FactoryInit, UsableInit, PeerInit DEF Init, IndInv
<1>2. IndInv /\ [Next]_vars => IndInv'
  <2> SUFFICES ASSUME IndInv, [Next]_vars PROVE IndInv'
    OBVIOUS
  <2>1. FStep
    BY FStepOfNext DEF IndInv, PeerInv, ServerInv
  <2>2. FactoryInv'
    BY <2>1, FactoryNext DEF IndInv
  <2>3. ASSUME OneRequest PROVE UsableInv'
    BY <2>1, <2>3, FreshNext, UsableNext DEF IndInv, UsableInv
  <2>4. PeerInv'
    BY PeerNext DEF IndInv
  <2> QED
    BY <2>2, <2>3, <2>4 DEF IndInv, OneRequest
<1> QED
  BY <1>1, <1>2, PTL DEF Spec

(* No wake-up is lost: Fetch registers its consumer before it starts        *)
(* Produce, so that once its own producer is through, there is a result in  *)
(* its channel or it has taken one.                                         *)
THEOREM NoLostResultThm == Spec => []NoLostResult
<1>1. IndInv => NoLostResult
  BY DEF IndInv, FactoryInv, WakeInv, NoLostResult
<1> QED
  BY <1>1, IndInvHolds, PTL

(* Fetch of a factory that is asked for one kind of certificate, as those   *)
(* in credentials/option.go are, never hands out one in its last minute     *)
(* under the default policy.  With two kinds the result of one could end    *)
(* the renewal of the other: resultChan takes whatever is announced first.  *)
THEOREM ReturnsUsableThm == OneRequest => (Spec => []ReturnsUsable)
<1> SUFFICES ASSUME OneRequest PROVE Spec => []ReturnsUsable
  OBVIOUS
<1>1. IndInv => ReturnsUsable
  BY DEF IndInv, UsableInv
<1> QED
  BY <1>1, IndInvHolds, PTL

(* No two clients that present different names have the same serial numbers *)
(* one after another, which is what tlsInfoToMetaMap goes by.               *)
SerialsTell ==
    \A g, h \in Handshakes :
        InfoKey(ClientCert[g]) = InfoKey(ClientCert[h])
            => ClientCert[g].chain[1].cn = ClientCert[h].chain[1].cn

(* Whatever the options, the CAs and their rotation: what configClientTLS   *)
(* and configServerTLS put in the place of the standard check vets the      *)
(* certificates of an open connection, and the peer that is handed on is    *)
(* the client's own, as long as serial numbers tell clients apart.          *)
THEOREM PeerIsVettedThm == SerialsTell => (Spec => []PeerIsVetted)
<1> SUFFICES ASSUME SerialsTell PROVE Spec => []PeerIsVetted
  OBVIOUS
<1>1. IndInv => PeerIsVetted
  <2> SUFFICES ASSUME PeerInv, NEW h \in Handshakes
               PROVE  /\ shake[h].at = "open" =>
                           /\ \/ ClientOpts(h).skipVerify /\ ClientOpts(h).verifiers = <<>>
                              \/ /\ Vetted(ClientOpts(h), ServerCertOf(h), "server", shake[h].made,
                                           shake[h].since, shake[h].late)
                                 /\ ClientOpts(h).verifiers = <<>> /\ ~ClientOpts(h).verify =>
                                       VerifyHostname(ServerCert.chain[1], ClientOpts(h).serverName)
                           /\ ServerOpts.authType \in {2, 4} => shake[h].given
                           /\ ServerOpts.authType >= 3 /\ shake[h].given =>
                                 Vetted(ServerOpts, ClientCert[h], "client", listen.start,
                                        shake[h].since, shake[h].late)
                      /\ shake[h].peer \in {<<>>, Gateway}
                            \cup (IF shake[h].given THEN {ClientCert[h].chain[1].cn} ELSE {})
    BY DEF IndInv, PeerIsVetted
  <2>1. SidesInv(h) /\ HandedOnInv(h)
    BY DEF PeerInv, HandshakeInv
  <2>2. ASSUME NEW opts, NEW cert, NEW usage, NEW made, NEW since, NEW late
        PROVE  Vetted(opts, cert, usage, made, since, late) <=>
                  VettedBy(opts, cert, usage, made, LiveCAs(since), late)
    BY DEF Vetted, VettedBy, LiveCAs
  <2>3. shake[h].at = "open" =>
           /\ ClientSide(ClientOpts(h), ServerCertOf(h), shake[h], LiveCAs(shake[h].since))
           /\ ServerSide(ServerOpts, ClientCert[h], listen.start, shake[h], LiveCAs(shake[h].since))
    BY <2>1 DEF SidesInv
  <2>4. shake[h].peer \in {<<>>, Gateway}
            \cup (IF shake[h].given THEN {ClientCert[h].chain[1].cn} ELSE {})
    BY <2>1 DEF HandedOnInv, Alike, SerialsTell
  <2> QED
    BY <2>2, <2>3, <2>4 DEF ClientSide, ServerSide
<1> QED
  BY <1>1, IndInvHolds, PTL
=============================================================================
