----------------------------- MODULE MCHttpCall -----------------------------
(* Instances of HttpCall: routing with many rules and no calls, and calls   *)
(* with few rules.                                                          *)
EXTENDS HttpCall, TLC

CONSTANT ReqId

MCAliases == ("s1" :> <<>>) @@ ("s2" :> <<"x">>)
MCLowerCase == ("A" :> "a") @@ ("M" :> "m")
MCMessages == <<"m1", "m2">>

Bind(method, template, valid) ==
    [method |-> method, template |-> template, verb |-> "", valid |-> valid, body |-> method = "post"]
Unary(name, bindings) == [name |-> name, kind |-> "unary", bindings |-> bindings]

Request(method, path, service) ==
    [method |-> method, override |-> "", path |-> path, verb |-> "", service |-> service,
     body |-> "good", form |-> FALSE, params |-> "good", rid |-> None, cid |-> None, callstack |-> FALSE]

(* Routing: every two of these templates, one for each service.             *)
Templates ==
    <<<<Lit("a")>>, <<Lit("A")>>, <<Lit("*")>>, <<Lit("**")>>, <<Var(<<>>)>>,
      <<Lit("a"), Lit("a")>>, <<Lit("a"), Lit("*")>>, <<Lit("a"), Lit("**")>>,
      <<Lit("*"), Lit("a")>>, <<Lit("*"), Lit("*")>>, <<Lit("*"), Lit("**")>>,
      <<Lit("**"), Lit("a")>>, <<Lit("**"), Lit("*")>>,
      <<Lit("A"), Lit("b")>>, <<Lit("*"), Lit("b")>>, <<Lit("a"), Lit("**"), Lit("b")>>,
      <<Lit("**"), Lit("b"), Lit("a")>>, <<Var(<<"a", "*">>), Lit("b")>>>>
Paths == UNION {[1..n -> {"a", "b"}] : n \in 1..3} \cup {<<"A", "b">>, <<"a", "">>}

Quiet == [flusher |-> TRUE, recovery |-> TRUE, cfgRecovery |-> TRUE, timeout |-> FALSE, limited |-> FALSE,
          inproc |-> TRUE, initialized |-> TRUE, calls |-> {}, aliasOnly |-> {}, churn |-> {},
          hooks |-> FALSE, roots |-> FALSE, outcomes |-> {"ok"}]
Routing(t, u) ==
    Quiet @@ [methods |-> [s \in {"s1", "s2"} |->
                  IF s = "s1" THEN <<Unary("m", <<Bind("get", t, TRUE)>>)>>
                  ELSE <<Unary("n", <<Bind("get", u, TRUE)>>)>>],
              requests |-> {Request("get", p, v) : p \in Paths, v \in {"", "x"}}]
RoutingScenarios ==
    FlattenSeq([i \in DOMAIN Templates |-> [j \in 1..i |-> Routing(Templates[i], Templates[j])]])

(* Raw methods, streams, verbs, bindings that are not valid, bad input.     *)
Mixed ==
    [Quiet EXCEPT !.outcomes = {"ok", "Unknown", "panic", "header"}, !.recovery = FALSE, !.cfgRecovery = FALSE]
    @@ [methods |-> [s \in {"s1", "s2"} |->
            IF s = "s1"
            THEN <<Unary("m", <<>>), [Unary("c", <<>>) EXCEPT !.kind = "client"],
                   Unary("v", <<[Bind("post", <<Lit("a")>>, TRUE) EXCEPT !.verb = ":v"], Bind("get", <<Lit("b")>>, FALSE),
                                Bind("get", <<Lit("*")>>, TRUE)>>)>>
            ELSE <<Unary("n", <<Bind("put", <<Lit("s1"), Lit("*")>>, TRUE), Bind("post", <<Lit("s1"), Lit("m")>>, TRUE)>>)>>],
        requests |-> {[Request("post", <<"s1", "m">>, "") EXCEPT !.override = o, !.body = b, !.form = f] :
                          o \in {"", "put"}, b \in {"good", "bad"}, f \in BOOLEAN}
                     \cup {[Request("post", <<"a">>, "") EXCEPT !.verb = v] : v \in {"", ":v"}}
                     \cup {Request("get", <<"b">>, ""), Request("post", <<"s1", "c">>, ""), Request("post", <<"s1", "M">>, ""),
                           [Request("post", <<"a", "">>, "") EXCEPT !.verb = ":v"],
                           [Request("put", <<"s1", "a">>, "") EXCEPT !.params = "bad"]}]

(* Calls: a unary and a streaming method, and a request with an id.         *)
CallMethods ==
    [s \in {"s1", "s2"} |->
        IF s = "s1" THEN <<Unary("m", <<>>), [Unary("w", <<>>) EXCEPT !.kind = "server"]>> ELSE <<>>]
Ask(path) == [Request("post", path, "") EXCEPT !.rid = ReqId, !.callstack = TRUE]
Plain(s) == [svc |-> s, opt |-> <<>>, puts |-> FALSE]
Loud == {"ok", "nil", "bad", "Unknown", "panic", "header"}
Calling == [Quiet EXCEPT !.calls = {Plain("s1")}, !.timeout = TRUE, !.hooks = TRUE]
    @@ [methods |-> CallMethods, requests |-> {Ask(<<"s1", "m">>)}]
Carrying == [Calling EXCEPT !.hooks = FALSE, !.calls = {[svc |-> "s1", opt |-> <<>>, puts |-> p] : p \in BOOLEAN}
                                \cup {Plain("s2"), [svc |-> "s2", opt |-> <<"x">>, puts |-> FALSE]}]
Serving == [Calling EXCEPT !.outcomes = Loud, !.limited = TRUE, !.calls = {}, !.churn = {"s1"},
                           !.requests = {Ask(<<"s1", "m">>), Ask(<<"s1", "w">>)}]
CallScenarios ==
    <<Calling, Carrying, Mixed, [Mixed EXCEPT !.aliasOnly = {"s2"}],
      [Calling EXCEPT !.requests = {}, !.roots = TRUE, !.hooks = FALSE, !.churn = {"s1"}, !.outcomes = {"ok", "nil", "panic"}],
      [Carrying EXCEPT !.inproc = FALSE, !.calls = {Plain("s2")}],
      [Calling EXCEPT !.initialized = FALSE],
      [Serving EXCEPT !.flusher = FALSE, !.requests = {Ask(<<"s1", "w">>)}]>>
ServingScenarios ==
    [k \in 1..8 |-> [Serving EXCEPT !.timeout = k % 2 = 0, !.recovery = (k \div 2) % 2 = 0, !.cfgRecovery = k > 4]]

MCScenarios == CallScenarios \o ServingScenarios \o RoutingScenarios
=============================================================================
