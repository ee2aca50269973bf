------------------------------ MODULE MCServer ------------------------------
(* Two processes that share a service name: one with every way of serving,  *)
(* an alias and an http route, and a hook that may hang; the other serves   *)
(* grpc alone, with or without TLS.                                         *)
EXTENDS Server, TLC

CONSTANTS p1, p2, a, b, h, n1, n2, n3

MCGrpcSvcs == (p1 :> {a, b}) @@ (p2 :> {b})
MCHttpSvcs == (p1 :> {h}) @@ (p2 :> {})
MCNames == (a :> <<n1>>) @@ (b :> <<n2, n3>>)

MCConfigs ==
    (p1 :> {ParseOptions(FALSE, FALSE, "auto", "auto", FALSE, FALSE, TRUE, {a}),
            ParseOptions(TRUE, TRUE, "fixed", "fixed", TRUE, TRUE, TRUE, {}),
            ParseOptions(TRUE, FALSE, "auto", "multiplex", TRUE, FALSE, FALSE, {h}),
            ParseOptions(FALSE, TRUE, "auto", "auto", FALSE, FALSE, FALSE, {})})
    @@ (p2 :> {ParseOptions(FALSE, FALSE, "fixed", "auto", insecure, FALSE, TRUE, {}) : insecure \in BOOLEAN})
=============================================================================
