--------------------------- MODULE MCCredentials ---------------------------
(* Settings and certificates for model checking Credentials.                *)
EXTENDS Credentials

CONSTANTS f1, f2

MCTarget == <<"s", "org">>
MCGateway == <<"gw", "org">>
MCTrusted == <<{"c1"}, {"c1", "c2"}, {"c2"}>>

Named(cn, san, serial) == [cn |-> cn, san |-> san, serial |-> serial]
MCServerCert ==
    [ca |-> "c1", usage |-> {"server"}, left |-> "fresh",
     chain |-> <<Named(<<"x", "org">>, {<<"*", "org">>}, <<1>>), Named(<<"mid", "org">>, {<<"ip">>}, <<9>>)>>]
(* The certificate of f2 comes from another CA, has a common name only, and *)
(* is in its last minute.                                                   *)
MCClientCert ==
    [h \in {f1, f2} |->
        IF h = f1 THEN [ca |-> "c1", usage |-> {"server", "client"}, left |-> "fresh",
                        chain |-> <<Named(<<"k", "org">>, {<<"k", "org">>}, <<2>>), Named(<<"mid", "org">>, {}, <<9>>)>>]
        ELSE [ca |-> "c2", usage |-> {"client"}, left |-> "old", chain |-> <<Named(<<"m", "org">>, {}, <<3>>)>>]]

(* Clients.                                                                 *)
Default == [cert |-> FALSE, useServerCert |-> FALSE, caCert |-> "none", skip |-> FALSE, insecure |-> FALSE,
            tag |-> "none", registry |-> "off", extra |-> <<>>]
Mutual == [Default EXCEPT !.cert = TRUE, !.caCert = "readable"]
Authority(level, name) == Opt("authority", Verifier(TRUE, level, {name}))
Clients ==
    <<[Mutual EXCEPT !.useServerCert = TRUE], [Default EXCEPT !.skip = TRUE], [Mutual EXCEPT !.insecure = TRUE], [Default EXCEPT !.caCert = "unreadable"],
      [Default EXCEPT !.caCert = "unreadable", !.insecure = TRUE],
      [Default EXCEPT !.tag = "unknown"], [Default EXCEPT !.registry = "missing"],
      [Mutual EXCEPT !.registry = "tls"], [Default EXCEPT !.registry = "plain"],
      [Mutual EXCEPT !.extra = <<Authority(0, MCTarget)>>],
      [Mutual EXCEPT !.extra = <<Authority(1, <<"ip">>), Opt("verify", TRUE)>>],
      [Mutual EXCEPT !.extra = <<Opt("name", <<"s", "net">>)>>],
      [Mutual EXCEPT !.extra = <<Opt("verify", TRUE), Opt("ignore", FALSE)>>]>>

(* Servers.                                                                 *)
Plain == [insecure |-> TRUE, selfCert |-> FALSE, cert |-> FALSE, caCert |-> FALSE, authType |-> 0,
          authorities |-> {<<"*">>}, checkExpiration |-> TRUE, extra |-> <<>>]
Secure == [Plain EXCEPT !.cert = TRUE]
Auth(type) == [Secure EXCEPT !.caCert = TRUE, !.authType = type]
Live(type) == [Secure EXCEPT !.extra = <<Opt("clientCAs", TRUE), Opt("auth", type), Authority(0, <<"m", "org">>)>>]
Std(type) == [Secure EXCEPT !.extra = <<Opt("clientCAs", TRUE), Opt("auth", type)>>]

Handshaking(server, kind) ==
    [free |-> {}, server |-> server, kind |-> kind, rotates |-> TRUE, keys |-> {}, late |-> BOOLEAN,
     clients |-> [h \in {f1, f2} |-> IF h = f1 THEN Clients ELSE <<>>]]
Second(server) ==
    [Handshaking(server, "grpc") EXCEPT !.clients = [h \in {f1, f2} |-> IF h = f1 THEN <<>> ELSE <<Mutual>>]]
Fetching(server, client) ==
    [Handshaking(server, "grpc") EXCEPT !.rotates = FALSE, !.clients = [h \in {f1, f2} |-> IF h = f1 THEN <<client>> ELSE <<>>]]
Unset == [Plain EXCEPT !.extra = <<Opt("insecure", FALSE)>>]

MCSetups ==
    <<[Handshaking(Plain, "grpc") EXCEPT !.free = {"default"}, !.rotates = FALSE],
      Handshaking(Plain, "grpc"), Handshaking(Unset, "grpc"), Handshaking(Unset, "http"), Handshaking(Secure, "http"),
      Handshaking([Secure EXCEPT !.extra = <<Opt("badfile", TRUE)>>], "grpc"),
      Handshaking(Auth(1), "grpc"), Handshaking(Auth(2), "grpc"), Handshaking(Auth(4), "grpc"), Handshaking(Std(3), "grpc"),
      Handshaking([Auth(3) EXCEPT !.extra = <<Opt("verify", TRUE)>>], "grpc"),
      Handshaking([Auth(4) EXCEPT !.authorities = {<<"x", "org">>}], "grpc"),
      Second(Live(3)), Second(Live(4)), Second(Std(4)), Second([Live(4) EXCEPT !.checkExpiration = FALSE]),
      Fetching([Plain EXCEPT !.insecure = FALSE], Mutual), Fetching([Secure EXCEPT !.selfCert = TRUE], Default),
      Fetching([Secure EXCEPT !.extra = <<Opt("cert", "norenewal")>>], Mutual),
      [Handshaking(Std(2), "grpc") EXCEPT !.rotates = FALSE, !.keys = {"key1", "key2"},
                                          !.clients = [h \in {f1, f2} |-> <<Mutual>>]]>>
============================================================================
