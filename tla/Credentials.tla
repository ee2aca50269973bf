---------------------------- MODULE Credentials ----------------------------
(* Package credentials: the options of clients and servers, the TLS         *)
(* configurations made of them, and the certificates that a handshake asks  *)
(* for and verifies.  The server's certificate comes from a file or from a  *)
(* certificate factory, which this module composes with the handshakes.  A  *)
(* gateway may hand on who its peer is, signed, in the metadata of a call.  *)
(*                                                                          *)
(* crypto/tls and crypto/x509 are external: a certificate is the CA that    *)
(* issued it, its usages, the time it has left and the names of the chain   *)
(* that is sent.  The CA files and functions of the options give what is    *)
(* trusted at the moment: an operator may rotate CAs.                       *)
EXTENDS CertFactory

CONSTANTS
    Setups,      \* sequence of settings: of the server, of the clients, bounds
    Trusted,     \* sequence of sets of CAs, in the order of their rotation
    ServerCert,  \* the server's certificate
    ClientCert,  \* handshake -> the client's certificate
    Target,      \* the host name a client dials
    Gateway      \* the name of the connection from a gateway

ASSUME SetupsAssumption == \A k \in DOMAIN Setups : Setups[k].free \subseteq {"default", "norenewal"}

Handshakes == Fetchers
NoCert == [ca |-> "none", usage |-> {}, left |-> "none", chain |-> <<>>]

VARIABLES
    setup,     \* the settings in use
    trust,     \* index of what is trusted now
    listen,    \* the server: how far it is, and what was trusted when it was configured
    shake,     \* handshake -> the client's settings, how far it is, and the certificates seen
    toMeta,    \* tlsInfoToMetaMap: serial numbers -> signed header
    fromMeta,  \* tlsInfoFromMetaMap: the headers accepted so far
    pubKey     \* defaultPubkey

tvars == <<setup, trust, listen, shake, toMeta, fromMeta, pubKey>>
vars == <<fvars, tvars>>

Settings == Setups[setup]

-----------------------------------------------------------------------------
(* Options, as pairs of a name and a value.                                 *)

Opt(op, x) == [op |-> op, x |-> x]
When(cond, opts) == IF cond THEN opts ELSE <<>>

(* A chain verifier: whether its CAs are asked for at every handshake, the  *)
(* level of the chain it looks at, and the names it accepts, "*" all.       *)
Verifier(live, level, names) == [live |-> live, level |-> level, names |-> names]

ClientOptions == [rootCAs |-> "none", certificate |-> "none", serverName |-> <<>>, insecure |-> FALSE,
                  skipVerify |-> FALSE, verifiers |-> <<>>, verify |-> FALSE, ignoreExpires |-> FALSE, err |-> FALSE]

(* ClientOptionFunc: a certificate makes the connection secure.             *)
ClientOption(opts, o) ==
    CASE o.op = "rootCAs"   -> [opts EXCEPT !.rootCAs = o.x]
      [] o.op = "cert"      -> [opts EXCEPT !.insecure = FALSE, !.certificate = o.x]
      [] o.op = "name"      -> [opts EXCEPT !.serverName = o.x]
      [] o.op = "insecure"  -> [opts EXCEPT !.insecure = o.x]
      [] o.op = "skip"      -> [opts EXCEPT !.skipVerify = o.x]
      [] o.op = "authority" -> [opts EXCEPT !.verifiers = Append(@, o.x)]
      [] o.op = "verify"    -> [opts EXCEPT !.verify = TRUE]
      [] o.op = "ignore"    -> [opts EXCEPT !.ignoreExpires = o.x]
      [] OTHER              -> [opts EXCEPT !.err = TRUE]

ParseClientOptions(opts) == FoldLeft(ClientOption, ClientOptions, opts)

ServerOptions == [clientCAs |-> FALSE, certificate |-> "none", insecure |-> FALSE, authType |-> 0,
                  verifiers |-> <<>>, verify |-> FALSE, ignoreExpires |-> FALSE, err |-> FALSE]

ServerOption(opts, o) ==
    CASE o.op = "clientCAs" -> [opts EXCEPT !.clientCAs = TRUE]
      [] o.op = "cert"      -> [opts EXCEPT !.insecure = FALSE, !.certificate = o.x]
      [] o.op = "insecure"  -> [opts EXCEPT !.insecure = o.x]
      [] o.op = "auth"      -> [opts EXCEPT !.authType = o.x]
      [] o.op = "authority" -> [opts EXCEPT !.verifiers = Append(@, o.x)]
      [] o.op = "verify"    -> [opts EXCEPT !.verify = TRUE]
      [] o.op = "ignore"    -> [opts EXCEPT !.ignoreExpires = o.x]
      [] OTHER              -> [opts EXCEPT !.err = TRUE]

ParseServerOptions(opts) == FoldLeft(ServerOption, ServerOptions, opts)

(* DefaultDialOption: what the flags of the client say, insecure last.      *)
DefaultDialOption(c) ==
    When(c.cert \/ c.useServerCert, <<Opt("cert", "file")>>)
    \o When(c.caCert # "none", <<Opt("rootCAs", c.caCert)>>)
    \o <<Opt("skip", c.skip), Opt("insecure", c.insecure)>>

(* credentialOptsFromRegistry: what the first instance registered says.     *)
CredentialOptsFromRegistry(meta) ==
    CASE meta = "missing" -> <<Opt("error", TRUE)>>
      [] meta = "tls"     -> <<Opt("skip", TRUE), Opt("insecure", FALSE)>>
      [] OTHER            -> <<Opt("insecure", TRUE)>>

(* PrepareDialOption: the options of the tags come after those of the       *)
(* flags; those from the registry replace them all.                         *)
PrepareDialOption(c) ==
    IF c.tag = "unknown" THEN <<Opt("error", TRUE)>>
    ELSE IF c.registry # "off" THEN CredentialOptsFromRegistry(c.registry)
    ELSE DefaultDialOption(c) \o c.extra

(* The dialer puts the name and the lenience about expiry before them.      *)
DialOptions(c) == <<Opt("name", Target), Opt("ignore", TRUE)>> \o PrepareDialOption(c)

(* ParseOptions of the server: insecure comes first, so that a certificate  *)
(* overrides it; the CA files are read once.                                *)
SelfSigned(s) == s.selfCert \/ (~s.insecure /\ ~s.cert)
ServerFlagOptions(s) ==
    <<Opt("insecure", s.insecure), Opt("ignore", ~s.checkExpiration)>>
    \o When(s.selfCert, <<Opt("cert", "factory")>>)
    \o When(~s.selfCert /\ s.cert, <<Opt("cert", "file")>>)
    \o When(s.caCert, <<Opt("clientCAs", TRUE), Opt("auth", s.authType), Opt("authority", Verifier(FALSE, 0, s.authorities))>>)
    \o When(~s.insecure /\ ~s.selfCert /\ ~s.cert, <<Opt("cert", "factory")>>)
    \o s.extra

-----------------------------------------------------------------------------
(* Verification.                                                            *)

(* matchHostnames: a wildcard stands for the first label only.              *)
MatchHostnames(pattern, host) ==
    /\ Len(pattern) = Len(host)
    /\ \A k \in DOMAIN pattern : (k = 1 /\ pattern[1] = "*") \/ pattern[k] = host[k]

(* VerifyHostname: an IP address (one label) is compared as it is; the      *)
(* common name counts if there are no alternative names.                    *)
VerifyHostname(cert, host) ==
    IF Len(host) = 1 THEN host \in cert.san
    ELSE \E p \in (IF cert.san = {} THEN {cert.cn} ELSE {n \in cert.san : Len(n) > 1}) : MatchHostnames(p, host)

(* x509.Certificate.Verify.  "old" is less than a minute: it may be over.   *)
X509Verify(cert, roots, usage, late) ==
    cert.ca \in roots /\ usage \in cert.usage /\ ~(late /\ cert.left = "old")

(* IntermediateAuthorityChecker, and LeafAuthorityChecker at level 0.       *)
AuthorityChecker(v, cert) ==
    /\ Len(cert.chain) > v.level
    /\ <<"*">> \in v.names \/ \E n \in v.names : VerifyHostname(cert.chain[v.level + 1], n)

(* certificateChainVerifier.                                                *)
CertificateChainVerifier(v, cert, start, usage, ignoreExpires, late) ==
    /\ cert # NoCert
    /\ X509Verify(cert, Trusted[IF v.live THEN trust ELSE start], usage, late /\ ~ignoreExpires)
    /\ AuthorityChecker(v, cert)

(* verifyCertificate: all verifiers, then the application's function, whose *)
(* verdict is given.                                                        *)
VerifyCertificate(opts, cert, start, usage, late, verdict) ==
    /\ \A k \in DOMAIN opts.verifiers :
         CertificateChainVerifier(opts.verifiers[k], cert, start, usage, opts.ignoreExpires, late)
    /\ opts.verify => verdict

(* configClientTLS: verifiers of one's own replace the standard check.  It  *)
(* asks for the CAs, so that those it cannot read are an error of a secure  *)
(* client only.                                                             *)
ConfigClientTLS(opts, made) ==
    [skip |-> opts.skipVerify \/ opts.verifiers # <<>> \/ opts.verify,
     roots |-> IF opts.rootCAs = "readable" THEN Trusted[made] ELSE {},
     err |-> opts.rootCAs = "unreadable"]

(* crypto/tls: 0 no certificate, 1 asked for, 2 required, 3 verified if     *)
(* given, 4 required and verified.                                          *)

(* Faulty variant: the two weaker types are swapped.                        *)
ConfigServerTLSSwapped(opts, made) ==
    LET own == opts.authType >= 3 /\ (opts.verifiers # <<>> \/ opts.verify)
    IN [auth |-> IF own THEN (IF opts.authType = 4 THEN 1 ELSE 2) ELSE opts.authType,
        own |-> own, roots |-> IF opts.clientCAs THEN Trusted[made] ELSE {}]

(* configServerTLS: for the types that verify, verifiers of one's own       *)
(* replace the standard check, with a type that does not verify.            *)
ConfigServerTLS(opts, made) ==
    LET own == opts.authType >= 3 /\ (opts.verifiers # <<>> \/ opts.verify)
    IN [auth |-> IF own THEN (IF opts.authType = 3 THEN 1 ELSE 2) ELSE opts.authType,
        own |-> own, roots |-> IF opts.clientCAs THEN Trusted[made] ELSE {}]

-----------------------------------------------------------------------------
(* The server.                                                              *)

ServerOpts == ParseServerOptions(ServerFlagOptions(Settings.server))
ServerTLS == ConfigServerTLS(ServerOpts, listen.start)
Opener == CHOOSE h \in Handshakes : TRUE

(* PrepareGrpcOptions, or the http server: an error ends the process.  A    *)
(* grpc server without a certificate does not start.                        *)
Listening ==
    LET o == ServerOpts
        refused == o.err \/ (~o.insecure /\ Settings.kind = "grpc" /\ o.certificate = "none")
    IN listen' = [at |-> IF refused THEN "failed" ELSE "up", start |-> trust]

(* WithSelfSignedCertificate fetches a certificate while the options are    *)
(* applied.                                                                 *)
Listen ==
    /\ listen.at = "idle" /\ Settings.free = {}
    /\ IF SelfSigned(Settings.server)
       THEN /\ listen' = [listen EXCEPT !.at = "fetch"]
            /\ \E r \in Requests : Fetch(Opener, r, "default")
       ELSE Listening /\ UNCHANGED fvars
    /\ UNCHANGED <<setup, trust, shake, toMeta, fromMeta, pubKey>>

ListenFetched ==
    /\ listen.at = "fetch" /\ fetch[Opener].at = "idle"
    /\ IF fetch[Opener].cert = "error" THEN listen' = [listen EXCEPT !.at = "failed"] ELSE Listening
    /\ UNCHANGED <<fvars, setup, trust, shake, toMeta, fromMeta, pubKey>>

-----------------------------------------------------------------------------
(* Handshakes.                                                              *)

IdleShake == [at |-> "idle", settings |-> 1, made |-> 1, since |-> 1, late |-> FALSE, left |-> "none",
              given |-> FALSE, header |-> <<>>, peer |-> <<>>]

ClientOpts(h) == ParseClientOptions(DialOptions(Settings.clients[h][shake[h].settings]))
ClientTLS(h) == ConfigClientTLS(ClientOpts(h), shake[h].made)
ServerCertOf(h) == [ServerCert EXCEPT !.left = shake[h].left]

Shake(h, new) == shake' = [shake EXCEPT ![h] = new]
OnlyShake == UNCHANGED <<setup, trust, listen, toMeta, fromMeta, pubKey>>

(* Dial: the options are parsed, and unless the client is insecure the TLS  *)
(* configuration is made, once for all handshakes of the connection.        *)
Dial(h, c) ==
    LET opts == ParseClientOptions(DialOptions(Settings.clients[h][c]))
        refused == opts.err \/ (~opts.insecure /\ ConfigClientTLS(opts, trust).err)
    IN /\ shake[h].at = "idle" /\ listen.at = "up"
       /\ Shake(h, [shake[h] EXCEPT !.settings = c, !.made = trust, !.at = IF refused THEN "failed" ELSE "dialled"])
       /\ OnlyShake /\ UNCHANGED fvars

(* A connection, and the server's certificate: GetCertificate.              *)
Connect(h) ==
    LET s == shake[h]
        plain == ClientOpts(h).insecure
        o == ServerOpts
        tls == ~plain /\ ~o.insecure
    IN /\ s.at = "dialled"
       /\ \/ /\ plain /\ o.insecure
             /\ Shake(h, [s EXCEPT !.at = "plain"]) /\ UNCHANGED fvars
          \/ /\ plain # o.insecure \/ (tls /\ o.certificate = "none")
             /\ Shake(h, [s EXCEPT !.at = "failed"]) /\ UNCHANGED fvars
          \/ /\ tls /\ o.certificate = "file"
             /\ \E late \in Settings.late :
                  Shake(h, [s EXCEPT !.at = "hello", !.left = ServerCert.left, !.since = trust, !.late = late])
             /\ UNCHANGED fvars
          \/ /\ tls /\ o.certificate \in {"factory", "norenewal"}
             /\ \E r \in Requests, late \in Settings.late :
                  /\ Fetch(h, r, IF o.certificate = "factory" THEN "default" ELSE "norenewal")
                  /\ Shake(h, [s EXCEPT !.at = "fetch", !.since = trust, !.late = late])
       /\ OnlyShake

CertFetched(h) ==
    /\ shake[h].at = "fetch" /\ fetch[h].at = "idle"
    /\ Shake(h, IF fetch[h].cert = "error" THEN [shake[h] EXCEPT !.at = "failed"]
                ELSE [shake[h] EXCEPT !.at = "hello", !.left = fetch[h].cert])
    /\ OnlyShake /\ UNCHANGED fvars

(* The client verifies, and sends its certificate if it is asked for it.    *)
ClientVerify(h) ==
    LET s == shake[h]
        o == ClientOpts(h)
        tls == ClientTLS(h)
        asked == ServerTLS.auth # 0
        standard == /\ X509Verify(ServerCertOf(h), tls.roots, "server", s.late)
                    /\ VerifyHostname(ServerCert.chain[1], o.serverName)
    IN /\ s.at = "hello"
       /\ \E verdict \in IF o.verify THEN BOOLEAN ELSE {TRUE} :
            Shake(h, IF /\ tls.skip \/ standard
                        /\ VerifyCertificate(o, ServerCertOf(h), s.made, "server", s.late, verdict)
                     THEN [s EXCEPT !.at = IF asked THEN "verify" ELSE "open", !.given = asked /\ o.certificate # "none"]
                     ELSE [s EXCEPT !.at = "failed"])
       /\ OnlyShake /\ UNCHANGED fvars

(* The server verifies: crypto/tls by the type, then VerifyPeerCertificate. *)
ServerVerify(h) ==
    LET s == shake[h]
        o == ServerOpts
        tls == ServerTLS
        cert == IF s.given THEN ClientCert[h] ELSE NoCert
        standard == /\ tls.auth \in {2, 4} => s.given
                    /\ tls.auth >= 3 /\ s.given => X509Verify(cert, tls.roots, "client", s.late)
    IN /\ s.at = "verify"
       /\ \E verdict \in IF tls.own /\ o.verify THEN BOOLEAN ELSE {TRUE} :
            Shake(h, [s EXCEPT !.at =
                IF /\ standard
                   /\ \/ ~tls.own \/ (tls.auth = 1 /\ ~s.given)
                      \/ VerifyCertificate(o, cert, listen.start, "client", s.late, verdict)
                THEN "open" ELSE "failed"])
       /\ OnlyShake /\ UNCHANGED fvars

-----------------------------------------------------------------------------
(* The peer, handed on in the metadata.                                     *)

(* The serial numbers of the certificates of a chain, one after another.    *)
InfoKey(cert) == FlattenSeq([k \in DOMAIN cert.chain |-> cert.chain[k].serial])

(* PeerTlsInfoToMeta: a header that was signed before is used again.        *)
PeerTlsInfoToMeta(h, key) ==
    LET s == shake[h]
        cert == ClientCert[h]
        info == InfoKey(cert)
        header == IF info \in DOMAIN toMeta THEN toMeta[info] ELSE <<key, cert.chain>>
    IN /\ s.at = "open" /\ s.given /\ s.header = <<>>
       /\ Shake(h, [s EXCEPT !.header = header])
       /\ toMeta' = [i \in DOMAIN toMeta \cup {info} |-> IF i = info THEN header ELSE toMeta[i]]
       /\ UNCHANGED <<fvars, setup, trust, listen, fromMeta, pubKey>>

(* PeerTlsInfo behind the gateway: from the metadata, if the signature is   *)
(* good or was once, else from the connection.                              *)
PeerTlsInfo(h) ==
    LET s == shake[h]
        good == pubKey # "none" /\ (s.header \in fromMeta \/ s.header[1] = pubKey)
    IN /\ s.header # <<>> /\ s.peer = <<>>
       /\ Shake(h, [s EXCEPT !.peer = IF good THEN s.header[2][1].cn ELSE Gateway])
       /\ fromMeta' = IF good THEN fromMeta \cup {s.header} ELSE fromMeta
       /\ UNCHANGED <<fvars, setup, trust, listen, toMeta, pubKey>>

SetDefaultPublicKey(key) ==
    /\ key # pubKey
    /\ pubKey' = key
    /\ UNCHANGED <<fvars, setup, trust, listen, shake, toMeta, fromMeta>>

(* CAs are rotated.                                                         *)
Rotate ==
    /\ Settings.rotates /\ trust < Len(Trusted)
    /\ trust' = trust + 1
    /\ UNCHANGED <<fvars, setup, listen, shake, toMeta, fromMeta, pubKey>>

-----------------------------------------------------------------------------
Init ==
    /\ FInit
    /\ setup \in DOMAIN Setups
    /\ trust = 1
    /\ listen = [at |-> "idle", start |-> 1]
    /\ shake = [h \in Handshakes |-> IdleShake]
    /\ toMeta = <<>> /\ fromMeta = {} /\ pubKey = "none"

(* Certificates age while no handshake is under way: see Age.               *)
Rest == \A h \in Handshakes : shake[h].at \in {"idle", "dialled", "plain", "open", "failed"}

ShakeStep(h) == Connect(h) \/ CertFetched(h) \/ ClientVerify(h) \/ ServerVerify(h) \/ PeerTlsInfo(h)

Next ==
    \/ \E f \in Fetchers : FetchAgain(f) /\ UNCHANGED tvars
    \/ \E f \in Fetchers, r \in Requests, p \in Settings.free : Fetch(f, r, p) /\ UNCHANGED tvars
    \/ \E t \in Tasks : (RenewalStep(t) \/ ProduceStep(t)) /\ UNCHANGED tvars
    \/ \E r \in Requests : Rest /\ listen.at # "fetch" /\ Age(r) /\ UNCHANGED tvars
    \/ Listen \/ ListenFetched
    \/ \E h \in Handshakes : ShakeStep(h) \/ \E k \in DOMAIN Settings.clients[h] : Dial(h, k)
    \/ \E h \in Handshakes, key \in Settings.keys : PeerTlsInfoToMeta(h, key)
    \/ \E key \in Settings.keys : SetDefaultPublicKey(key)
    \/ Rotate

Spec == Init /\ [][Next]_vars /\ FetchFairness

-----------------------------------------------------------------------------
(* What the chain verifiers and the standard check of one side must have    *)
(* made sure of: CAs that were trusted when the configuration was made or,  *)
(* for a verifier that asks each time, since the handshake began.           *)
Vetted(opts, cert, usage, made, since, late) ==
    IF opts.verifiers # <<>>
    THEN \A k \in DOMAIN opts.verifiers :
           LET v == opts.verifiers[k]
           IN /\ cert.ca \in IF v.live THEN UNION {Trusted[j] : j \in since..trust} ELSE Trusted[made]
              /\ usage \in cert.usage
              /\ late /\ cert.left = "old" => opts.ignoreExpires
              /\ <<"*">> \in v.names \/ \E n \in v.names : VerifyHostname(cert.chain[v.level + 1], n)
    ELSE opts.verify \/ (cert.ca \in Trusted[made] /\ usage \in cert.usage /\ ~(late /\ cert.left = "old"))

(* An open connection is what both sides asked for (configClientTLS and     *)
(* configServerTLS trade the standard check for verifiers, with a weaker    *)
(* type): the server's certificate is vetted unless the client skips it, a  *)
(* client that must have a certificate has one, and one that is to be       *)
(* verified is.  A peer handed on is the client of that connection or, if   *)
(* the signature does not do, nobody but the gateway.                       *)
PeerIsVetted ==
    \A h \in Handshakes :
        LET s == shake[h]
            o == ServerOpts
            c == ClientOpts(h)
        IN /\ s.at = "open" =>
                /\ \/ c.skipVerify /\ c.verifiers = <<>>
                   \/ /\ Vetted(c, ServerCertOf(h), "server", s.made, s.since, s.late)
                      /\ c.verifiers = <<>> /\ ~c.verify => VerifyHostname(ServerCert.chain[1], c.serverName)
                /\ o.authType \in {2, 4} => s.given
                /\ o.authType >= 3 /\ s.given =>
                     Vetted(o, ClientCert[h], "client", listen.start, s.since, s.late)
           /\ s.peer \in {<<>>, Gateway} \cup (IF s.given THEN {ClientCert[h].chain[1].cn} ELSE {})
=============================================================================
