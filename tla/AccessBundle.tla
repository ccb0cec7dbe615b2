---------------------------- MODULE AccessBundle ----------------------------
(***************************************************************************)
(* How a device learns to reach the server: the configuration is turned    *)
(* into a join bundle (IssueJoinBundle), the bundle travels in a           *)
(* connection code, the client imports it and dials.  A text is a record   *)
(* of what it says and whether it is padded: surrounded by blanks or, for  *)
(* a provider or a mode, spelled otherwise than as a slug.                 *)
(*                                                                         *)
(* Hosts: "any" is the address of every interface, "ip" an address of the  *)
(* machine that is not loopback, "loopback" 127.0.0.1 or ::1, "host" the   *)
(* name of the machine; any other text is a name of something else.        *)
(***************************************************************************)
EXTENDS Integers

Text(says) == [says |-> says, padded |-> FALSE]
Blank(t) == t.says = ""
TrimSpace(t) == Text(t.says)
Coalesce(t, fallback) == IF Blank(t) THEN TrimSpace(fallback) ELSE TrimSpace(t)

\* normalizeSlug: a provider or a mode says the slug that its spelling stands for.
NormalizeSlug(t) == Text(t.says)
StaticMode == Text("static")

\* Bundle.Normalize.
Normalized(b) ==
    [serverID |-> TrimSpace(b.serverID), group |-> TrimSpace(b.group), host |-> TrimSpace(b.host),
     port |-> b.port, useTLS |-> b.useTLS, secret |-> TrimSpace(b.secret),
     provider |-> NormalizeSlug(b.provider),
     mode |-> IF Blank(NormalizeSlug(b.mode)) THEN StaticMode ELSE NormalizeSlug(b.mode),
     tlsName |-> TrimSpace(b.tlsName)]

\* Bundle.Validate.
Valid(b) ==
    LET n == Normalized(b) IN
    /\ ~Blank(n.provider)
    /\ n.mode = StaticMode => ~Blank(n.host) /\ n.port # 0
    /\ ~Blank(n.serverID) /\ ~Blank(n.group)

NoBundle == [ok |-> FALSE]
\* MarshalJSONFile: what the file holds.
MarshalJSONFile(b) == IF Valid(b) THEN [ok |-> TRUE, bundle |-> Normalized(b)] ELSE NoBundle

\* parseServiceDiscoveryAddress: an address that listens everywhere names no host.
ParseServiceDiscoveryAddress(addr) ==
    IF ~addr.ok THEN [host |-> Text(""), port |-> 0]
    ELSE [host |-> IF addr.host \in {"", "any"} THEN Text("") ELSE Text(addr.host), port |-> addr.port]

\* Mutant: the bundle says TLS only where the discovery says so.
BuildAsConfigured(cfg) ==
    LET listen == ParseServiceDiscoveryAddress(cfg.addr) IN
    [serverID |-> Coalesce(cfg.serverID, Text("host")), group |-> Coalesce(cfg.group, Text("default")),
     host |-> IF Blank(cfg.host) THEN listen.host ELSE cfg.host,
     port |-> IF cfg.port = 0 THEN listen.port ELSE cfg.port,
     useTLS |-> cfg.useTLS, secret |-> IF cfg.auth THEN TrimSpace(cfg.secret) ELSE Text(""),
     provider |-> cfg.provider, mode |-> cfg.mode, tlsName |-> cfg.tlsName]

\* BuildControlPlaneConfig.  The server's own id is made from the host name.
BuildControlPlaneConfig(cfg) ==
    LET listen == ParseServiceDiscoveryAddress(cfg.addr) IN
    [serverID |-> Coalesce(cfg.serverID, Text("host")), group |-> Coalesce(cfg.group, Text("default")),
     host |-> IF Blank(cfg.host) THEN listen.host ELSE cfg.host,
     port |-> IF cfg.port = 0 THEN listen.port ELSE cfg.port,
     useTLS |-> cfg.useTLS \/ cfg.tls, secret |-> IF cfg.auth THEN TrimSpace(cfg.secret) ELSE Text(""),
     provider |-> cfg.provider, mode |-> cfg.mode, tlsName |-> cfg.tlsName]

\* normalizeControlPlaneConfig, of the fields that a bundle is made from.
NormalizeControlPlaneConfig(cp) ==
    [cp EXCEPT !.serverID = TrimSpace(@), !.group = Coalesce(@, Text("default")),
               !.mode = IF Blank(@) THEN StaticMode ELSE @,
               !.host = TrimSpace(@), !.tlsName = TrimSpace(@), !.secret = TrimSpace(@)]

\* defaultLocalTLSServerName, of the address that normalizeLocalDialAddr gives a
\* local client: a name is taken as it is, loopback is "localhost", and for
\* anything else the certificate, if there is one yet, tells a name.
LocalTLSServerName(cfg) ==
    IF cfg.addr.ok /\ cfg.addr.host \notin {"", "any", "ip", "loopback"} THEN Text(cfg.addr.host)
    ELSE IF (cfg.addr.ok /\ cfg.addr.host # "ip") \/ ~cfg.hasCert THEN Text("localhost")
    ELSE Text("host")

\* AdminConsoleService.IssueJoinBundle, of the configuration that
\* NewAdminConsoleService keeps and a request that asks for no other values.
IssueJoinBundle(controlPlane) ==
    LET cp == NormalizeControlPlaneConfig(controlPlane) IN
    IF Blank(cp.provider) \/ Blank(cp.host) \/ cp.port = 0 THEN NoBundle
    ELSE MarshalJSONFile(Normalized(cp))

\* The server's command line fills in the name of the certificate.
IssueLocalJoinBundle(cfg) ==
    LET cp == BuildControlPlaneConfig(cfg) IN
    IssueJoinBundle([cp EXCEPT !.tlsName =
        IF cp.useTLS /\ Blank(@) THEN LocalTLSServerName(cfg) ELSE @])

\* decodeConnectionCode and parseBundleJSON, of a code that carries a bundle and
\* perhaps the root certificate.
DecodeConnectionCode(file, ca) ==
    LET parsed == IF file.ok THEN MarshalJSONFile(file.bundle) ELSE NoBundle IN
    IF ~parsed.ok THEN NoBundle
    ELSE IF parsed.bundle.useTLS /\ ca = "" THEN NoBundle ELSE parsed

\* buildDialOptions and loadClientTLSCredentials: without a root certificate there
\* is no TLS connection.
BuildDialOptions(opts) ==
    IF opts.tls /\ opts.root = "" THEN [ok |-> FALSE]
    ELSE [ok |-> TRUE, tls |-> opts.tls, root |-> opts.root, serverName |-> opts.serverName,
          secret |-> opts.secret]

\* probeServer, which an import ends with, and bundleServiceAddr: the address that
\* is dialled and the options of the connection.
ProbeServer(bundle, ca) ==
    LET options == BuildDialOptions(
            [tls |-> bundle.useTLS, root |-> IF bundle.useTLS THEN ca ELSE "",
             serverName |-> IF bundle.useTLS THEN TrimSpace(bundle.tlsName) ELSE Text(""),
             secret |-> TrimSpace(bundle.secret)])
    IN  [ok |-> ~(bundle.useTLS /\ ca = "") /\ options.ok,
         host |-> TrimSpace(bundle.host), port |-> bundle.port, options |-> options]

\* validateInsecureAuthBinding, isLoopbackListenAddress: a server that asks for a
\* secret without TLS listens on loopback only.
LoopbackHosts == {"localhost", "loopback"}
BindingAllowed(cfg) == cfg.auth /\ ~cfg.tls => cfg.addr.ok /\ cfg.addr.host \in LoopbackHosts

\* BuildGRPCServerOptions: a server that asks for a secret needs one.
CanServe(cfg) == BindingAllowed(cfg) /\ (cfg.auth => ~Blank(cfg.secret))

\* serverCertificateTemplate: the names and addresses a certificate is made for.
CertificateNames == {"localhost", "host", "loopback"}

\* The handshake compares the certificate with the name that was asked for, else
\* with the host that was dialled.
VerifiedName(dial) == IF Blank(dial.options.serverName) THEN dial.host ELSE dial.options.serverName

\* What the server at the other end accepts: both sides speak TLS, or neither
\* does; the client trusts the certificate and finds the name in it; and
\* validateSharedSecret.
Admits(cfg, dial) ==
    /\ dial.options.tls = cfg.tls
    /\ cfg.tls => dial.options.root = "ca" /\ \E n \in CertificateNames : VerifiedName(dial) = Text(n)
    /\ cfg.auth => dial.options.secret = TrimSpace(cfg.secret)

-----------------------------------------------------------------------------
(* Properties *)

\* What an operator has to see to: TLS is announced only where this server speaks
\* it, and then the name that is configured, else the host in the bundle, is one
\* that the certificate is made for.  A bundle from the command line needs no
\* name, unless the server listens on a name that is not the machine's.
ServerSpeaksTLS(cfg) == cfg.useTLS => cfg.tls
CertificateCovers(cfg, local) ==
    IF ~Blank(cfg.tlsName) THEN cfg.tlsName.says \in CertificateNames
    ELSE IF local THEN cfg.addr.host \in CertificateNames \cup {"", "any", "ip"}
    ELSE IF Blank(cfg.host) THEN cfg.addr.host \in CertificateNames
    ELSE cfg.host.says \in CertificateNames

\* A device that imports an issued bundle dials the configured host and port, or
\* those the server listens on, and gets in exactly if the operator has seen to
\* the two things above: with TLS and with the secret whenever the server wants
\* them, however the configuration was padded.  Without TLS a secret goes to
\* loopback, unless the operator named another host for the devices to dial.
\* What is imported is what was issued, and not without the root certificate
\* (IssueJoinBundle, decodeConnectionCode, probeServer).
IssuedBundleConnects(cfg, local) ==
    LET issued == IF local THEN IssueLocalJoinBundle(cfg) ELSE IssueJoinBundle(BuildControlPlaneConfig(cfg))
        imported == DecodeConnectionCode(issued, "ca")
        dial == ProbeServer(imported.bundle, "ca")
    IN  CanServe(cfg) /\ issued.ok =>
        /\ imported = issued /\ dial.ok
        /\ dial.host = Text(IF Blank(cfg.host) THEN cfg.addr.host ELSE cfg.host.says)
        /\ dial.port = IF cfg.port = 0 THEN cfg.addr.port ELSE cfg.port
        /\ Admits(cfg, dial) <=> ServerSpeaksTLS(cfg) /\ (cfg.tls => CertificateCovers(cfg, local))
        /\ ~dial.options.tls /\ ~Blank(dial.options.secret) =>
              ~Blank(cfg.host) \/ dial.host.says \in LoopbackHosts
        /\ dial.options.tls => ~DecodeConnectionCode(issued, "").ok
=============================================================================
