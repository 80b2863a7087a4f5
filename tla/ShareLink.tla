------------------------------ MODULE ShareLink ------------------------------
(****************************************************************************)
(* Share links and what xray is configured with: Parse turns a vless, vmess *)
(* or trojan link into an Outbound, buildOutbound dials a candidate with    *)
(* it, Substitute writes the candidate's address into the link that is      *)
(* handed to the user.  All three are functions of their arguments.         *)
(*                                                                          *)
(* A raw link is a record of what the URL or the JSON payload spells out,   *)
(* Absent (the code's empty string) for what it leaves out; port is 0 when  *)
(* it is missing or not a number.  Some fields stand for several that only  *)
(* travel together: cred for the credential with the flow or the cipher     *)
(* that goes with it, hello for alpn, ech and allowInsecure, keys for the   *)
(* three of reality.                                                        *)
(****************************************************************************)
EXTENDS Integers

Absent == "absent"

Ports == 1..65535

RawLinks == [scheme : {"vless", "vmess", "trojan", "other"},
             cred : STRING, add : STRING, port : Int,
             type : STRING, security : STRING, sni : STRING, host : STRING,
             path : STRING, service : STRING, mode : STRING, extra : STRING,
             header : STRING, fp : STRING, hello : STRING, keys : STRING]

first(v, default) == IF v = Absent THEN default ELSE v

-----------------------------------------------------------------------------
(* link.Parse *)

normSecurity(s) == CASE s = "0" -> "none"
                     [] s = "1" -> "tls"
                     [] OTHER   -> s

normNetwork(n) == CASE n = "h2"        -> "http"
                    [] n = "splithttp" -> "xhttp"
                    [] OTHER           -> n

\* The Outbound before its defaults.  Trojan is TLS unless it says otherwise
\* and has no reality keys; a vmess payload has neither a transport mode nor
\* extra settings, its "type" is not used, and the path of a grpc one is the
\* name of its service.
spelled(raw) ==
    LET url == raw.scheme # "vmess"
        only(b, v) == IF b THEN v ELSE Absent IN
    [protocol |-> raw.scheme, address |-> raw.add, port |-> raw.port,
     cred     |-> raw.cred,
     network  |-> first(raw.type, "tcp"),
     security |-> first(raw.security, IF raw.scheme = "trojan" THEN "tls" ELSE "none"),
     sni      |-> raw.sni,
     host     |-> raw.host,
     path     |-> first(raw.path, "/"),
     service  |-> IF url THEN raw.service ELSE only(raw.type = "grpc", raw.path),
     mode     |-> only(url, raw.mode),
     extra    |-> only(url, raw.extra),
     header   |-> only(url, raw.header),
     fp       |-> raw.fp,
     hello    |-> raw.hello,
     keys     |-> only(raw.scheme = "vless", raw.keys)]

\* A missing Host falls back to the server's address, a missing SNI to the Host.
applyDefaults(o) ==
    LET host == first(o.host, o.address) IN
    [o EXCEPT !.security = normSecurity(@),
              !.host     = host,
              !.sni      = first(@, host),
              !.network  = normNetwork(@)]

\* Parse returns no error.
parses(raw) == /\ raw.scheme # "other" /\ raw.cred # Absent
               /\ raw.add # Absent /\ raw.port \in Ports

Parse(raw) == applyDefaults(spelled(raw))

-----------------------------------------------------------------------------
(* link.Substitute *)

\* Faulty variant: the link keeps its own port.
SubstituteKeepsPort(raw, ip, port) == [raw EXCEPT !.add = ip]

\* The link with its address replaced, and its port if one is given.  (It is
\* an error for a link that does not parse; every caller has parsed it.)
Substitute(raw, ip, port) ==
    [raw EXCEPT !.add = ip, !.port = IF port > 0 THEN port ELSE @]

-----------------------------------------------------------------------------
(* xray.buildOutbound *)

Networks == {"tcp", "ws", "grpc", "http", "xhttp"}

\* The transport: what of the Outbound each network sends, Absent for what it
\* does not.
transport(o) ==
    LET named == \/ o.network \in {"ws", "http", "xhttp"}
                 \/ o.network = "tcp" /\ o.header = "http"
        only(b, v) == IF b THEN v ELSE Absent IN
    [network |-> o.network,
     host    |-> only(named, o.host),
     path    |-> only(named, o.path),
     service |-> only(o.network = "grpc", o.service),
     multi   |-> o.network = "grpc" /\ o.mode = "multi",
     mode    |-> only(o.network = "xhttp", o.mode),
     extra   |-> only(o.network = "xhttp", o.extra)]

\* The handshake: TLS presents the SNI with the link's options, reality presents
\* it with its keys and always a fingerprint.
handshake(o) ==
    LET secured == o.security \in {"tls", "reality"}
        tls     == o.security = "tls"
        only(b, v) == IF b THEN v ELSE Absent IN
    [security    |-> o.security,
     serverName  |-> only(secured, o.sni),
     fingerprint |-> IF tls THEN o.fp ELSE only(secured, first(o.fp, "chrome")),
     hello       |-> only(tls, o.hello),
     keys        |-> only(o.security = "reality", o.keys)]

\* buildOutbound and the encoding of the configuration return no error: the
\* security and the network are supported and the extra settings are JSON.
builds(o) == /\ o.security \in {"none", "tls", "reality"}
             /\ o.network \in Networks
             /\ ~(o.network = "xhttp" /\ o.extra = "broken")

\* The outbound that dials ip:port.
buildOutbound(o, ip, port) ==
    [protocol |-> o.protocol, address |-> ip, port |-> port,
     cred |-> o.cred,
     transport |-> transport(o), handshake |-> handshake(o)]

=============================================================================
