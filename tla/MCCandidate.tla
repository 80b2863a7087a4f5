----------------------------- MODULE MCCandidate -----------------------------
(* Six probes and four confirmations, an even number, over latencies on       *)
(* both sides of the budget.  The links: every network and security with and  *)
(* without a name of their own, for each protocol; the transport and          *)
(* handshake options one at a time; and the ways not to parse.                *)
EXTENDS Candidate

MCGiven == [tcp |-> 0, xray |-> -1, batch |-> 501, lite |-> FALSE,
            Probes |-> 6, Confirm |-> 4, MaxLatency |-> 2, ProbeTimeout |-> 0]

MCLatency == {1, 4}

plain == [scheme |-> "vless", cred |-> "id", add |-> "origin", port |-> 2053,
          type |-> Absent, security |-> Absent, sni |-> Absent, host |-> Absent, path |-> Absent,
          service |-> Absent, mode |-> Absent, extra |-> Absent, header |-> Absent, fp |-> Absent,
          hello |-> Absent, keys |-> Absent]

secured == [plain EXCEPT !.security = "tls", !.sni = "front"]

fronted == {[plain EXCEPT !.scheme = p, !.type = t, !.security = s, !.sni = n, !.host = h] :
               p \in {"vless", "vmess"}, t \in {Absent, "ws"}, s \in {"0", "1", "reality"},
               n \in {Absent, "front"}, h \in {Absent, "cdn"}}

networks == {[secured EXCEPT !.scheme = p, !.type = t, !.path = "/p"] :
               p \in {"trojan", "vmess"}, t \in {"grpc", "h2", "splithttp", "quic"}}

options == {[secured EXCEPT !.type = "xhttp", !.mode = "auto", !.extra = x] :
               x \in {Absent, "json", "broken"}}
           \union
           {[secured EXCEPT !.type = "grpc", !.mode = m, !.service = "s"] :
               m \in {Absent, "multi"}}
           \union
           {[secured EXCEPT !.header = "http"],
            [secured EXCEPT !.fp = "firefox", !.hello = "ech"],
            [secured EXCEPT !.security = "reality", !.keys = "k"],
            [secured EXCEPT !.security = "xtls"],
            [secured EXCEPT !.scheme = "trojan", !.security = Absent]}

malformed == {[plain EXCEPT !.scheme = "other"], [plain EXCEPT !.cred = Absent],
              [plain EXCEPT !.add = Absent], [plain EXCEPT !.port = 0],
              [plain EXCEPT !.port = 65536]}

MCLinks == fronted \union networks \union options \union malformed
=============================================================================
