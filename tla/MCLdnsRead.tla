------------------------------ MODULE MCLdnsRead ------------------------------
(* All traces of up to two packets, each of them cut before, in and behind  *)
(* the length and the message, of another kind, or of IPv6.                 *)
EXTENDS LdnsRead

P(proto, cap, m) ==
    [ip6 |-> FALSE, proto |-> proto, fragment |-> FALSE,
     cap |-> cap, message |-> m]

Packets ==
    {P("udp", -1, "none"), P("udp", 0, "none"), P("udp", 3, "none"),
     P("udp", 3, "question"), P("tcp", 0, "none"), P("tcp", 1, "none"),
     P("tcp", 2, "none"), P("tcp", 5, "none"), P("tcp", 5, "question"),
     P("udp", 3, "bare"), P("other", 3, "none"),
     [P("udp", 3, "none") EXCEPT !.fragment = TRUE],
     [P("udp", 3, "question") EXCEPT !.ip6 = TRUE],
     [P("tcp", 5, "question") EXCEPT !.ip6 = TRUE],
     [P("other", 3, "none") EXCEPT !.ip6 = TRUE]}

AllTraces == UNION {[1 .. k -> Packets] : k \in 0 .. 2}

=============================================================================
