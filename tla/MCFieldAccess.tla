---------------------------- MODULE MCFieldAccess ----------------------------
(* Objects on whole headers, on headers cut short in and between fields, and  *)
(* on records that were re-tagged or made by the program.                     *)
EXTENDS FieldAccess

Obj(c, t, l3, dp, rem, v, ihl) ==
    [cls |-> c, tag |-> t, packet |-> TRUE, ip4 |-> v = 4,
     l3_rem |-> l3, dp |-> dp, rem |-> rem, version |-> v, ihl |-> ihl]

Whole == {
    Obj("ip", "IP", 24, 0, 24, 4, 5),      Obj("ip6", "IP6", 44, 0, 44, 6, 0),
    Obj("tcp", "TCP", 40, 20, 20, 4, 5),   Obj("udp", "UDP", 48, 40, 8, 6, 0),
    Obj("icmp", "ICMP", 28, 20, 8, 4, 5),  Obj("sctp", "SCTP", 32, 20, 12, 4, 5),
    Obj("icmp6", "ICMP6", 64, 40, 24, 6, 0),
    Obj("layer3", "L3", 24, 0, 24, 4, 5)}

Cut == {
    Obj("ip", "IP", 6, 0, 6, 4, 1),        Obj("ip", "IP", 16, 0, 16, 4, 4),
    Obj("ip", "IP", 4, 0, 4, 4, 0),        Obj("ip6", "IP6", 24, 0, 24, 6, 0),
    Obj("ip6", "IP6", 7, 0, 7, 6, 0),      Obj("tcp", "TCP", 32, 20, 12, 4, 5),
    Obj("icmp", "ICMP", 22, 20, 2, 4, 5),  Obj("transport", "L4", 0, 0, 0, 4, 5)}

\* A TCP object whose record an ip view has re-tagged, an ICMP object likewise,
\* the packet quoted by an ICMPv6 error, a TCP and an SCTP header from byte
\* arrays, a payload.
Other == {
    Obj("tcp", "IP", 40, 20, 20, 4, 5),    Obj("icmp", "IP", 28, 20, 8, 4, 5),
    [Obj("tcp", "TCP", 0, 0, 20, 4, 5) EXCEPT !.packet = FALSE, !.ip4 = FALSE],
    Obj("ip", "IP", 64, 48, 16, 6, 0),
    [Obj("sctp", "SCTP", 24, 0, 24, 4, 5) EXCEPT !.packet = FALSE, !.ip4 = FALSE],
    [Obj("l5", "L5", 44, 40, 4, 4, 5) EXCEPT !.packet = FALSE, !.ip4 = FALSE]}

Objects == Whole \cup Cut \cup Other

=============================================================================
