---------------------------- MODULE MCPacketViews ----------------------------
(* Small packets for TLC: one Shape per branch the code takes on it. *)
EXTENDS PacketViews

Packet(i, e, p, n) == [info |-> i, eth |-> e, proto |-> p, l4 |-> n]

tcp4   == Packet("ok", "ip4", "tcp", 2)
udp4   == Packet("ok", "ip4", "udp", 2)
tcp6   == Packet("ok", "ip6", "tcp", 2)
icmp4  == Packet("ok", "ip4", "icmp", 2)
frag4  == Packet("ok", "ip4", "udp", 0)
short4 == Packet("ok", "ip4", "tcp", 1)
arp    == Packet("ok", "other", "none", 0)
bad    == Packet("bad", "other", "none", 0)

\* One packet of each kind, for programs that work on a single packet.
EveryKind == {tcp4, udp4, tcp6, icmp4, frag4, short4, arp, bad}

\* Packets that differ in version and protocol, for programs that keep
\* objects of one packet while they read the next.
TwoPackets == {tcp6, udp4, bad}

\* An IP header read as one of the other version, or octets that are neither:
\* nothing, a header that may be in the right place, and one that is not.
SomeMisread ==
    {NoHeader, [proto |-> "tcp", at |-> "inside", l4 |-> 2],
     [proto |-> "udp", at |-> "L4", l4 |-> 2],
     [proto |-> "tcp", at |-> "inside", l4 |-> 1]}

FewMisread == {NoHeader, [proto |-> "tcp", at |-> "inside", l4 |-> 2]}

=============================================================================
