----------------------------- MODULE MCFlowTable -----------------------------
(* Addresses of two 2-bit octets; home is 10/2 in IPv4 and 101/3 in IPv6. *)
EXTENDS FlowTable

IP(b) == [i \in 0 .. 3 |-> b[i + 1]]
inside  == IP(<<1, 0, 1, 1>>)
outside == IP(<<0, 1, 1, 0>>)

Fkey(v, p, s, sp, d, dp) ==
    [version |-> v, proto |-> p, sport |-> sp, dport |-> dp,
     saddr |-> s, daddr |-> d]

out   == Fkey(4, 6, inside, 1, outside, 2)
six   == Fkey(6, 6, inside, 1, outside, 2)
self  == Fkey(4, 1, outside, 0, outside, 0)

\* Both directions of a flow, an IPv6 flow, and a key that is its own reverse
\* (an ICMP message of a host to itself).
SomePackets == {out, Rev(out), six, self}

HomeNets ==
    [h \in {"v4", "v6"} |->
       IF h = "v4"
       THEN [version |-> 4, addr |-> IP(<<1, 0, 1, 0>>), length |-> 2]
       ELSE [version |-> 6, addr |-> IP(<<1, 0, 1, 1>>), length |-> 3]]

=============================================================================
