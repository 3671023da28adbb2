----------------------------- MODULE MCIpPrefix -----------------------------
(* Addresses that differ in and around the octet of a boundary, one private    *)
(* and two not, and an IPv6 address; lengths inside an octet, at its end,     *)
(* none, zero and illegal ones.                                              *)
EXTENDS IpPrefix

Of(ver, bits, len) ==
    [ver |-> ver, len |-> len,
     addr |-> [i \in 0 .. Bits(ver) - 1 |-> IF i \in bits THEN 1 ELSE 0]]

\* 10.0.64.1, 10.0.64.0/18, 10.0.64.1/0 and 11.0.0.0/33
SomeStrings ==
    {Of(4, {4, 6, 17, 31}, NoLength), Of(4, {4, 6, 17}, 18),
     Of(4, {4, 6, 17, 31}, 0), Of(4, {4, 6, 7}, 33)}

\* 10.0.64.1/0, 8000::1/18 and 11.0.0.0/33
SomeArrays ==
    {Of(4, {4, 6, 17, 31}, 0), Of(6, {0, 127}, 18), Of(4, {4, 6, 7}, 33)}

Asked == {-8, -1, 0, 18, 32}

=============================================================================
