---------------------------- MODULE MCPayloadWalks ----------------------------
(* One word of options of any kinds and lengths that tell them apart, two of  *)
(* fewer, options that are missing or not all captured; every sequence of up *)
(* to eight octets as chunks, whose lengths are below, at and beyond a chunk  *)
(* header's and the end.                                                     *)
EXTENDS PayloadWalks

Tcp(n, left, octets) ==
    [proto : {"tcp"}, o_len : {n}, left : {left}, octs : [0 .. n - 1 -> octets]]

Sctp(n, octets) ==
    [proto : {"sctp"}, o_len : {0}, left : {n}, octs : [0 .. n - 1 -> octets]]

Objects ==
    Tcp(4, 4, 0 .. 4) \cup Tcp(8, 12, {1, 2, 3}) \cup Tcp(4, 3, {2})
      \cup Tcp(0, 8, {2}) \cup Tcp(-4, 8, {2})
      \cup UNION {Sctp(n, {0, 3, 4}) : n \in 1 .. 8} \cup Sctp(-4, {0})

=============================================================================
