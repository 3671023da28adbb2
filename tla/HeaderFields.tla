----------------------------- MODULE HeaderFields -----------------------------
(***************************************************************************)
(* Where the properties of plt.py's header classes lie.  A row names a      *)
(* property, the octets its getter asks for before it reads, and the        *)
(* nibbles that hold the value, counted from the start of the header.       *)
(***************************************************************************)
EXTENDS Integers

Nibs(name, need, lo, hi) == [name |-> name, need |-> need, lo |-> lo, hi |-> hi]
Octs(name, need, first, last) == Nibs(name, need, 2 * first, 2 * last + 1)

-----------------------------------------------------------------------------
(* _inet_obj: one layout for each version that check_inet can find.  The    *)
(* protocol of an IPv6 packet is libtrace's to find.                        *)

Inet4Fields == {
    Nibs("version", 1, 0, 0),          Nibs("hdr_len", 1, 1, 1),
    Octs("traffic_class", 2, 1, 1),    Octs("pkt_len", 4, 2, 3),
    Octs("hop_limit", 9, 8, 8),        Octs("proto", 10, 9, 9),
    Octs("src_prefix", 16, 12, 15),    Octs("dst_prefix", 20, 16, 19)}

Inet6Fields == {
    Nibs("version", 1, 0, 0),          Nibs("traffic_class", 2, 1, 2),
    Octs("hop_limit", 8, 7, 7),
    Octs("src_prefix", 24, 8, 23),     Octs("dst_prefix", 40, 24, 39)}

\* has_df and has_mf look one octet further than they ask for.
IpFields == {
    Octs("ident", 6, 4, 5),            Nibs("has_rf", 7, 12, 12),
    Nibs("has_df", 6, 12, 12),         Nibs("has_mf", 6, 12, 12),
    Nibs("frag_offset", 8, 12, 15),    Octs("ttl", 9, 8, 8),
    Octs("ip_checksum", 12, 10, 11)}

Ip6Fields == {
    Nibs("flow_label", 4, 3, 7),       Octs("payload_len", 6, 4, 5),
    Octs("next_hdr", 7, 6, 6)}

-----------------------------------------------------------------------------
(* The transport headers, from dp *)

TcpFields == {
    Octs("src_port", 2, 0, 1),         Octs("dst_port", 4, 2, 3),
    Octs("seq_nbr", 8, 4, 7),          Octs("ack_nbr", 12, 8, 11),
    Nibs("doff", 13, 24, 24),          Nibs("flags", 14, 25, 27),
    Nibs("urg_flag", 14, 26, 26),      Nibs("ack_flag", 14, 26, 26),
    Nibs("psh_flag", 14, 27, 27),      Nibs("rst_flag", 14, 27, 27),
    Nibs("syn_flag", 14, 27, 27),      Nibs("fin_flag", 14, 27, 27),
    Octs("window", 16, 14, 15),        Octs("checksum", 18, 16, 17),
    Octs("urg_ptr", 20, 18, 19)}

UdpFields == {
    Octs("src_port", 2, 0, 1),         Octs("dst_port", 4, 2, 3),
    Octs("len", 6, 4, 5),              Octs("checksum", 8, 6, 7)}

\* The four octets that ICMP and ICMPv6 messages begin with.
MessageFields == {
    Octs("type", 1, 0, 0),             Octs("code", 2, 1, 1),
    Octs("checksum", 4, 2, 3)}

\* _echo_obj and _redirect_obj
IcmpBodyFields == {
    Octs("ident", 6, 4, 5),            Octs("sequence", 8, 6, 7),
    Octs("gateway", 8, 4, 7)}

\* _echo_obj, _toobig_obj, _param_obj and _neighbour_obj
Icmp6BodyFields == {
    Octs("ident", 6, 4, 5),            Octs("sequence", 8, 6, 7),
    Octs("mtu", 8, 4, 7),              Octs("pointer", 8, 4, 7),
    Octs("target_prefix", 24, 8, 23)}

SctpFields == {
    Octs("src_port", 2, 0, 1),         Octs("dst_port", 4, 2, 3),
    Octs("verification_tag", 8, 4, 7), Octs("checksum", 12, 8, 11)}

=============================================================================
