----------------------------- MODULE FieldAccess -----------------------------
(***************************************************************************)
(* Reading and assigning the properties of one object on a packet's bytes.  *)
(* The bytes are nibbles, octet o being 2o and 2o+1, as captured from l3p on *)
(* and, beyond that, the memory behind them.  A getter changes nothing, so   *)
(* the actions are the assignments and set_l3_cksm; Readable says what every *)
(* getter would give.  What an assignment may write is any value, of which   *)
(* the model keeps one digit, repeated.                                      *)
(***************************************************************************)
EXTENDS HeaderFields

CONSTANTS
    Views,      \* the objects, with the packets under them
    Digits,     \* what assigned values are made of
    Size,       \* octets of memory from l3p on
    MaxWrites   \* bound: assignments a program makes

Nibbles == 0 .. 2 * Size - 1
Nibble == 0 .. 15

TransClasses == {"tcp", "udp", "icmp", "icmp6", "sctp"}
InetClasses == TransClasses \cup {"ip", "ip6", "transport", "l5"}
Classes == InetClasses \cup {"layer3"}
Tags == {"L3", "IP", "IP6", "L4", "TCP", "UDP", "ICMP", "ICMP6", "SCTP", "L5"}

\* An object: its class, its record's tag, kind, lengths and distance from
\* l3p to dp, and the octet at l3p.
View == [cls : Classes, tag : Tags, packet : BOOLEAN, ip4 : BOOLEAN,
         l3_rem : Nat, dp : Nat, rem : Nat, version : Nibble, ihl : Nibble]

ASSUME FieldAccessAssumption ==
    /\ Views \subseteq View
    /\ Digits \subseteq Nibble
    /\ Size \in Nat /\ Size >= 40
    /\ \A v \in Views : v.l3_rem <= Size /\ v.dp + v.rem <= Size
    /\ MaxWrites \in Nat

VARIABLES
    view,     \* the object, fixed once chosen
    mem,      \* the nibbles from l3p on
    op,       \* the last assignment
    writes    \* how many there were

vars == <<view, mem, op, writes>>

\* An assignment: the property, the number of nibbles of its value and what
\* they are, whether the value was one for the field, whether it was stored.
Props == {"none", "data", "traffic_class", "hop_limit", "src_prefix",
          "dst_prefix", "ttl", "ip_checksum", "checksum", "l3_cksm"}
Op == [prop : Props, len : Nat, digit : Nibble, fits : BOOLEAN, done : BOOLEAN]

-----------------------------------------------------------------------------
(* Getters *)

\* check_inet: the version is read first, whatever was captured.
CheckInet(version, need) == mem[0] = version /\ view.l3_rem >= need

\* Mutant: the getters read whatever was captured.
CheckTagAnyLength(tag, captured, need) == view.tag = tag

\* check_ip .. check_sctp: another tag raises, too few octets give None.
CheckTag(tag, captured, need) == view.tag = tag /\ captured >= need

\* Rows of a table that starts at octet `base', of whose header `captured'
\* octets are there.
At(base, captured, rows) ==
    {[name |-> f.name, lo |-> 2 * base + f.lo, hi |-> 2 * base + f.hi,
      end |-> base + captured] : f \in rows}

AtL3(rows) == At(0, view.l3_rem, rows)
AtDp(rows) == At(view.dp, view.rem, rows)

InetReadable ==
    IF view.cls \in InetClasses
    THEN AtL3({f \in Inet4Fields : CheckInet(4, f.need)}
                \cup {f \in Inet6Fields : CheckInet(6, f.need)})
    ELSE {}

\* _icmp_obj and _icmp6_obj extend _ip_obj, and override its checksum.
IpReadable ==
    LET rows == IF view.cls = "ip" THEN IpFields
                ELSE IF view.cls \in {"icmp", "icmp6"}
                     THEN {f \in IpFields : f.name # "ip_checksum"}
                     ELSE {}
    IN AtL3({f \in rows : CheckTag("IP", view.l3_rem, f.need)})
         \cup IF view.cls = "ip6"
              THEN AtL3({f \in Ip6Fields :
                           CheckTag("IP6", view.l3_rem, f.need)})
              ELSE {}

Tagged(tag, rows) == {f \in rows : CheckTag(tag, view.rem, f.need)}
Bodies(rows) == {f \in rows : view.rem >= 8 /\ view.rem >= f.need}

\* The objects for ICMP bodies look at no tag.
TransReadable ==
    CASE view.cls = "tcp"   -> AtDp(Tagged("TCP", TcpFields))
      [] view.cls = "udp"   -> AtDp(Tagged("UDP", UdpFields))
      [] view.cls = "icmp"  -> AtDp(Tagged("ICMP", MessageFields)
                                      \cup Bodies(IcmpBodyFields))
      [] view.cls = "icmp6" -> AtDp(Tagged("ICMP6", MessageFields)
                                      \cup Bodies(Icmp6BodyFields))
      [] view.cls = "sctp"  -> AtDp(Tagged("SCTP", SctpFields))
      [] OTHER -> {}

\* What the object's getters can read now; the others give None or raise.
Readable == InetReadable \cup IpReadable \cup TransReadable

-----------------------------------------------------------------------------
(* Assignments *)

Fill(lo, hi, d) == [n \in Nibbles |-> IF n \in lo .. hi THEN d ELSE mem[n]]

Did(p, len, d, fits, done) ==
    op' = [prop |-> p, len |-> len, digit |-> d, fits |-> fits, done |-> done]

\* Also for a value that cffi cannot convert: nothing has been stored yet.
Nothing(p) == Did(p, 0, 0, FALSE, FALSE) /\ mem' = mem

\* Octets first .. last get a value.
Store(p, first, last, d) ==
    /\ mem' = Fill(2 * first, 2 * last + 1, d)
    /\ Did(p, 2 * (last - first + 1), d, TRUE, TRUE)

Neither(n4, n6) == ~CheckInet(4, n4) /\ ~CheckInet(6, n6)

\* Only for data of the same length, over all the octets at dp.
SetData(d) ==
    \/ Nothing("data")
    \/ Store("data", view.dp, view.dp + view.rem - 1, d)

\* Mutants: what the value has above its octet spills into the digit; the
\* version nibble is masked away with the old class.
SetTrafficClassSpills(d, wide) ==
    /\ view.cls \in InetClasses
    /\ CheckInet(6, 2)
    /\ mem' = Fill(1, 2, d + 16 * wide)
    /\ Did("traffic_class", 2, d, wide = 0, TRUE)

SetTrafficClassNoVersion(d, wide) ==
    /\ view.cls \in InetClasses
    /\ CheckInet(6, 2)
    /\ mem' = [Fill(1, 2, d) EXCEPT ![0] = 0]
    /\ Did("traffic_class", 2, d, TRUE, TRUE)

\* In IPv6 the value is or-ed into two octets, which keeps the version and
\* the flow label if it fits in one.  `wide' is what it has above that.
SetTrafficClass(d, wide) ==
    /\ view.cls \in InetClasses
    /\ \/ CheckInet(4, 2) /\ wide = 0 /\ Store("traffic_class", 1, 1, d)
       \/ /\ CheckInet(6, 2)
          /\ mem' = [Fill(1, 2, d) EXCEPT ![0] = IF wide = 1 THEN 7 ELSE 6]
          /\ Did("traffic_class", 2, d, wide = 0, TRUE)
       \/ (Neither(2, 2) \/ wide # 0) /\ Nothing("traffic_class")

\* Mutant: the limit is stored in the octet of the other version.
SetHopLimitSwapped(d) ==
    /\ view.cls \in InetClasses
    /\ \/ CheckInet(4, 9) /\ Store("hop_limit", 7, 7, d)
       \/ CheckInet(6, 8) /\ Store("hop_limit", 8, 8, d)

SetHopLimit(d) ==
    /\ view.cls \in InetClasses
    /\ \/ CheckInet(4, 9) /\ Store("hop_limit", 8, 8, d)
       \/ CheckInet(6, 8) /\ Store("hop_limit", 7, 7, d)
       \/ Nothing("hop_limit")

\* An IPv6 header is given 16 octets, also from an IPv4 prefix, which has
\* four and whatever memory follows them.
SetAddress(p, first4, first6, d, rest) ==
    /\ view.cls \in InetClasses
    /\ \/ CheckInet(4, 16) /\ Store(p, first4, first4 + 3, d)
       \/ CheckInet(6, 24) /\ Store(p, first6, first6 + 15, d)
       \/ /\ CheckInet(6, 24)
          /\ mem' = [n \in Nibbles |->
                       IF n \in 2 * first6 .. 2 * first6 + 7 THEN d
                       ELSE IF n \in 2 * first6 + 8 .. 2 * first6 + 31
                            THEN rest ELSE mem[n]]
          /\ Did(p, 8, d, TRUE, TRUE)
       \/ Neither(16, 24) /\ Nothing(p)

SetSrcPrefix(d, rest) == SetAddress("src_prefix", 12, 8, d, rest)

\* The lengths asked for are those of the source.
SetDstPrefix(d, rest) == SetAddress("dst_prefix", 16, 24, d, rest)

\* Mutant: the answer of check_ip is not looked at.
SetTtlUnchecked(d) ==
    /\ view.cls \in {"ip", "icmp", "icmp6"}
    /\ view.tag = "IP"
    /\ Store("ttl", 8, 8, d)

\* Too few octets: nothing is done and nothing is said.
SetTtl(d) ==
    /\ view.cls \in {"ip", "icmp", "icmp6"}
    /\ \/ CheckTag("IP", view.l3_rem, 9) /\ Store("ttl", 8, 8, d)
       \/ Nothing("ttl")

SetIpChecksum(d) ==
    /\ view.cls = "ip"
    /\ \/ /\ view.packet /\ CheckTag("IP", view.l3_rem, 12)
          /\ Store("ip_checksum", 10, 11, d)
       \/ Nothing("ip_checksum")

\* The tag is checked; how much was captured is asked and not looked at.
SetChecksum(d) ==
    \E h \in {<<"tcp", "TCP", 16>>, <<"udp", "UDP", 6>>,
              <<"icmp", "ICMP", 2>>, <<"icmp6", "ICMP6", 2>>} :
        /\ view.cls = h[1]
        /\ \/ /\ view.tag = h[2]
              /\ Store("checksum", view.dp + h[3], view.dp + h[3] + 1, d)
           \/ Nothing("checksum")

\* l3_checksum trusts the header's own length, which may be less than the
\* checksum's place.
SetL3Cksm(d) ==
    /\ view.cls \in InetClasses
    /\ \/ /\ view.ip4 /\ view.l3_rem >= 1 /\ view.l3_rem >= 4 * mem[1]
          /\ Store("l3_cksm", 10, 11, d)
       \/ /\ ~view.ip4 \/ view.l3_rem < 1 \/ view.l3_rem < 4 * mem[1]
          /\ Nothing("l3_cksm")

-----------------------------------------------------------------------------

Init ==
    /\ view \in Views
    /\ mem = [n \in Nibbles |-> IF n = 0 THEN view.version
                                ELSE IF n = 1 THEN view.ihl ELSE 0]
    /\ op = [prop |-> "none", len |-> 0, digit |-> 0, fits |-> FALSE,
             done |-> FALSE]
    /\ writes = 0

Assign(d) ==
    \/ SetData(d)
    \/ \E wide \in 0 .. 2 : SetTrafficClass(d, wide)
    \/ SetHopLimit(d)
    \/ \E rest \in Digits : SetSrcPrefix(d, rest) \/ SetDstPrefix(d, rest)
    \/ SetTtl(d) \/ SetIpChecksum(d) \/ SetChecksum(d) \/ SetL3Cksm(d)

Next ==
    /\ writes < MaxWrites
    /\ writes' = writes + 1
    /\ view' = view
    /\ \E d \in Digits : Assign(d)

Spec == Init /\ [][Next]_vars

-----------------------------------------------------------------------------
(* Properties *)

\* Memory holds nibbles; the object does not change its form.
TypeOK ==
    /\ view \in Views
    /\ mem \in [Nibbles -> Nibble]
    /\ op \in Op
    /\ writes \in Nat

\* However short the capture and whatever was assigned before, no getter
\* looks further than one octet past the captured bytes of its header (and
\* has_df, has_mf and check_inet's version do look there).
GettersStayNear ==
    \A r \in Readable : r.hi \div 2 <= r.end

\* Properties that name the same bytes, or all of them.
SameBytes(p) ==
    CASE p \in {"ttl", "hop_limit"} -> {"ttl", "hop_limit"}
      [] p = "l3_cksm" -> {"ip_checksum"}
      [] OTHER -> {p}

\* The header at l3p is the one that ethertype and tag announce, and the
\* transport header lies behind it.  Not so after other data was assigned, for
\* the packet quoted in an ICMPv6 error, which is made an _ip_obj on the outer
\* header, and for an sctp() object, whose l3p is its dp.
HeadersApart ==
    /\ view.ip4 \/ view.tag = "IP" => mem[0] = 4
    /\ view.tag = "IP6" => mem[0] = 6
    /\ view.cls \in TransClasses /\ view.l3_rem # 0 =>
         view.dp >= IF mem[0] = 6 THEN 40 ELSE 20

\* Where headers are apart, assigning a property leaves every other one
\* readable and as it was: the flow label and version beside an IPv6 traffic
\* class, the fields around a checksum, the TCP header after an address.
LeavesTheRest ==
    HeadersApart /\ op'.done /\ op'.fits /\ op'.prop # "data" =>
        \A r \in Readable :
            r.name \notin SameBytes(op'.prop) =>
                /\ r \in Readable'
                /\ \A n \in r.lo .. r.hi : mem'[n] = mem[n]

AssignOnlyOwn == [][LeavesTheRest]_vars

\* Whatever was stored is what the getter of that property then reads, in
\* both versions of the header; traffic_class takes its low octet.
ReadsBack ==
    HeadersApart /\ op'.done =>
        \A r \in Readable' :
            r.name \in SameBytes(op'.prop) =>
                \A n \in r.lo .. r.hi :
                    n - r.lo < op'.len => mem'[n] = op'.digit

SetThenGet == [][ReadsBack]_vars

\* Assignments write captured bytes only, but for three that ask for fewer
\* octets than they write: dst_prefix, which stays within its address, a
\* transport checksum, and the header checksum of a header that claims to be
\* shorter than the checksum's place.
Captured == {n \in Nibbles : \/ n \div 2 < view.l3_rem
                             \/ n \div 2 < view.dp + view.rem}

WritesCaptured ==
    \A n \in Nibbles \ Captured :
        mem'[n] # mem[n] =>
            \/ op'.prop = "checksum"
            \/ op'.prop = "dst_prefix" /\ n \div 2 < view.l3_rem + 16
            \/ op'.prop = "l3_cksm" /\ mem[1] < 3

AssignStaysNear == [][WritesCaptured]_vars

=============================================================================
