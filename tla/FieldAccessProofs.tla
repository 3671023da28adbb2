-------------------------- MODULE FieldAccessProofs --------------------------
(***************************************************************************)
(* Proofs of FieldAccess's properties, for objects of any lengths on any     *)
(* packet.  The tables are constants: what the proofs need of their rows is  *)
(* stated first, and the rest follows from where rows and assignments lie.   *)
(***************************************************************************)
EXTENDS FieldAccess, TLAPS

Header4 == Inet4Fields \cup IpFields
Header6 == Inet6Fields \cup Ip6Fields

\* A row of a layer-3 header lies in the octets its getter asks for or one
\* further; one of a transport header in those it asks for.
Row(f) ==
    /\ f.need \in Nat \ {0} /\ f.lo \in Nat /\ f.hi \in Nat /\ f.lo <= f.hi
    /\ f.hi <= 2 * f.need + 1

TransRow(f) == Row(f) /\ f.hi < 2 * f.need

\* The rows that name a property in `names' lie at lo .. hi, others elsewhere.
Apart(rows, names, lo, hi) ==
    \A f \in rows : IF f.name \in names THEN f.lo = lo /\ f.hi = hi
                    ELSE f.hi < lo \/ f.lo > hi

InetNames == {"traffic_class", "hop_limit", "ttl", "src_prefix", "dst_prefix",
              "ip_checksum", "data"}

-----------------------------------------------------------------------------
(* The tables *)

LEMMA Rows4 == \A f \in Header4 : Row(f) /\ f.hi < 40 /\ f.name \notin {"checksum", "data"}
  <1>1. \A f \in Inet4Fields : Row(f) /\ f.hi < 40 /\ f.name \notin {"checksum", "data"}
    BY SMT DEF Inet4Fields, Octs, Nibs, Row
  <1>2. \A f \in IpFields : Row(f) /\ f.hi < 40 /\ f.name \notin {"checksum", "data"}
    BY SMT DEF IpFields, Octs, Nibs, Row
  <1> QED
    BY <1>1, <1>2 DEF Header4

LEMMA Rows6 == \A f \in Header6 : Row(f) /\ f.hi < 80 /\ f.name \notin {"checksum", "data"}
  <1>1. \A f \in Inet6Fields : Row(f) /\ f.hi < 80 /\ f.name \notin {"checksum", "data"}
    BY SMT DEF Inet6Fields, Octs, Nibs, Row
  <1>2. \A f \in Ip6Fields : Row(f) /\ f.hi < 80 /\ f.name \notin {"checksum", "data"}
    BY SMT DEF Ip6Fields, Octs, Nibs, Row
  <1> QED
    BY <1>1, <1>2 DEF Header6

LEMMA Apart4 ==
    /\ Apart(Header4, {"traffic_class"}, 2, 3)
    /\ Apart(Header4, {"ttl", "hop_limit"}, 16, 17)
    /\ Apart(Header4, {"ip_checksum"}, 20, 23)
    /\ Apart(Header4, {"src_prefix"}, 24, 31)
    /\ Apart(Header4, {"dst_prefix"}, 32, 39)
  <1>1. Apart(Header4, {"traffic_class"}, 2, 3)
    <2>1. Apart(Inet4Fields, {"traffic_class"}, 2, 3)
      BY SMT DEF Inet4Fields, Octs, Nibs, Apart
    <2>2. Apart(IpFields, {"traffic_class"}, 2, 3)
      BY SMT DEF IpFields, Octs, Nibs, Apart
    <2> QED
      BY <2>1, <2>2 DEF Header4, Apart
  <1>2. Apart(Header4, {"ttl", "hop_limit"}, 16, 17)
    <2>1. Apart(Inet4Fields, {"ttl", "hop_limit"}, 16, 17)
      BY SMT DEF Inet4Fields, Octs, Nibs, Apart
    <2>2. Apart(IpFields, {"ttl", "hop_limit"}, 16, 17)
      BY SMT DEF IpFields, Octs, Nibs, Apart
    <2> QED
      BY <2>1, <2>2 DEF Header4, Apart
  <1>3. Apart(Header4, {"ip_checksum"}, 20, 23)
    <2>1. Apart(Inet4Fields, {"ip_checksum"}, 20, 23)
      BY SMT DEF Inet4Fields, Octs, Nibs, Apart
    <2>2. Apart(IpFields, {"ip_checksum"}, 20, 23)
      BY SMT DEF IpFields, Octs, Nibs, Apart
    <2> QED
      BY <2>1, <2>2 DEF Header4, Apart
  <1>4. Apart(Header4, {"src_prefix"}, 24, 31)
    <2>1. Apart(Inet4Fields, {"src_prefix"}, 24, 31)
      BY SMT DEF Inet4Fields, Octs, Nibs, Apart
    <2>2. Apart(IpFields, {"src_prefix"}, 24, 31)
      BY SMT DEF IpFields, Octs, Nibs, Apart
    <2> QED
      BY <2>1, <2>2 DEF Header4, Apart
  <1>5. Apart(Header4, {"dst_prefix"}, 32, 39)
    <2>1. Apart(Inet4Fields, {"dst_prefix"}, 32, 39)
      BY SMT DEF Inet4Fields, Octs, Nibs, Apart
    <2>2. Apart(IpFields, {"dst_prefix"}, 32, 39)
      BY SMT DEF IpFields, Octs, Nibs, Apart
    <2> QED
      BY <2>1, <2>2 DEF Header4, Apart
  <1> QED
    BY <1>1, <1>2, <1>3, <1>4, <1>5

LEMMA Apart6 ==
    /\ Apart(Header6, {"traffic_class"}, 1, 2)
    /\ Apart(Header6, {"ttl", "hop_limit"}, 14, 15)
    /\ Apart(Header6, {"src_prefix"}, 16, 47)
    /\ Apart(Header6, {"dst_prefix"}, 48, 79)
  <1>1. Apart(Header6, {"traffic_class"}, 1, 2)
    <2>1. Apart(Inet6Fields, {"traffic_class"}, 1, 2)
      BY SMT DEF Inet6Fields, Octs, Nibs, Apart
    <2>2. Apart(Ip6Fields, {"traffic_class"}, 1, 2)
      BY SMT DEF Ip6Fields, Octs, Nibs, Apart
    <2> QED
      BY <2>1, <2>2 DEF Header6, Apart
  <1>2. Apart(Header6, {"ttl", "hop_limit"}, 14, 15)
    <2>1. Apart(Inet6Fields, {"ttl", "hop_limit"}, 14, 15)
      BY SMT DEF Inet6Fields, Octs, Nibs, Apart
    <2>2. Apart(Ip6Fields, {"ttl", "hop_limit"}, 14, 15)
      BY SMT DEF Ip6Fields, Octs, Nibs, Apart
    <2> QED
      BY <2>1, <2>2 DEF Header6, Apart
  <1>3. Apart(Header6, {"src_prefix"}, 16, 47)
    <2>1. Apart(Inet6Fields, {"src_prefix"}, 16, 47)
      BY SMT DEF Inet6Fields, Octs, Nibs, Apart
    <2>2. Apart(Ip6Fields, {"src_prefix"}, 16, 47)
      BY SMT DEF Ip6Fields, Octs, Nibs, Apart
    <2> QED
      BY <2>1, <2>2 DEF Header6, Apart
  <1>4. Apart(Header6, {"dst_prefix"}, 48, 79)
    <2>1. Apart(Inet6Fields, {"dst_prefix"}, 48, 79)
      BY SMT DEF Inet6Fields, Octs, Nibs, Apart
    <2>2. Apart(Ip6Fields, {"dst_prefix"}, 48, 79)
      BY SMT DEF Ip6Fields, Octs, Nibs, Apart
    <2> QED
      BY <2>1, <2>2 DEF Header6, Apart
  <1> QED
    BY <1>1, <1>2, <1>3, <1>4

\* The rows of the transport header of each class, and where its checksum is.
TransRows(c) ==
    CASE c = "tcp"   -> TcpFields
      [] c = "udp"   -> UdpFields
      [] c = "icmp"  -> MessageFields \cup IcmpBodyFields
      [] c = "icmp6" -> MessageFields \cup Icmp6BodyFields
      [] c = "sctp"  -> SctpFields

LEMMA RowsTrans ==
    \A c \in TransClasses : \A f \in TransRows(c) :
        TransRow(f) /\ f.name \notin InetNames
  <1>1. \A f \in TcpFields : TransRow(f) /\ f.name \notin InetNames
    BY SMT DEF TcpFields, Octs, Nibs, Row, TransRow, InetNames
  <1>2. \A f \in UdpFields \cup SctpFields :
          TransRow(f) /\ f.name \notin InetNames
    BY SMT DEF UdpFields, SctpFields, Octs, Nibs, Row, TransRow, InetNames
  <1>3. \A f \in MessageFields \cup IcmpBodyFields \cup Icmp6BodyFields :
          TransRow(f) /\ f.name \notin InetNames
    BY SMT DEF MessageFields, IcmpBodyFields, Icmp6BodyFields, Octs, Nibs,
               Row, TransRow, InetNames
  <1> QED
    BY <1>1, <1>2, <1>3 DEF TransClasses, TransRows

LEMMA ApartTrans ==
    /\ Apart(TransRows("tcp"), {"checksum"}, 32, 35)
    /\ Apart(TransRows("udp"), {"checksum"}, 12, 15)
    /\ Apart(TransRows("icmp"), {"checksum"}, 4, 7)
    /\ Apart(TransRows("icmp6"), {"checksum"}, 4, 7)
  <1>1. Apart(TcpFields, {"checksum"}, 32, 35)
    BY SMT DEF TcpFields, Octs, Nibs, Apart
  <1>2. Apart(UdpFields, {"checksum"}, 12, 15)
    BY SMT DEF UdpFields, Octs, Nibs, Apart
  <1>3. Apart(MessageFields \cup IcmpBodyFields, {"checksum"}, 4, 7)
    BY SMT DEF MessageFields, IcmpBodyFields, Octs, Nibs, Apart
  <1>4. Apart(MessageFields \cup Icmp6BodyFields, {"checksum"}, 4, 7)
    BY SMT DEF MessageFields, Icmp6BodyFields, Octs, Nibs, Apart
  <1> QED
    BY <1>1, <1>2, <1>3, <1>4 DEF TransRows

-----------------------------------------------------------------------------
(* Types *)

LEMMA Sizes ==
    ASSUME TypeOK
    PROVE  /\ view \in View /\ Size \in Nat /\ Size >= 40
           /\ view.l3_rem \in Nat /\ view.dp \in Nat /\ view.rem \in Nat
           /\ view.l3_rem <= Size /\ view.dp + view.rem <= Size
           /\ 0 \in Nibbles /\ 1 \in Nibbles
           /\ mem[0] \in Nibble /\ mem[1] \in Nibble
  <1>1. view \in View /\ Size \in Nat /\ Size >= 40
    BY FieldAccessAssumption DEF TypeOK
  <1>2. view.l3_rem <= Size /\ view.dp + view.rem <= Size
    BY FieldAccessAssumption DEF TypeOK
  <1>3. 0 \in Nibbles /\ 1 \in Nibbles
    BY <1>1 DEF Nibbles
  <1> QED
    BY <1>1, <1>2, <1>3 DEF TypeOK, View

LEMMA FillType ==
    ASSUME TypeOK, NEW lo, NEW hi, NEW d \in Nibble
    PROVE  Fill(lo, hi, d) \in [Nibbles -> Nibble]
  BY DEF TypeOK, Fill

LEMMA StoreType ==
    ASSUME TypeOK, NEW p \in Props, NEW first \in Int, NEW last \in Int,
           first <= last + 1, NEW d \in Nibble, Store(p, first, last, d)
    PROVE  mem' \in [Nibbles -> Nibble] /\ op' \in Op
  BY FillType DEF Store, Did, Op

LEMMA NothingType ==
    ASSUME TypeOK, NEW p \in Props, Nothing(p)
    PROVE  mem' \in [Nibbles -> Nibble] /\ op' \in Op
  <1>1. 0 \in Nibble /\ 0 \in Nat
    BY DEF Nibble
  <1> QED
    BY <1>1 DEF Nothing, Did, Op, TypeOK

LEMMA AddressType ==
    ASSUME TypeOK, NEW p \in Props, NEW f4 \in Nat, NEW f6 \in Nat,
           NEW d \in Nibble, NEW rest \in Nibble, SetAddress(p, f4, f6, d, rest)
    PROVE  mem' \in [Nibbles -> Nibble] /\ op' \in Op
  <1>1. CASE Store(p, f4, f4 + 3, d) \/ Store(p, f6, f6 + 15, d)
    BY <1>1, StoreType
  <1>2. CASE Nothing(p)
    BY <1>2, NothingType
  <1>3. CASE /\ mem' = [n \in Nibbles |->
                          IF n \in 2 * f6 .. 2 * f6 + 7 THEN d
                          ELSE IF n \in 2 * f6 + 8 .. 2 * f6 + 31
                               THEN rest ELSE mem[n]]
             /\ Did(p, 8, d, TRUE, TRUE)
    <2>1. mem' \in [Nibbles -> Nibble]
      BY <1>3 DEF TypeOK
    <2> QED
      BY <1>3, <2>1 DEF Did, Op
  <1> QED
    BY <1>1, <1>2, <1>3 DEF SetAddress

LEMMA AssignType ==
    ASSUME TypeOK, NEW d \in Digits, Assign(d)
    PROVE  mem' \in [Nibbles -> Nibble] /\ op' \in Op
  <1>1. d \in Nibble /\ Digits \subseteq Nibble
    BY FieldAccessAssumption
  <1>2. CASE SetData(d)
    <2>1. view.dp \in Nat /\ view.rem \in Nat
      BY Sizes
    <2>2. view.dp + view.rem - 1 - view.dp + 1 = view.rem
      BY <2>1
    <2> QED
      BY <1>1, <1>2, <2>1, <2>2, StoreType, NothingType DEF SetData, Props
  <1>3. CASE \E wide \in 0 .. 2 : SetTrafficClass(d, wide)
    <2>1. PICK wide \in 0 .. 2 : SetTrafficClass(d, wide)
      BY <1>3
    <2>2. CASE Store("traffic_class", 1, 1, d) \/ Nothing("traffic_class")
      BY <1>1, <2>2, StoreType, NothingType DEF Props
    <2>3. CASE /\ mem' = [Fill(1, 2, d) EXCEPT ![0] =
                            IF wide = 1 THEN 7 ELSE 6]
               /\ Did("traffic_class", 2, d, wide = 0, TRUE)
      <3>1. Fill(1, 2, d) \in [Nibbles -> Nibble] /\ 6 \in Nibble /\ 7 \in Nibble
        BY <1>1, FillType DEF Nibble
      <3>2. mem' \in [Nibbles -> Nibble]
        BY <2>3, <3>1
      <3>3. op' \in Op
        BY <1>1, <2>3, <3>1 DEF Did, Op, Props
      <3> QED
        BY <3>2, <3>3
    <2> QED
      BY <2>1, <2>2, <2>3 DEF SetTrafficClass
  <1>4. CASE SetHopLimit(d)
    BY <1>1, <1>4, StoreType, NothingType DEF SetHopLimit, Props
  <1>5. CASE \E rest \in Digits : SetSrcPrefix(d, rest) \/ SetDstPrefix(d, rest)
    BY <1>1, <1>5, AddressType DEF SetSrcPrefix, SetDstPrefix, Props
  <1>6. CASE SetTtl(d)
    BY <1>1, <1>6, StoreType, NothingType DEF SetTtl, Props
  <1>7. CASE SetIpChecksum(d)
    BY <1>1, <1>7, StoreType, NothingType DEF SetIpChecksum, Props
  <1>8. CASE SetChecksum(d)
    <2>1. PICK at \in {16, 6, 2} :
            \/ Store("checksum", view.dp + at, view.dp + at + 1, d)
            \/ Nothing("checksum")
      BY <1>8 DEF SetChecksum
    <2>2. view.dp \in Nat
      BY Sizes
    <2>3. view.dp + at \in Int /\ view.dp + at + 1 \in Int
          /\ view.dp + at + 1 - (view.dp + at) + 1 \in Nat
      BY <2>2
    <2> QED
      BY <1>1, <2>1, <2>3, StoreType, NothingType DEF Props
  <1>9. CASE SetL3Cksm(d)
    BY <1>1, <1>9, StoreType, NothingType DEF SetL3Cksm, Props
  <1> QED
    BY <1>2, <1>3, <1>4, <1>5, <1>6, <1>7, <1>8, <1>9 DEF Assign

LEMMA InitType == Init => TypeOK
  <1> SUFFICES ASSUME Init PROVE TypeOK
    OBVIOUS
  <1>1. view.version \in Nibble /\ view.ihl \in Nibble /\ 0 \in Nibble
    BY FieldAccessAssumption DEF Init, View, Nibble
  <1>2. mem \in [Nibbles -> Nibble]
    BY <1>1 DEF Init
  <1>3. op \in Op
    BY <1>1 DEF Init, Op, Props
  <1> QED
    BY <1>2, <1>3 DEF Init, TypeOK

LEMMA NextType == TypeOK /\ [Next]_vars => TypeOK'
  <1> SUFFICES ASSUME TypeOK, [Next]_vars PROVE TypeOK'
    OBVIOUS
  <1>1. CASE Next
    <2>1. mem' \in [Nibbles -> Nibble] /\ op' \in Op
      BY <1>1, AssignType DEF Next
    <2> QED
      BY <1>1, <2>1 DEF Next, TypeOK
  <1>2. CASE UNCHANGED vars
    BY <1>2 DEF vars, TypeOK
  <1> QED
    BY <1>1, <1>2

\* Whatever is assigned, memory holds nibbles (TypeOK) and the object keeps
\* its lengths.
THEOREM TypeCorrect == Spec => []TypeOK
  BY InitType, NextType, PTL DEF Spec

-----------------------------------------------------------------------------
(* What is readable *)

\* r is the row f of a header that starts at octet b, with c octets captured.
IsAt(r, f, b, c) ==
    /\ r.name = f.name /\ r.end = b + c
    /\ r.lo = 2 * b + f.lo /\ r.hi = 2 * b + f.hi

\* The layer-3 rows whose getters a version nibble v allows.
L3Row(f, v) ==
    \/ v = 4 /\ f \in Inet4Fields
    \/ v = 6 /\ f \in Inet6Fields
    \/ view.tag = "IP" /\ f \in IpFields
    \/ view.tag = "IP6" /\ f \in Ip6Fields

\* A readable row is one of a layer-3 header, or one of the transport header
\* of the object's class, with as many octets captured as its getter needs.
L3At(r, v) ==
    \E f \in Header4 \cup Header6 :
        L3Row(f, v) /\ f.need <= view.l3_rem /\ IsAt(r, f, 0, view.l3_rem)

TransAt(r) ==
    /\ view.cls \in TransClasses
    /\ \E f \in TransRows(view.cls) :
          f.need <= view.rem /\ IsAt(r, f, view.dp, view.rem)

LEMMA InetRow ==
    ASSUME NEW r \in InetReadable
    PROVE  L3At(r, mem[0])
  <1>1. PICK f \in {f \in Inet4Fields : CheckInet(4, f.need)}
                     \cup {f \in Inet6Fields : CheckInet(6, f.need)} :
          r = [name |-> f.name, lo |-> 2 * 0 + f.lo, hi |-> 2 * 0 + f.hi,
               end |-> 0 + view.l3_rem]
    BY DEF InetReadable, AtL3, At
  <1>2. f \in Header4 \cup Header6 /\ L3Row(f, mem[0])
    BY <1>1 DEF CheckInet, L3Row, Header4, Header6
  <1>3. f.need <= view.l3_rem
    BY <1>1 DEF CheckInet
  <1>4. IsAt(r, f, 0, view.l3_rem)
    BY <1>1 DEF IsAt
  <1> QED
    BY <1>2, <1>3, <1>4 DEF L3At

LEMMA IpRow ==
    ASSUME NEW r \in IpReadable
    PROVE  L3At(r, mem[0])
  <1>1. PICK f \in {f \in IpFields : CheckTag("IP", view.l3_rem, f.need)}
               \cup {f \in Ip6Fields : CheckTag("IP6", view.l3_rem, f.need)} :
          r = [name |-> f.name, lo |-> 2 * 0 + f.lo, hi |-> 2 * 0 + f.hi,
               end |-> 0 + view.l3_rem]
    BY DEF IpReadable, AtL3, At
  <1>2. f \in Header4 \cup Header6 /\ L3Row(f, mem[0])
    BY <1>1 DEF CheckTag, L3Row, Header4, Header6
  <1>3. f.need <= view.l3_rem
    BY <1>1 DEF CheckTag
  <1>4. IsAt(r, f, 0, view.l3_rem)
    BY <1>1 DEF IsAt
  <1> QED
    BY <1>2, <1>3, <1>4 DEF L3At

LEMMA TransRowAt ==
    ASSUME NEW r \in TransReadable
    PROVE  TransAt(r)
  <1>1. /\ view.cls \in TransClasses
        /\ r \in AtDp({f \in TransRows(view.cls) : view.rem >= f.need})
    <2>1. CASE view.cls = "tcp"
      BY <2>1 DEF TransReadable, TransClasses, TransRows, Tagged, CheckTag,
                  AtDp, At
    <2>2. CASE view.cls = "udp"
      BY <2>2 DEF TransReadable, TransClasses, TransRows, Tagged, CheckTag,
                  AtDp, At
    <2>3. CASE view.cls = "icmp"
      BY <2>3 DEF TransReadable, TransClasses, TransRows, Tagged, Bodies,
                  CheckTag, AtDp, At
    <2>4. CASE view.cls = "icmp6"
      BY <2>4 DEF TransReadable, TransClasses, TransRows, Tagged, Bodies,
                  CheckTag, AtDp, At
    <2>5. CASE view.cls = "sctp"
      BY <2>5 DEF TransReadable, TransClasses, TransRows, Tagged, CheckTag,
                  AtDp, At
    <2>6. view.cls \in {"tcp", "udp", "icmp", "icmp6", "sctp"}
      BY DEF TransReadable
    <2> QED
      BY <2>1, <2>2, <2>3, <2>4, <2>5, <2>6
  <1>2. PICK f \in TransRows(view.cls) :
          /\ view.rem >= f.need
          /\ r = [name |-> f.name, lo |-> 2 * view.dp + f.lo,
                  hi |-> 2 * view.dp + f.hi, end |-> view.dp + view.rem]
    BY <1>1 DEF AtDp, At
  <1>3. IsAt(r, f, view.dp, view.rem)
    BY <1>2 DEF IsAt
  <1> QED
    BY <1>1, <1>2, <1>3 DEF TransAt

ReadableRows == \A r \in Readable : L3At(r, mem[0]) \/ TransAt(r)

LEMMA RowOf == ReadableRows
  BY InetRow, IpRow, TransRowAt DEF Readable, ReadableRows

\* Where the rows lie, in octets captured and in memory.
LEMMA L3Bounds ==
    ASSUME TypeOK, NEW r, L3At(r, mem[0])
    PROVE  /\ r.lo \in Nat /\ r.hi \in Nat /\ r.hi < 2 * Size
           /\ r.hi \div 2 <= r.end /\ view.l3_rem # 0
  <1>1. PICK f \in Header4 \cup Header6 :
          f.need <= view.l3_rem /\ IsAt(r, f, 0, view.l3_rem)
    BY DEF L3At
  <1>2. Row(f) /\ f.hi < 80
    BY <1>1, Rows4, Rows6 DEF Row
  <1>3. view.l3_rem \in Nat /\ Size \in Nat /\ Size >= 40
    BY Sizes
  <1>4. r.lo = f.lo /\ r.hi = f.hi /\ r.end = view.l3_rem
    BY <1>1, <1>2, <1>3 DEF IsAt, Row
  <1> QED
    BY <1>1, <1>2, <1>3, <1>4 DEF Row

LEMMA TransBounds ==
    ASSUME TypeOK, NEW r, TransAt(r)
    PROVE  /\ r.lo \in Nat /\ r.hi \in Nat /\ r.hi < 2 * Size
           /\ r.hi \div 2 <= r.end
           /\ r.lo >= 2 * view.dp /\ r.name \notin InetNames
  <1>1. PICK f \in TransRows(view.cls) :
          f.need <= view.rem /\ IsAt(r, f, view.dp, view.rem)
    BY DEF TransAt
  <1>2. TransRow(f) /\ f.name \notin InetNames
    BY <1>1, RowsTrans DEF TransAt
  <1>3. /\ view.dp \in Nat /\ view.rem \in Nat /\ Size \in Nat
        /\ view.dp + view.rem <= Size
    BY Sizes
  <1>4. /\ r.lo = 2 * view.dp + f.lo /\ r.hi = 2 * view.dp + f.hi
        /\ r.end = view.dp + view.rem
    BY <1>1 DEF IsAt
  <1>5. r.hi < 2 * (view.dp + view.rem)
    BY <1>1, <1>2, <1>3, <1>4 DEF TransRow, Row
  <1> QED
    BY <1>1, <1>2, <1>3, <1>4, <1>5 DEF TransRow, Row, IsAt

LEMMA Near == TypeOK => GettersStayNear
  BY RowOf, L3Bounds, TransBounds DEF GettersStayNear, ReadableRows

\* Whatever was captured and assigned, no getter reads further than one octet
\* past the captured part of its header (GettersStayNear).
THEOREM GettersNear == Spec => []GettersStayNear
  BY InitType, NextType, Near, PTL DEF Spec

-----------------------------------------------------------------------------
(* What an assignment writes *)

\* Where the assignment of p to a layer-3 header writes, and that it asked for
\* as much: dst_prefix for 16 octets less, l3_cksm for what the header says.
L3Place(p, lo, hi) ==
    \/ /\ mem[0] = 4
       /\ \/ p = "traffic_class" /\ lo = 2 /\ hi = 3 /\ view.l3_rem >= 2
          \/ p = "hop_limit" /\ lo = 16 /\ hi = 17 /\ view.l3_rem >= 9
          \/ p = "src_prefix" /\ lo = 24 /\ hi = 31 /\ view.l3_rem >= 16
          \/ p = "dst_prefix" /\ lo = 32 /\ hi = 39 /\ view.l3_rem >= 16
    \/ /\ mem[0] = 6
       /\ \/ p = "traffic_class" /\ lo = 1 /\ hi = 2 /\ view.l3_rem >= 2
          \/ p = "hop_limit" /\ lo = 14 /\ hi = 15 /\ view.l3_rem >= 8
          \/ p = "src_prefix" /\ lo = 16 /\ hi = 47 /\ view.l3_rem >= 24
          \/ p = "dst_prefix" /\ lo = 48 /\ hi = 79 /\ view.l3_rem >= 24
    \/ /\ view.tag = "IP"
       /\ \/ p = "ttl" /\ lo = 16 /\ hi = 17 /\ view.l3_rem >= 9
          \/ p = "ip_checksum" /\ lo = 20 /\ hi = 23 /\ view.l3_rem >= 12
    \/ /\ view.ip4 /\ p = "l3_cksm" /\ lo = 20 /\ hi = 23
       /\ view.l3_rem >= 1 /\ view.l3_rem >= 4 * mem[1]

TransPlace(p, lo, hi) ==
    /\ p = "checksum" /\ hi = lo + 3
    /\ \/ view.cls = "tcp" /\ lo = 2 * view.dp + 32
       \/ view.cls = "udp" /\ lo = 2 * view.dp + 12
       \/ view.cls \in {"icmp", "icmp6"} /\ lo = 2 * view.dp + 4

DataPlace(p, lo, hi) ==
    p = "data" /\ lo = 2 * view.dp /\ hi = 2 * (view.dp + view.rem) - 1

Place(p, lo, hi) ==
    \/ L3Place(p, lo, hi) \/ TransPlace(p, lo, hi) \/ DataPlace(p, lo, hi)

\* The nibble at 0 changes only when a traffic class does not fit.
FirstKept(p) ==
    \/ mem'[0] = mem[0]
    \/ p = "data"
    \/ /\ mem[0] = 6 /\ mem'[0] = 7 /\ ~op'.fits /\ p = "traffic_class"

\* Only nibbles lo .. hi change, and the digits given are those stored.
Wrote(p, lo, hi) ==
    /\ op'.prop = p /\ Place(p, lo, hi) /\ FirstKept(p)
    /\ \A n \in Nibbles : (n = 0 => p = "data") /\ n \notin lo .. hi =>
                            mem'[n] = mem[n]
    /\ \A n \in Nibbles : n >= lo /\ n - lo < op'.len => mem'[n] = op'.digit

LEMMA StoreWrote ==
    ASSUME TypeOK, NEW p \in Props, NEW first \in Int, NEW last \in Int,
           first <= last + 1, NEW d \in Nibble, Store(p, first, last, d),
           Place(p, 2 * first, 2 * last + 1), first >= 1 \/ p = "data"
    PROVE  Wrote(p, 2 * first, 2 * last + 1)
  <1>1. op' = [prop |-> p, len |-> 2 * (last - first + 1), digit |-> d,
               fits |-> TRUE, done |-> TRUE]
    BY DEF Store, Did
  <1>2. \A n \in Nibbles :
          mem'[n] = IF n \in 2 * first .. 2 * last + 1 THEN d ELSE mem[n]
    BY DEF Store, Fill
  <1>3. FirstKept(p)
    <2>1. CASE first >= 1
      <3>1. 0 \in Nibbles /\ 0 \notin 2 * first .. 2 * last + 1
        BY <2>1, Sizes
      <3> QED
        BY <1>2, <3>1 DEF FirstKept
    <2>2. CASE p = "data"
      BY <2>2 DEF FirstKept
    <2> QED
      BY <2>1, <2>2
  <1>4. \A n \in Nibbles :
          n >= 2 * first /\ n - 2 * first < op'.len => mem'[n] = op'.digit
    <2> SUFFICES ASSUME NEW n \in Nibbles, n >= 2 * first,
                        n - 2 * first < op'.len
                 PROVE  mem'[n] = op'.digit
      OBVIOUS
    <2>1. n \in Int /\ op'.len = 2 * (last - first + 1) /\ op'.digit = d
      BY <1>1, Sizes DEF Nibbles
    <2>2. n \in 2 * first .. 2 * last + 1
      BY <2>1
    <2> QED
      BY <1>2, <2>1, <2>2
  <1>5. op'.prop = p
    BY <1>1
  <1> QED
    BY <1>2, <1>3, <1>4, <1>5 DEF Wrote

LEMMA NothingDone == ASSUME NEW p, Nothing(p) PROVE ~op'.done
  BY DEF Nothing, Did

LEMMA WroteSome ==
    ASSUME NEW p, NEW lo \in Int, NEW hi \in Int, Wrote(p, lo, hi)
    PROVE  \E l, h \in Int : Wrote(op'.prop, l, h)
  <1>1. op'.prop = p
    BY DEF Wrote
  <1> QED
    BY <1>1

LEMMA AddressWrote ==
    ASSUME TypeOK, NEW p \in {"src_prefix", "dst_prefix"},
           NEW f4 \in Nat, NEW f6 \in Nat, f4 >= 1, f6 >= 1,
           NEW d \in Nibble, NEW rest \in Nibble,
           SetAddress(p, f4, f6, d, rest), op'.done,
           mem[0] = 4 /\ view.l3_rem >= 16 =>
               L3Place(p, 2 * f4, 2 * (f4 + 3) + 1),
           mem[0] = 6 /\ view.l3_rem >= 24 =>
               L3Place(p, 2 * f6, 2 * (f6 + 15) + 1)
    PROVE  \E lo, hi \in Int : Wrote(op'.prop, lo, hi)
  <1>0. p \in Props
    BY DEF Props
  <1>1. CASE CheckInet(4, 16) /\ Store(p, f4, f4 + 3, d)
    <2>1. Place(p, 2 * f4, 2 * (f4 + 3) + 1)
      BY <1>1 DEF CheckInet, Place
    <2>2. Wrote(p, 2 * f4, 2 * (f4 + 3) + 1)
      BY <1>0, <1>1, <2>1, StoreWrote
    <2> QED
      BY <2>2, WroteSome
  <1>2. CASE CheckInet(6, 24) /\ Store(p, f6, f6 + 15, d)
    <2>1. Place(p, 2 * f6, 2 * (f6 + 15) + 1)
      BY <1>2 DEF CheckInet, Place
    <2>2. Wrote(p, 2 * f6, 2 * (f6 + 15) + 1)
      BY <1>0, <1>2, <2>1, StoreWrote
    <2> QED
      BY <2>2, WroteSome
  <1>3. CASE /\ CheckInet(6, 24)
             /\ mem' = [n \in Nibbles |->
                          IF n \in 2 * f6 .. 2 * f6 + 7 THEN d
                          ELSE IF n \in 2 * f6 + 8 .. 2 * f6 + 31
                               THEN rest ELSE mem[n]]
             /\ Did(p, 8, d, TRUE, TRUE)
    <2>1. Place(p, 2 * f6, 2 * f6 + 31) /\ FirstKept(p)
      <3>1. 2 * (f6 + 15) + 1 = 2 * f6 + 31
        OBVIOUS
      <3>2. 0 \in Nibbles
        BY Sizes
      <3> QED
        BY <1>3, <3>1, <3>2 DEF CheckInet, Place, FirstKept
    <2>2. op' = [prop |-> p, len |-> 8, digit |-> d, fits |-> TRUE,
                 done |-> TRUE]
      BY <1>3 DEF Did
    <2>3. Nibbles \subseteq Int
      BY Sizes DEF Nibbles
    <2>4. \A n \in Nibbles : n \notin 2 * f6 .. 2 * f6 + 31 => mem'[n] = mem[n]
      BY <1>3, <2>3
    <2>5. \A n \in Nibbles :
            n >= 2 * f6 /\ n - 2 * f6 < op'.len => mem'[n] = op'.digit
      BY <1>3, <2>2, <2>3
    <2>6. Wrote(p, 2 * f6, 2 * f6 + 31)
      BY <2>1, <2>2, <2>4, <2>5 DEF Wrote
    <2> QED
      BY <2>6, WroteSome
  <1>4. ~Nothing(p)
    BY NothingDone
  <1> QED
    BY <1>1, <1>2, <1>3, <1>4 DEF SetAddress

LEMMA TrafficWrote ==
    ASSUME TypeOK, NEW d \in Nibble, NEW wide \in 0 .. 2,
           SetTrafficClass(d, wide), op'.done
    PROVE  \E lo, hi \in Int : Wrote(op'.prop, lo, hi)
  <1>1. CASE CheckInet(4, 2) /\ Store("traffic_class", 1, 1, d)
    <2>1. Place("traffic_class", 2, 3)
      BY <1>1 DEF CheckInet, Place, L3Place
    <2>2. Wrote("traffic_class", 2, 3)
      BY <1>1, <2>1, StoreWrote DEF Props
    <2> QED
      BY <2>2, WroteSome
  <1>2. CASE /\ CheckInet(6, 2)
             /\ mem' = [Fill(1, 2, d) EXCEPT ![0] = IF wide = 1 THEN 7 ELSE 6]
             /\ Did("traffic_class", 2, d, wide = 0, TRUE)
    <2>1. Place("traffic_class", 1, 2)
      BY <1>2 DEF CheckInet, Place, L3Place
    <2>2. op'.prop = "traffic_class" /\ op'.len = 2 /\ op'.digit = d
      BY <1>2 DEF Did
    <2>3. op'.fits <=> wide = 0
      BY <1>2, Zenon DEF Did
    <2>4. \A n \in Nibbles : n # 0 =>
            mem'[n] = IF n \in 1 .. 2 THEN d ELSE mem[n]
      BY <1>2 DEF Fill
    <2>5. mem[0] = 6 /\ mem'[0] = IF wide = 1 THEN 7 ELSE 6
      BY <1>2, Sizes DEF Fill, CheckInet
    <2>6. FirstKept("traffic_class")
      BY <2>3, <2>5 DEF FirstKept
    <2>7. Nibbles \subseteq Int
      BY Sizes DEF Nibbles
    <2>8. Wrote("traffic_class", 1, 2)
      BY <2>1, <2>2, <2>4, <2>6, <2>7 DEF Wrote
    <2> QED
      BY <2>8, WroteSome
  <1>3. ~Nothing("traffic_class")
    BY NothingDone
  <1> QED
    BY <1>1, <1>2, <1>3 DEF SetTrafficClass

LEMMA AssignWrote ==
    ASSUME TypeOK, NEW d \in Digits, Assign(d), op'.done
    PROVE  \E lo, hi \in Int : Wrote(op'.prop, lo, hi)
  <1>0. d \in Nibble /\ Digits \subseteq Nibble
    BY FieldAccessAssumption
  <1>1. \A p : ~Nothing(p)
    BY NothingDone
  <1>2. CASE SetData(d)
    <2>1. Store("data", view.dp, view.dp + view.rem - 1, d)
      BY <1>1, <1>2 DEF SetData
    <2>2. view.dp \in Nat /\ view.rem \in Nat
      BY Sizes
    <2>3. Place("data", 2 * view.dp, 2 * (view.dp + view.rem - 1) + 1)
      BY <2>2 DEF Place, DataPlace
    <2>4. Wrote("data", 2 * view.dp, 2 * (view.dp + view.rem - 1) + 1)
      BY <1>0, <2>1, <2>2, <2>3, StoreWrote DEF Props
    <2>5. /\ 2 * view.dp \in Int
          /\ 2 * (view.dp + view.rem - 1) + 1 \in Int
      BY <2>2
    <2> QED
      BY <2>4, <2>5, WroteSome
  <1>3. CASE \E wide \in 0 .. 2 : SetTrafficClass(d, wide)
    BY <1>0, <1>3, TrafficWrote
  <1>4. CASE SetHopLimit(d)
    <2>1. CASE CheckInet(4, 9) /\ Store("hop_limit", 8, 8, d)
      <3>1. Place("hop_limit", 16, 17)
        BY <2>1 DEF CheckInet, Place, L3Place
      <3>2. Wrote("hop_limit", 16, 17)
        BY <1>0, <2>1, <3>1, StoreWrote DEF Props
      <3> QED
        BY <3>2, WroteSome
    <2>2. CASE CheckInet(6, 8) /\ Store("hop_limit", 7, 7, d)
      <3>1. Place("hop_limit", 14, 15)
        BY <2>2 DEF CheckInet, Place, L3Place
      <3>2. Wrote("hop_limit", 14, 15)
        BY <1>0, <2>2, <3>1, StoreWrote DEF Props
      <3> QED
        BY <3>2, WroteSome
    <2> QED
      BY <1>1, <1>4, <2>1, <2>2 DEF SetHopLimit
  <1>5. CASE \E rest \in Digits : SetSrcPrefix(d, rest)
    <2>1. PICK rest \in Nibble : SetAddress("src_prefix", 12, 8, d, rest)
      BY <1>0, <1>5 DEF SetSrcPrefix
    <2>2. /\ mem[0] = 4 /\ view.l3_rem >= 16 => L3Place("src_prefix", 24, 31)
          /\ mem[0] = 6 /\ view.l3_rem >= 24 => L3Place("src_prefix", 16, 47)
      BY DEF L3Place
    <2> QED
      BY <1>0, <2>1, <2>2, AddressWrote
  <1>6. CASE \E rest \in Digits : SetDstPrefix(d, rest)
    <2>1. PICK rest \in Nibble : SetAddress("dst_prefix", 16, 24, d, rest)
      BY <1>0, <1>6 DEF SetDstPrefix
    <2>2. /\ mem[0] = 4 /\ view.l3_rem >= 16 => L3Place("dst_prefix", 32, 39)
          /\ mem[0] = 6 /\ view.l3_rem >= 24 => L3Place("dst_prefix", 48, 79)
      BY DEF L3Place
    <2> QED
      BY <1>0, <2>1, <2>2, AddressWrote
  <1>7. CASE SetTtl(d)
    <2>1. CheckTag("IP", view.l3_rem, 9) /\ Store("ttl", 8, 8, d)
      BY <1>1, <1>7 DEF SetTtl
    <2>2. Place("ttl", 16, 17)
      BY <2>1 DEF CheckTag, Place, L3Place
    <2>3. Wrote("ttl", 16, 17)
      BY <1>0, <2>1, <2>2, StoreWrote DEF Props
    <2> QED
      BY <2>3, WroteSome
  <1>8. CASE SetIpChecksum(d)
    <2>1. CheckTag("IP", view.l3_rem, 12) /\ Store("ip_checksum", 10, 11, d)
      BY <1>1, <1>8 DEF SetIpChecksum
    <2>2. Place("ip_checksum", 20, 23)
      BY <2>1 DEF CheckTag, Place, L3Place
    <2>3. Wrote("ip_checksum", 20, 23)
      BY <1>0, <2>1, <2>2, StoreWrote DEF Props
    <2> QED
      BY <2>3, WroteSome
  <1>9. CASE SetChecksum(d)
    <2>1. PICK at \in {16, 6, 2} :
            /\ Store("checksum", view.dp + at, view.dp + at + 1, d)
            /\ \/ view.cls = "tcp" /\ at = 16
               \/ view.cls = "udp" /\ at = 6
               \/ view.cls \in {"icmp", "icmp6"} /\ at = 2
      BY <1>1, <1>9 DEF SetChecksum
    <2>2. view.dp \in Nat
      BY Sizes
    <2>3. Place("checksum", 2 * (view.dp + at), 2 * (view.dp + at + 1) + 1)
      BY <2>1, <2>2 DEF Place, TransPlace
    <2>4. Wrote("checksum", 2 * (view.dp + at), 2 * (view.dp + at + 1) + 1)
      BY <1>0, <2>1, <2>2, <2>3, StoreWrote DEF Props
    <2>5. /\ 2 * (view.dp + at) \in Int
          /\ 2 * (view.dp + at + 1) + 1 \in Int
      BY <2>2
    <2> QED
      BY <2>4, <2>5, WroteSome
  <1>10. CASE SetL3Cksm(d)
    <2>1. /\ view.ip4 /\ view.l3_rem >= 1 /\ view.l3_rem >= 4 * mem[1]
          /\ Store("l3_cksm", 10, 11, d)
      BY <1>1, <1>10 DEF SetL3Cksm
    <2>2. Place("l3_cksm", 20, 23)
      BY <2>1 DEF Place, L3Place
    <2>3. Wrote("l3_cksm", 20, 23)
      BY <1>0, <2>1, <2>2, StoreWrote DEF Props
    <2> QED
      BY <2>3, WroteSome
  <1> QED
    BY <1>2, <1>3, <1>4, <1>5, <1>6, <1>7, <1>8, <1>9, <1>10 DEF Assign

-----------------------------------------------------------------------------
(* Where an assignment writes beside what is readable *)

\* A row that names the property lies where it was written, any other apart.
Beside(r, p, lo, hi) ==
    IF r.name \in SameBytes(p) THEN r.lo = lo /\ r.hi = hi
    ELSE r.hi < lo \/ r.lo > hi

LEMMA L3Beside ==
    ASSUME TypeOK, HeadersApart, NEW p \in Props, NEW lo \in Int,
           NEW hi \in Int, L3Place(p, lo, hi), NEW r, L3At(r, mem[0])
    PROVE  Beside(r, p, lo, hi)
  <1>1. PICK f \in Header4 \cup Header6 :
          L3Row(f, mem[0]) /\ IsAt(r, f, 0, view.l3_rem)
    BY DEF L3At
  <1>2. f.lo \in Nat /\ f.hi \in Nat
    BY <1>1, Rows4, Rows6 DEF Row
  <1>3. r.lo = f.lo /\ r.hi = f.hi /\ r.name = f.name
    BY <1>1, <1>2 DEF IsAt
  <1>4. /\ mem[0] = 4 \/ mem[0] = 6
        /\ mem[0] = 4 => f \in Header4
        /\ mem[0] = 6 => f \in Header6
    BY <1>1 DEF L3Row, HeadersApart, Header4, Header6
  <1>5. CASE mem[0] = 4
    <2>1. Apart(Header4, SameBytes(p), lo, hi)
      BY <1>5, Apart4 DEF L3Place, SameBytes
    <2> QED
      BY <1>3, <1>4, <1>5, <2>1 DEF Apart, Beside
  <1>6. CASE mem[0] = 6
    <2>1. view.tag # "IP" /\ ~view.ip4
      BY <1>6 DEF HeadersApart
    <2>2. \/ p = "traffic_class" /\ lo = 1 /\ hi = 2
          \/ p = "hop_limit" /\ lo = 14 /\ hi = 15
          \/ p = "src_prefix" /\ lo = 16 /\ hi = 47
          \/ p = "dst_prefix" /\ lo = 48 /\ hi = 79
      BY <1>6, <2>1 DEF L3Place
    <2>3. Apart(Header6, SameBytes(p), lo, hi)
      BY <2>2, Apart6 DEF SameBytes
    <2> QED
      BY <1>3, <1>4, <1>6, <2>3 DEF Apart, Beside
  <1> QED
    BY <1>4, <1>5, <1>6

LEMMA TransBeside ==
    ASSUME TypeOK, HeadersApart, NEW p \in Props, NEW lo \in Int,
           NEW hi \in Int, L3Place(p, lo, hi), NEW r, TransAt(r)
    PROVE  Beside(r, p, lo, hi)
  <1>1. /\ r.lo \in Nat /\ r.lo >= 2 * view.dp /\ view.dp \in Nat
        /\ r.name \notin InetNames
    BY TransBounds, Sizes
  <1>2. view.l3_rem # 0 /\ SameBytes(p) \subseteq InetNames
    BY DEF L3Place, SameBytes, InetNames
  <1>3. view.cls \in TransClasses
    BY DEF TransAt
  <1>4. CASE mem[0] = 6
    <2>1. hi < 80 /\ view.dp >= 40
      BY <1>2, <1>3, <1>4 DEF L3Place, HeadersApart
    <2> QED
      BY <1>1, <1>2, <2>1 DEF Beside
  <1>5. CASE mem[0] # 6
    <2>1. hi < 40 /\ view.dp >= 20
      BY <1>2, <1>3, <1>5 DEF L3Place, HeadersApart
    <2> QED
      BY <1>1, <1>2, <2>1 DEF Beside
  <1> QED
    BY <1>4, <1>5

LEMMA ChecksumBeside ==
    ASSUME TypeOK, HeadersApart, NEW p \in Props, NEW lo \in Int,
           NEW hi \in Int, TransPlace(p, lo, hi),
           NEW r, L3At(r, mem[0]) \/ TransAt(r)
    PROVE  Beside(r, p, lo, hi)
  <1>1. SameBytes(p) = {"checksum"}
    BY DEF TransPlace, SameBytes
  <1>2. view.dp \in Nat /\ view.cls \in TransClasses
    BY Sizes DEF TransPlace, TransClasses
  <1>3. CASE TransAt(r)
    <2>1. PICK f \in TransRows(view.cls) : IsAt(r, f, view.dp, view.rem)
      BY <1>3 DEF TransAt
    <2>2. f.lo \in Nat /\ f.hi \in Nat
      BY <1>2, <2>1, RowsTrans DEF TransRow, Row
    <2>3. Apart(TransRows(view.cls), {"checksum"}, lo - 2 * view.dp,
                hi - 2 * view.dp)
      <3>1. CASE view.cls = "tcp"
        <4>1. lo - 2 * view.dp = 32 /\ hi - 2 * view.dp = 35
          BY <1>2, <3>1 DEF TransPlace
        <4> QED
          BY <3>1, <4>1, ApartTrans
      <3>2. CASE view.cls = "udp"
        <4>1. lo - 2 * view.dp = 12 /\ hi - 2 * view.dp = 15
          BY <1>2, <3>2 DEF TransPlace
        <4> QED
          BY <3>2, <4>1, ApartTrans
      <3>3. CASE view.cls \in {"icmp", "icmp6"}
        <4>1. lo - 2 * view.dp = 4 /\ hi - 2 * view.dp = 7
          BY <1>2, <3>3 DEF TransPlace
        <4> QED
          BY <3>3, <4>1, ApartTrans
      <3> QED
        BY <3>1, <3>2, <3>3 DEF TransPlace
    <2> QED
      BY <1>1, <1>2, <2>1, <2>2, <2>3 DEF Apart, Beside, IsAt
  <1>4. CASE L3At(r, mem[0])
    <2>1. PICK f \in Header4 \cup Header6 :
            L3Row(f, mem[0]) /\ IsAt(r, f, 0, view.l3_rem)
      BY <1>4 DEF L3At
    <2>2. f.lo \in Nat /\ f.hi \in Nat /\ f.name # "checksum"
      BY <2>1, Rows4, Rows6 DEF Row
    <2>3. view.l3_rem # 0
      BY <1>4, L3Bounds
    <2>4. f.hi < 2 * view.dp
      <3>1. CASE mem[0] = 6
        <4>1. f \in Header6
          BY <2>1, <3>1 DEF L3Row, HeadersApart, Header6
        <4> QED
          BY <1>2, <2>2, <2>3, <3>1, <4>1, Rows6 DEF HeadersApart
      <3>2. CASE mem[0] # 6
        <4>1. f \in Header4
          BY <2>1, <3>2 DEF L3Row, HeadersApart, Header4
        <4> QED
          BY <1>2, <2>2, <2>3, <3>2, <4>1, Rows4 DEF HeadersApart
      <3> QED
        BY <3>1, <3>2
    <2>5. r.hi = f.hi /\ r.name = f.name /\ lo >= 2 * view.dp
      BY <1>2, <2>1, <2>2 DEF IsAt, TransPlace
    <2> QED
      BY <1>1, <1>2, <2>2, <2>4, <2>5 DEF Beside
  <1> QED
    BY <1>3, <1>4

LEMMA RowBeside ==
    ASSUME TypeOK, HeadersApart, NEW p \in Props \ {"data"}, NEW lo \in Int,
           NEW hi \in Int, Place(p, lo, hi), NEW r \in Readable
    PROVE  Beside(r, p, lo, hi)
  BY RowOf, L3Beside, TransBeside, ChecksumBeside
     DEF Place, DataPlace, ReadableRows

LEMMA RowInMemory ==
    ASSUME TypeOK, NEW r \in Readable
    PROVE  r.lo \in Nat /\ r.hi \in Nat /\ r.lo .. r.hi \subseteq Nibbles
  <1>1. r.lo \in Nat /\ r.hi \in Nat /\ r.hi < 2 * Size
    BY RowOf, L3Bounds, TransBounds DEF ReadableRows
  <1> QED
    BY <1>1, Sizes DEF Nibbles

\* Getters depend on the object and the version nibble only.
LEMMA SameReadable ==
    ASSUME view' = view, mem'[0] = mem[0]
    PROVE  Readable' = Readable
  <1>1. InetReadable' = InetReadable
    BY DEF InetReadable, AtL3, At, CheckInet
  <1>2. IpReadable' = IpReadable
    BY DEF IpReadable, AtL3, At, CheckTag
  <1>3. TransReadable' = TransReadable
    BY DEF TransReadable, AtDp, At, Tagged, Bodies, CheckTag
  <1> QED
    BY <1>1, <1>2, <1>3 DEF Readable

-----------------------------------------------------------------------------
(* The action properties *)

LEMMA StepWrote ==
    ASSUME TypeOK, Next, op'.done
    PROVE  /\ view' = view
           /\ op'.prop \in Props
           /\ \E lo, hi \in Int : Wrote(op'.prop, lo, hi)
  <1>1. PICK d \in Digits : Assign(d)
    BY DEF Next
  <1>2. op' \in Op
    BY <1>1, AssignType
  <1>3. view' = view /\ op'.prop \in Props
    BY <1>2 DEF Next, Op
  <1> QED
    BY <1>1, <1>3, AssignWrote

LEMMA Leaves == TypeOK /\ [Next]_vars => [LeavesTheRest]_vars
  <1> SUFFICES ASSUME TypeOK, Next, HeadersApart, op'.done, op'.fits,
                      op'.prop # "data", NEW r \in Readable,
                      r.name \notin SameBytes(op'.prop)
               PROVE  r \in Readable' /\ \A n \in r.lo .. r.hi : mem'[n] = mem[n]
    BY DEF LeavesTheRest
  <1>1. PICK lo \in Int, hi \in Int : Wrote(op'.prop, lo, hi)
    BY StepWrote
  <1>2. view' = view /\ op'.prop \in Props \ {"data"}
    BY StepWrote
  <1>3. mem'[0] = mem[0]
    BY <1>1 DEF Wrote, FirstKept
  <1>4. r \in Readable'
    BY <1>2, <1>3, SameReadable
  <1>5. Place(op'.prop, lo, hi)
    BY <1>1 DEF Wrote
  <1>6. Beside(r, op'.prop, lo, hi)
    BY <1>2, <1>5, RowBeside
  <1>7. \A n \in r.lo .. r.hi : n \in Nibbles /\ n \notin lo .. hi
    BY <1>6, RowInMemory DEF Beside
  <1>8. \A n \in r.lo .. r.hi : mem'[n] = mem[n]
    BY <1>1, <1>3, <1>7 DEF Wrote
  <1> QED
    BY <1>4, <1>8

\* Where headers are apart, assigning one property leaves every other one
\* readable and as it was (AssignOnlyOwn).
THEOREM AssignmentsLeaveTheRest == Spec => AssignOnlyOwn
  <1>1. TypeOK /\ [Next]_vars => [LeavesTheRest]_vars
    BY Leaves
  <1> QED
    BY <1>1, InitType, NextType, PTL DEF Spec, AssignOnlyOwn

LEMMA Reads == TypeOK /\ [Next]_vars => [ReadsBack]_vars
  <1> SUFFICES ASSUME TypeOK, Next, HeadersApart, op'.done,
                      NEW r \in Readable', r.name \in SameBytes(op'.prop),
                      NEW n \in r.lo .. r.hi, n - r.lo < op'.len
               PROVE  mem'[n] = op'.digit
    BY DEF ReadsBack
  <1>1. PICK lo \in Int, hi \in Int : Wrote(op'.prop, lo, hi)
    BY StepWrote
  <1>2. view' = view /\ op'.prop \in Props
    BY StepWrote
  <1>3. CASE op'.prop = "data"
    <2>1. r.name = "data"
      BY <1>3 DEF SameBytes
    <2>2. TypeOK'
      BY NextType
    <2>3. L3At(r, mem[0])' \/ TransAt(r)'
      <3>1. ReadableRows'
        BY RowOf, PTL
      <3> QED
        BY <3>1 DEF ReadableRows
    <2> QED
      BY <2>1, <2>3, Rows4, Rows6, RowsTrans DEF L3At, TransAt, IsAt, InetNames
  <1>4. CASE op'.prop # "data" /\ mem'[0] = mem[0]
    <2>1. r \in Readable
      BY <1>2, <1>4, SameReadable
    <2>2. Beside(r, op'.prop, lo, hi)
      BY <1>1, <1>2, <1>4, <2>1, RowBeside DEF Wrote
    <2>3. n \in Nibbles /\ n >= lo /\ n - lo < op'.len
      BY <2>1, <2>2, RowInMemory DEF Beside
    <2> QED
      BY <1>1, <2>3 DEF Wrote
  <1>5. CASE op'.prop # "data" /\ mem'[0] # mem[0]
    <2>1. mem[0] = 6 /\ mem'[0] = 7 /\ op'.prop = "traffic_class"
      BY <1>1, <1>5 DEF Wrote, FirstKept
    <2>2. r.name = "traffic_class" /\ view.tag # "IP"
      BY <2>1 DEF SameBytes, HeadersApart
    <2>3. L3At(r, mem[0])' \/ TransAt(r)'
      <3>1. ReadableRows'
        BY RowOf, PTL
      <3> QED
        BY <3>1 DEF ReadableRows
    <2>4. ~TransAt(r)'
      BY <1>2, <2>2, RowsTrans DEF TransAt, IsAt, InetNames
    <2>5. PICK f \in Ip6Fields : f.name = "traffic_class"
      BY <1>2, <2>1, <2>2, <2>3, <2>4 DEF L3At, L3Row, IsAt
    <2> QED
      BY <2>5 DEF Ip6Fields, Octs, Nibs
  <1> QED
    BY <1>3, <1>4, <1>5

\* What was stored is what the getter of that property reads (SetThenGet).
THEOREM AssignedIsRead == Spec => SetThenGet
  <1>1. TypeOK /\ [Next]_vars => [ReadsBack]_vars
    BY Reads
  <1> QED
    BY <1>1, InitType, NextType, PTL DEF Spec, SetThenGet

LEMMA Stays == TypeOK /\ [Next]_vars => [WritesCaptured]_vars
  <1> SUFFICES ASSUME TypeOK, Next, NEW n \in Nibbles \ Captured,
                      mem'[n] # mem[n]
               PROVE  \/ op'.prop = "checksum"
                      \/ op'.prop = "dst_prefix" /\ n \div 2 < view.l3_rem + 16
                      \/ op'.prop = "l3_cksm" /\ mem[1] < 3
    BY DEF WritesCaptured
  <1>1. op'.done
    BY DEF Next, Assign, SetData, SetTrafficClass, SetHopLimit, SetSrcPrefix,
           SetDstPrefix, SetAddress, SetTtl, SetIpChecksum, SetChecksum,
           SetL3Cksm, Store, Nothing, Did
  <1>2. PICK lo \in Int, hi \in Int : Wrote(op'.prop, lo, hi)
    BY <1>1, StepWrote
  <1>3. /\ view.l3_rem \in Nat /\ view.dp \in Nat /\ view.rem \in Nat
        /\ n \in Nat /\ mem[1] \in Nat
    BY Sizes DEF Nibbles, Nibble
  <1>4. n \div 2 >= view.l3_rem /\ n \div 2 >= view.dp + view.rem
    BY <1>3 DEF Captured
  <1>5. n = 0 \/ n \in lo .. hi
    BY <1>2 DEF Wrote
  <1>6. CASE op'.prop = "data"
    <2>1. hi = 2 * (view.dp + view.rem) - 1
      BY <1>2, <1>6 DEF Wrote, Place, DataPlace, L3Place, TransPlace
    <2>2. lo = 2 * view.dp
      BY <1>2, <1>6 DEF Wrote, Place, DataPlace, L3Place, TransPlace
    <2>3. n \in lo .. hi
      BY <1>2, <1>6 DEF Wrote
    <2> QED
      BY <1>3, <1>4, <2>1, <2>2, <2>3
  <1>7. CASE op'.prop # "data" /\ n = 0
    <2>1. op'.prop = "traffic_class" /\ view.l3_rem >= 2
      BY <1>2, <1>7 DEF Wrote, FirstKept, Place, L3Place, TransPlace, DataPlace
    <2> QED
      BY <1>3, <1>4, <1>7, <2>1
  <1>8. CASE L3Place(op'.prop, lo, hi) /\ n \in lo .. hi
    BY <1>3, <1>4, <1>8 DEF L3Place
  <1>9. CASE TransPlace(op'.prop, lo, hi)
    BY <1>9 DEF TransPlace
  <1> QED
    BY <1>2, <1>5, <1>6, <1>7, <1>8, <1>9 DEF Wrote, Place, DataPlace

\* Assignments write captured bytes only, but for dst_prefix and the two
\* checksums (AssignStaysNear).
THEOREM AssignmentsStayNear == Spec => AssignStaysNear
  <1>1. TypeOK /\ [Next]_vars => [WritesCaptured]_vars
    BY Stays
  <1> QED
    BY <1>1, InitType, NextType, PTL DEF Spec, AssignStaysNear

=============================================================================
