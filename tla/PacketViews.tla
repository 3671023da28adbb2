----------------------------- MODULE PacketViews -----------------------------
(***************************************************************************)
(* The object layer of plt.py: one Packet object, the `struct pi' records  *)
(* behind it, and the Python views (layer2, layer3, ip, tcp, ...) that      *)
(* point at those records.  Several views share one record, and a record   *)
(* holds raw pointers into memory that the next read_packet reuses, so      *)
(* what a view means depends on every call made before it is used.          *)
(*                                                                         *)
(* Bytes are abstracted to the facts the code branches on:                  *)
(*   - a packet is a Shape: whether get_pkt_info can decode it, its         *)
(*     ethertype, its transport protocol, and how much of the transport     *)
(*     layer was captured (0 none: libtrace gives NULL, 1 fewer than the    *)
(*     four bytes of the ports, 2 at least those);                          *)
(*   - a pointer is the read that filled the memory it points into (mem,    *)
(*     0 for memory owned by Python) and the header it points at;           *)
(*   - a byte count is 0, 1 or 2 on the scale of a Shape's l4.              *)
(***************************************************************************)
EXTENDS Integers

CONSTANTS
    Shapes,     \* the packets the trace may deliver
    Misread,    \* the headers that octets may be taken for which are none
    MaxPi,      \* bound: how many pi records a program keeps at a time
    MaxReads    \* bound: how many packets it reads

Protos == {"none", "tcp", "udp", "icmp", "icmp6", "sctp", "gre"}
Ethertypes == {"ip4", "ip6", "other"}
Bytes == 0 .. 2

Shape == [info : {"bad", "empty", "ok"}, eth : Ethertypes,
          proto : Protos, l4 : Bytes]

\* What libtrace makes of an IP header: the protocol, the place and the captured
\* bytes of a transport header, or none for a NULL pointer.
Header == [proto : Protos, at : {"L4", "inside"}, l4 : Bytes]

ASSUME PacketViewsAssumption ==
    /\ Misread \subseteq Header
    /\ Shapes \subseteq Shape
    /\ \A s \in Shapes : s.info # "ok" => s.l4 = 0
    /\ MaxPi \in Nat \ {0}
    /\ MaxReads \in Nat

VARIABLES
    epoch,   \* number of packets read: names what libtrace's buffer holds
    cur,     \* the Shape of the packet in the buffer
    heap,    \* the pi records the program keeps alive
    held,    \* the classes of the Python objects it holds on each of them
    ret,     \* outcome of the last call
    summed   \* the checksum field it read or wrote, Null if none

vars == <<epoch, cur, heap, held, ret, summed>>

-----------------------------------------------------------------------------
(* struct pi *)

At(e, header) == [mem |-> e, at |-> header]
Null == At(0, "NULL")
Ptr == [mem : Nat, at : {"NULL", "L2", "L3", "L4", "L5", "inside"}]

\* The class whose constructor sets each transport type tag.
Tag == [tcp |-> "TCP", udp |-> "UDP", icmp |-> "ICMP",
        icmp6 |-> "ICMP6", sctp |-> "SCTP"]
TransClasses == {"tcp", "udp", "icmp", "icmp6", "sctp"}
TransTypes == {"TCP", "UDP", "ICMP", "ICMP6", "SCTP"}
L3Types == {"L3", "IP", "IP6"}
BelowL3 == {"unset", "PKT", "L2"}
Types == BelowL3 \cup L3Types \cup {"L4"} \cup TransTypes \cup {"L5"}

Classes == TransClasses
             \cup {"pkt", "layer2", "layer3", "ip", "ip6", "transport", "l5"}
InetClasses == Classes \ {"pkt", "layer2", "layer3"}

Pi == [o_type : Types, o_kind : {"unset", "PKT", "CPY"},
       data : {"NULL", "packet", "bytes"}, l2p : Ptr,
       ethertype : Ethertypes \cup {"unset"}, l3p : Ptr, l3_rem : Bytes,
       proto : Protos, dp : Ptr, rem : Bytes]

\* ffi.new() and memset both give this record.
Zero == [o_type |-> "unset", o_kind |-> "unset", data |-> "NULL",
         l2p |-> Null, ethertype |-> "unset", l3p |-> Null, l3_rem |-> 0,
         proto |-> "none", dp |-> Null, rem |-> 0]

Pkt == 1    \* the Packet object's own record
PiIds == 1 .. MaxPi

\* Where a pointer ends up when it skips the header it points at.
Beyond(p) == [mem |-> p.mem, at |-> IF p.at = "L4" THEN "L5" ELSE "inside"]

\* The record's l3p points at the layer 3 of the packet in the buffer.
OnPacket(pi) == pi.data = "packet" /\ pi.l3p = At(epoch, "L3")

\* Which packet the version at a record's l3p may be read from: the one in the
\* buffer, or any once the buffer was reused or when the bytes came from Python.
Decoded(pi) ==
    IF OnPacket(pi) THEN {cur} ELSE {s \in Shapes : s.info = "ok"}

NoHeader == [proto |-> "none", at |-> "inside", l4 |-> 0]

\* What trace_get_payload_from_ip or _ip6 finds at a record's l3p.  Which of the
\* two is called depends on the ethertype in the record alone: on a packet of
\* that version it finds the transport header, but a misreading may come of a
\* packet of the other, of a buffer that was reused, or of Python's bytes.
Headers(pi) ==
    IF pi.ethertype \notin {"ip4", "ip6"} \/ pi.l3_rem = 0 THEN {NoHeader}
    ELSE IF OnPacket(pi) /\ pi.ethertype = cur.eth
         THEN {[proto |-> cur.proto, at |-> "L4", l4 |-> cur.l4]}
         ELSE Misread

-----------------------------------------------------------------------------
(* The C functions that fill a pi *)

\* Mutant: a failure leaves the previous packet's record in place.
GetPktInfoNoClear(old, s, e) ==
    IF s.info = "bad" THEN old
    ELSE [old EXCEPT !.data = "packet", !.l2p = At(e, "L2"),
                     !.l3p = At(e, "L3"), !.l3_rem = 2,
                     !.dp = At(e, "L3"), !.rem = 2]

\* get_pkt_info: the old contents are always cleared first.
GetPktInfo(old, s, e) ==
    IF s.info = "bad" THEN Zero
    ELSE LET n == IF s.info = "ok" THEN 2 ELSE 0
         IN [Zero EXCEPT !.data = "packet", !.l2p = At(e, "L2"),
                         !.ethertype = s.eth, !.l3p = At(e, "L3"),
                         !.l3_rem = n, !.dp = At(e, "L3"), !.rem = n]

\* trace_get_transport looks at the libtrace packet, never at l3p.
HasTransport == cur.eth # "other" /\ cur.l4 # 0

GetTransportInfo(pi) ==
    [pi EXCEPT !.proto = cur.proto, !.dp = At(epoch, "L4"), !.rem = cur.l4]

HasPayload(h) == h.l4 # 0

\* Mutant: the ports' bytes are taken off the count unchecked.
GetTransPayloadUnchecked(pi, h) ==
    [pi EXCEPT !.proto = h.proto, !.dp = At(pi.l3p.mem, h.at),
               !.rem = h.l4 - 2]

\* Mutant: the libtrace packet is asked for its transport header.
GetTransPayloadOfPacket(pi, h) ==
    [pi EXCEPT !.proto = h.proto, !.dp = At(epoch, h.at), !.rem = 2]

\* get_trans_payload: with too few bytes it succeeds and leaves new_spi alone.
GetTransPayload(pi, h) ==
    IF h.l4 < 2 THEN Zero
    ELSE [pi EXCEPT !.proto = h.proto, !.dp = At(pi.l3p.mem, h.at), !.rem = 2]

\* Mutant: the record also takes the type of the header that was found.
ForChecksumRetags(pi, h) ==
    IF pi.proto = "none" /\ HasPayload(h) /\ h.proto \in TransClasses
    THEN [pi EXCEPT !.proto = h.proto, !.dp = At(pi.l3p.mem, h.at),
                    !.rem = h.l4, !.o_type = Tag[h.proto]]
    ELSE pi

\* The record transport_checksum works on: it finds the transport header
\* only while proto is still unknown.
ForChecksum(pi, h) ==
    IF pi.proto # "none" THEN pi
    ELSE IF HasPayload(h)
         THEN [pi EXCEPT !.proto = h.proto, !.dp = At(pi.l3p.mem, h.at),
                         !.rem = h.l4]
         ELSE [pi EXCEPT !.dp = Null, !.rem = pi.l3_rem]

ChecksumProtos(pi) ==
    {"tcp", "udp", IF pi.ethertype = "ip4" THEN "icmp" ELSE "icmp6"}

-----------------------------------------------------------------------------
(* How a call ends *)

Return(r) == ret' = r /\ UNCHANGED <<heap, held>>

\* A view on an existing record, whose fields the getter has overwritten.
Share(c, i, pi) ==
    /\ heap' = [heap EXCEPT ![i] = pi]
    /\ held' = [held EXCEPT ![i] = @ \cup {c}]
    /\ ret' = "ok"

\* A view on a record of its own.  The program keeps it in place of another
\* record, whose objects it lets go.
Make(c, pi) ==
    /\ \E j \in PiIds \ {Pkt} :
         /\ heap' = [heap EXCEPT ![j] = pi]
         /\ held' = [held EXCEPT ![j] = {c}]
    /\ ret' = "ok"

\* The program holds an object of one of these classes on record i.
Holds(cs, i) == held[i] \cap cs # {}

SamePacket == UNCHANGED <<epoch, cur>>
NoChecksum == summed' = Null

-----------------------------------------------------------------------------
(* _trace.read_packet on the Packet object *)

ReadPacket(s) ==
    /\ epoch < MaxReads
    /\ epoch' = epoch + 1
    /\ cur' = s
    /\ LET pi == GetPktInfo(heap[Pkt], s, epoch + 1)
       IN \/ /\ s.info = "bad"
             /\ heap' = [heap EXCEPT ![Pkt] = pi]
             /\ ret' = "raised"
          \/ /\ s.info # "bad"
             /\ heap' = [heap EXCEPT ![Pkt] =
                           [pi EXCEPT !.o_type = "PKT", !.o_kind = "PKT"]]
             /\ ret' = "ok"
    /\ NoChecksum
    /\ UNCHANGED held

\* End of file, a timeout or a libtrace error: get_pkt_info is not reached.
ReadNothing ==
    /\ \E r \in {"none", "raised"} : Return(r)
    /\ SamePacket /\ NoChecksum

-----------------------------------------------------------------------------
(* The getters every view inherits from _pkt_obj *)

FromPacket(i) == heap[i].o_kind = "PKT"    \* check_pkt

GetLayer2(i) ==
    /\ LET pi == heap[i]
       IN \/ ~FromPacket(i) /\ Return("raised")
          \/ /\ FromPacket(i)
             /\ Share("layer2", i,
                      [pi EXCEPT !.o_type = "L2", !.dp = pi.l2p,
                                 !.rem = IF pi.l2p = Null THEN 0 ELSE 2])
    /\ SamePacket /\ NoChecksum

GetLayer3(i) ==
    /\ LET pi == heap[i]
       IN \/ ~FromPacket(i) /\ Return("raised")
          \/ /\ FromPacket(i)
             /\ Share("layer3", i,
                      [pi EXCEPT !.o_type = "L3", !.dp = pi.l3p,
                                 !.rem = pi.l3_rem])
    /\ SamePacket /\ NoChecksum

\* ip, ip4 and ip6: the constructor re-tags the record it shares.
GetIp(i) ==
    /\ LET pi == heap[i]
       IN \/ ~FromPacket(i) /\ Return("raised")
          \/ /\ FromPacket(i) /\ pi.ethertype = "ip4"
             /\ Share("ip", i, [pi EXCEPT !.o_type = "IP"])
          \/ /\ FromPacket(i) /\ pi.ethertype = "ip6"
             /\ Share("ip6", i, [pi EXCEPT !.o_type = "IP6"])
          \/ FromPacket(i) /\ Return("none")
    /\ SamePacket /\ NoChecksum

GetTransport(i) ==
    /\ \/ ~FromPacket(i) /\ Return("raised")
       \/ FromPacket(i) /\ ~HasTransport /\ Return("none")
       \/ /\ FromPacket(i) /\ HasTransport
          /\ Make("transport", [GetTransportInfo(heap[i]) EXCEPT
                                  !.o_type = "L4", !.o_kind = "PKT"])
    /\ SamePacket /\ NoChecksum

\* Mutant: any transport header will do.
IsTransOfAny(c, pi, h) == h.l4 = 2

\* The protocol test of the tcp, udp, icmp, icmp6 and sctp getters.
IsTrans(c, pi, h) ==
    /\ c = "icmp" => pi.ethertype = "ip4"
    /\ c = "icmp6" => pi.ethertype = "ip6"
    /\ HasPayload(h)
    /\ GetTransPayload(pi, h).proto = c

GetTrans(c, i) ==
    /\ LET pi == heap[i]
       IN \/ pi.l3_rem = 0 /\ Return("raised")
          \/ /\ pi.l3_rem # 0
             /\ \E h \in Headers(pi) :
                  \/ ~IsTrans(c, pi, h) /\ Return("none")
                  \/ /\ IsTrans(c, pi, h)
                     /\ Make(c, [GetTransPayload(pi, h) EXCEPT
                                   !.o_type = Tag[c]])
    /\ SamePacket /\ NoChecksum

-----------------------------------------------------------------------------
(* Payloads *)

\* A new_pi keeps no layer-2 pointer and no ethertype.
PayloadPi(pi, p) ==
    [Zero EXCEPT !.o_type = "L5", !.o_kind = "CPY", !.data = pi.data,
                 !.l3p = pi.l3p, !.l3_rem = pi.l3_rem, !.proto = p,
                 !.dp = Beyond(pi.dp), !.rem = 2]

\* mk_data copies the payload's bytes first.
Copied(pi, c, new) ==
    /\ pi.rem = 2
    /\ \/ pi.dp # Null /\ Make(c, new)
       \/ pi.dp = Null /\ Return("crash")

\* Mutant: no check_tcp, as in udp.payload and icmp.payload.
IsTcpUnchecked(pi) == pi.dp # Null

\* check_tcp
IsTcp(pi) == pi.o_type = "TCP"

\* Returns None when the captured bytes end before or with the header.
TcpPayload(i) ==
    /\ Holds({"tcp"}, i)
    /\ LET pi == heap[i]
       IN \/ ~IsTcp(pi) /\ Return("raised")
          \/ IsTcp(pi) /\ Return("none")
          \/ IsTcp(pi) /\ Copied(pi, "l5", PayloadPi(pi, "tcp"))
    /\ SamePacket /\ NoChecksum

UdpPayload(i) ==
    /\ Holds({"udp"}, i)
    /\ LET pi == heap[i]
       IN \/ Return("none")
          \/ Copied(pi, "l5", PayloadPi(pi, "udp"))
    /\ SamePacket /\ NoChecksum

\* sub_trans_obj: the packet quoted by an ICMP or ICMPv6 error becomes an
\* _ip_obj; for other message types the call returns a slice, no object.
SubTrans(pi) ==
    [Zero EXCEPT !.o_type = "IP", !.o_kind = pi.o_kind, !.data = pi.data,
                 !.l3p = pi.l3p, !.l3_rem = pi.l3_rem, !.proto = "icmp",
                 !.dp = Beyond(pi.dp), !.rem = 2]

IcmpPayload(i) ==
    /\ Holds({"icmp", "icmp6"}, i)
    /\ LET pi == heap[i]
       IN \/ Return("none")
          \/ pi.rem = 2 /\ pi.dp # Null /\ Return("ok")
          \/ Copied(pi, "ip", SubTrans(pi))
    /\ SamePacket /\ NoChecksum

-----------------------------------------------------------------------------
(* _inet_obj: the protocol number and the checksums *)

\* get_proto reads the version nibble at l3p, and for IPv6 get_ip6_proto
\* stores what it finds in the record.
GetProto(i) ==
    /\ Holds(InetClasses, i)
    /\ LET pi == heap[i]
       IN \/ pi.l3p = Null /\ Return("raised")
          \/ /\ pi.l3p # Null
             /\ \E s \in Decoded(pi) :
                  IF s.eth = "ip6" /\ pi.l3_rem # 0 /\ s.l4 # 0
                  THEN /\ heap' = [heap EXCEPT ![i].proto = s.proto]
                       /\ ret' = "ok"
                       /\ UNCHANGED held
                  ELSE Return("none")
    /\ SamePacket /\ NoChecksum

\* transport_checksum on record i, for a caller that turns -1 into `failed'.
TransportChecksum(i, failed) ==
    /\ UNCHANGED held
    /\ \/ /\ heap[i].l3p = Null
          /\ ret' = "crash"
          /\ UNCHANGED heap /\ NoChecksum
       \/ /\ heap[i].l3p # Null
          /\ \E h \in Headers(heap[i]) :
               LET d == ForChecksum(heap[i], h)
               IN /\ heap' = [heap EXCEPT ![i] = d]
                  /\ \/ /\ \/ d.proto \notin ChecksumProtos(d)
                           \/ d.ethertype = "ip4"    \* l3_rem < ip_len
                        /\ ret' = failed
                        /\ NoChecksum
                     \/ /\ d.proto \in ChecksumProtos(d)
                        /\ d.ethertype = "ip4" => d.l3_rem # 0
                        /\ summed' = d.dp
                        /\ ret' = IF d.dp = Null THEN "crash" ELSE "ok"

\* test_trans_cksm and set_trans_cksm
TransCksm(i) ==
    /\ Holds(InetClasses, i)
    /\ \/ heap[i].o_type \in BelowL3 /\ Return("raised") /\ NoChecksum
       \/ /\ heap[i].o_type \notin BelowL3
          /\ \E failed \in {"none", "raised"} :
               TransportChecksum(i, failed)
    /\ SamePacket

\* set_checksums: nothing is done for a packet that is not IPv4.
SetChecksums(i) ==
    /\ Holds({"layer3"}, i)
    /\ LET pi == heap[i]
           ready == pi.o_kind = "PKT" /\ pi.o_type \notin BelowL3
       IN \/ ~ready /\ Return("raised") /\ NoChecksum
          \/ ready /\ Return("none") /\ NoChecksum    \* l3_checksum gave -1
          \/ /\ ready /\ pi.ethertype = "ip4" /\ pi.l3_rem # 0
             /\ TransportChecksum(i, "none")
    /\ SamePacket

-----------------------------------------------------------------------------
(* ip(), ip6(), tcp(), ...: objects made by the program *)

\* What each constructor does to the record mk_new_obj hands it.
Construct(c, pi) ==
    CASE c = "ip"   -> [pi EXCEPT !.ethertype = "ip4", !.o_type = "IP"]
      [] c = "ip6"  -> [pi EXCEPT !.ethertype = "ip6", !.o_type = "IP6"]
      [] c = "sctp" -> [pi EXCEPT !.o_type = "SCTP"]
      [] OTHER      -> [pi EXCEPT !.l3_rem = 0, !.o_type = Tag[c]]

NewClasses == TransClasses \cup {"ip", "ip6"}

NewFromObject(c, i) ==
    /\ LET pi == heap[i]
       IN \/ /\ pi.o_type \notin L3Types \/ pi.l3_rem = 0
             /\ Return("raised")
          \/ /\ pi.o_type \in L3Types /\ pi.l3_rem # 0
             /\ \E h \in Headers(pi) :
                  \/ ~HasPayload(h) /\ Return("raised")
                  \/ /\ HasPayload(h)
                     /\ Make(c, Construct(c, GetTransPayload(pi, h)))
    /\ SamePacket /\ NoChecksum

\* Mutant: an object made from bytes passes for one of the packet.
BytesPiOfPacket(c, e, p) ==
    [Zero EXCEPT !.o_kind = "PKT", !.data = "bytes", !.l3p = At(e, "L3"),
                 !.l3_rem = 2, !.proto = p, !.dp = At(e, "L3"), !.rem = 2]

\* A bytearray is copied; a cffi slice of the current packet is aliased.
BytesPi(c, e, p) ==
    LET here == At(e, IF c \in {"ip", "ip6"} THEN "L3" ELSE "L4")
    IN [Zero EXCEPT !.o_kind = "CPY", !.data = "bytes", !.l3p = here,
                    !.l3_rem = 2, !.proto = p, !.dp = here, !.rem = 2]

NewFromBytes(c, e) ==
    /\ \/ c = "ip6" /\ Return("raised")    \* get_ip6_proto found nothing
       \/ \E p \in IF c \in {"ip", "ip6"}
                THEN {s.proto : s \in Shapes} ELSE {"none"} :
            Make(c, Construct(c, BytesPi(c, e, p)))
    /\ SamePacket /\ NoChecksum

-----------------------------------------------------------------------------
(* natkit.make_fkey *)

MakeFkey(i) ==
    /\ \/ ~FromPacket(i) /\ Return("raised")
       \/ /\ FromPacket(i) /\ heap[i].proto = "none"
          /\ Return(IF HasTransport /\ heap[i].ethertype \in {"ip4", "ip6"}
                    THEN "ok" ELSE "none")
       \/ /\ FromPacket(i) /\ heap[i].proto # "none"
          /\ Return("unbound")
    /\ SamePacket /\ NoChecksum

-----------------------------------------------------------------------------

Init ==
    /\ epoch = 0
    /\ cur = [info |-> "bad", eth |-> "other", proto |-> "none", l4 |-> 0]
    /\ heap = [i \in PiIds |-> Zero]
    /\ held = [i \in PiIds |-> IF i = Pkt THEN {"pkt"} ELSE {}]
    /\ summed = Null
    /\ ret = "ok"

Use(i) ==
    \/ GetLayer2(i) \/ GetLayer3(i) \/ GetIp(i) \/ GetTransport(i)
    \/ \E c \in TransClasses : GetTrans(c, i)
    \/ TcpPayload(i) \/ UdpPayload(i) \/ IcmpPayload(i)
    \/ GetProto(i) \/ TransCksm(i) \/ SetChecksums(i)
    \/ \E c \in NewClasses : NewFromObject(c, i)
    \/ MakeFkey(i)

Next ==
    /\ ret # "crash"
    /\ \/ \E s \in Shapes : ReadPacket(s)
       \/ ReadNothing
       \/ \E i \in {j \in PiIds : held[j] # {}} : Use(i)
       \/ \E c \in NewClasses, e \in {0, epoch} : NewFromBytes(c, e)

Spec == Init /\ [][Next]_vars

-----------------------------------------------------------------------------
(* Properties *)

Returns == {"ok", "none", "raised", "unbound", "crash"}

\* Every record is a well-formed pi, every object is of a known class.
TypeOK ==
    /\ epoch \in Nat
    /\ cur \in Shape
    /\ heap \in [PiIds -> Pi]
    /\ held \in [PiIds -> SUBSET Classes]
    /\ summed \in Ptr
    /\ ret \in Returns

\* check_pkt guards every cast of pi.data to a libtrace packet: a record of
\* kind PKT always carries the packet handle and a layer-3 pointer, however
\* the program got it (copied, quoted by ICMP, made from bytes, ...).
PktKindHasPacket ==
    \A i \in PiIds :
        heap[i].o_kind = "PKT" => heap[i].data = "packet" /\ heap[i].l3p # Null

\* The Packet's own record never mixes two packets: whatever was cached in it
\* (pointers, ethertype, protocol) is about the packet now in the buffer.
RootDescribesCurrent ==
    LET pi == heap[Pkt]
    IN /\ \A p \in {pi.l2p, pi.l3p, pi.dp} : p = Null \/ p.mem = epoch
       /\ pi.ethertype \in {"unset", cur.eth}
       /\ pi.proto \in {"none", cur.proto}

\* Objects that outlive a read may be stale, but only pkt.transport, which
\* asks libtrace instead of starting from l3p, can join the IP header of one
\* packet to the transport bytes of another; every other object has all its
\* pointers in one packet, whichever objects it was derived from.
OnlyTransportMixesPackets ==
    \A i \in PiIds :
        "transport" \notin held[i] /\ heap[i].dp # Null
            => heap[i].dp.mem = heap[i].l3p.mem

\* The record is of the packet in the buffer and of its version, which ip() and
\* ip6() on an object of the other would change.
OfCurrent(i) ==
    /\ heap[i].data = "packet" /\ heap[i].l3p.mem = epoch
    /\ heap[i].ethertype = cur.eth

\* While its packet is in the buffer, an object tagged TCP, UDP, ICMP or
\* ICMP6 that kept its layer-3 bytes and its version sits on a header of that
\* protocol, whatever it was derived from, although get_proto and the checksum
\* code may have rewritten its record.
TagMatchesProtocol ==
    \A i \in PiIds, c \in TransClasses \ {"sctp"} :
        /\ heap[i].o_type = Tag[c]
        /\ OfCurrent(i) /\ heap[i].l3_rem # 0
        => heap[i].proto = c /\ heap[i].dp = At(epoch, "L4")

\* tcp.payload of a current TCP packet gives what starts right after its TCP
\* header, or nothing, even if the tcp object was used to get layer2, layer3 or
\* ip in between.
TcpPayloadFollows ==
    \A i \in PiIds :
        /\ TcpPayload(i) /\ ret' = "ok"
        /\ OfCurrent(i) /\ heap[i].proto = "tcp"
        => \A j \in PiIds :
             heap'[j] # heap[j] => heap'[j].dp = At(epoch, "L5")

TcpPayloadAfterHeader == [][TcpPayloadFollows]_vars

\* Taking layer2, layer3 or ip from a transport object re-tags its record for
\* good: its typed accessors raise from then on and never revive.
StaysRetagged ==
    \A i \in PiIds :
        /\ held[i] # {} /\ held[i] \subseteq held'[i]
        /\ heap[i].o_type \notin TransTypes
        => heap'[i].o_type \notin TransTypes

RetagIsForGood == [][StaysRetagged]_vars

-----------------------------------------------------------------------------
(* What the documentation says and the code does not do *)

\* doc/Internet.html: test_trans_cksm and set_trans_cksm work on the TCP, UDP,
\* ICMP or ICMP6 checksum, so in the transport header.
ChecksumInTransportHeader == summed # Null => summed.at = "L4"

\* doc/natkit.html: IPflow takes any object derived from a packet.
FlowFromAnyObject == ret # "unbound"

=============================================================================
