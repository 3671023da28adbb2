-------------------------- MODULE PacketViewsProofs --------------------------
(***************************************************************************)
(* Proofs about PacketViews, for any set of packet shapes and any bounds.   *)
(*                                                                         *)
(* Every action rewrites at most one record, so the inductive invariant is  *)
(* a predicate RecordOK of one record (with the classes held on it and the  *)
(* packet in the buffer), plus RootOK for the Packet's own record.          *)
(***************************************************************************)
EXTENDS PacketViews, TLAPS

-----------------------------------------------------------------------------
(* The inductive invariant *)

ShareClasses == {"layer2", "layer3", "ip", "ip6"}

\* The record is of the packet in the buffer and of its version (OfCurrent), and
\* has layer-3 bytes.
Current(pi, e, k) ==
    pi.data = "packet" /\ pi.l3p.mem = e /\ pi.ethertype = k.eth

Fresh(pi, e, k) == Current(pi, e, k) /\ pi.l3_rem # 0

KindOK(pi, e) ==
    /\ pi.o_kind = "PKT" => pi.data = "packet"
    /\ pi.data = "packet" =>
         pi.l3p.at = "L3" /\ pi.l3p.mem >= 1 /\ pi.l3p.mem <= e

MemoryOK(pi, cs) ==
    /\ pi.l2p = Null \/ pi.l2p.mem = pi.l3p.mem
    /\ "transport" \notin cs => pi.dp = Null \/ pi.dp.mem = pi.l3p.mem

TagOK(pi, cs) ==
    /\ "transport" \in cs =>
         /\ cs \subseteq ShareClasses \cup {"transport"}
         /\ pi.o_type \notin TransTypes
    /\ \A c \in TransClasses :
         /\ pi.o_type = Tag[c] => c \in cs
         /\ cs = {c} => pi.o_type = Tag[c]

ProtoOK(pi, cs, e, k) ==
    /\ Fresh(pi, e, k) =>
         \A c \in TransClasses \ {"sctp"} :
           /\ c \in cs => k.proto = c
           /\ pi.o_type = Tag[c] => pi.proto = c /\ pi.dp = At(e, "L4")
    /\ Current(pi, e, k) /\ pi.o_type = "TCP" => pi.dp \in {At(e, "L4"), Null}

RecordOK(pi, cs, e, k) ==
    KindOK(pi, e) /\ MemoryOK(pi, cs) /\ TagOK(pi, cs) /\ ProtoOK(pi, cs, e, k)

RootOK(pi, cs, e, k) ==
    /\ cs \subseteq ShareClasses \cup {"pkt"}
    /\ \/ pi = Zero
       \/ /\ pi.data = "packet"
          /\ pi.l2p = At(e, "L2") /\ pi.l3p = At(e, "L3")
          /\ pi.dp = Null \/ pi.dp.mem = e
          /\ pi.ethertype = k.eth
          /\ pi.proto \in {"none", k.proto}
          /\ pi.o_type \notin TransTypes

IInv ==
    /\ TypeOK
    /\ \A i \in PiIds : RecordOK(heap[i], held[i], epoch, cur)
    /\ RootOK(heap[Pkt], held[Pkt], epoch, cur)

-----------------------------------------------------------------------------
(* Lemmas on records *)

\* The operators that build pointers and records build well-typed ones.
LEMMA PtrTypes ==
    /\ Null \in Ptr
    /\ \A e \in Nat, h \in {"L2", "L3", "L4", "inside"} : At(e, h) \in Ptr
    /\ \A p \in Ptr : Beyond(p) \in Ptr
    /\ Zero \in Pi
  BY DEF Null, At, Ptr, Beyond, Zero, Pi, Types, BelowL3, L3Types, TransTypes,
         Bytes, Protos, Ethertypes

\* The layer-3 pointer of a record of the packet in the buffer.
LEMMA CurrentOnPacket ==
    ASSUME IInv, NEW i \in PiIds, heap[i].data = "packet",
           heap[i].l3p.mem = epoch
    PROVE  OnPacket(heap[i])
  <1>1. heap[i] \in Pi /\ KindOK(heap[i], epoch)
    BY DEF IInv, TypeOK, RecordOK
  <1>2. heap[i].l3p \in Ptr /\ heap[i].l3p.at = "L3"
    BY <1>1 DEF KindOK, Pi
  <1>3. heap[i].l3p = At(epoch, "L3")
    BY <1>2 DEF Ptr, At
  <1> QED
    BY <1>3 DEF OnPacket

\* The packet whose version is read at a record's l3p; for a current record it
\* is the packet in the buffer.
LEMMA DecodedShape ==
    ASSUME IInv, NEW i \in PiIds, NEW s \in Decoded(heap[i])
    PROVE  /\ s \in Shape
           /\ Fresh(heap[i], epoch, cur) => s = cur
  <1>1. Shapes \subseteq Shape /\ cur \in Shape
    BY PacketViewsAssumption DEF IInv, TypeOK
  <1> QED
    BY <1>1, CurrentOnPacket DEF Decoded, Fresh, Current

\* The header libtrace takes from a record's l3p; for a current record it is
\* the transport header of the packet in the buffer.
LEMMA HeadersShape ==
    ASSUME IInv, NEW i \in PiIds, NEW h \in Headers(heap[i])
    PROVE  /\ h \in Header
           /\ Current(heap[i], epoch, cur) /\ HasPayload(h) =>
                h.proto = cur.proto /\ h.at = "L4"
  <1>1. Misread \subseteq Header /\ NoHeader \in Header /\ cur \in Shape
    BY PacketViewsAssumption
    DEF IInv, TypeOK, NoHeader, Header, Protos, Bytes
  <1>2. CASE h = NoHeader
    BY <1>1, <1>2 DEF NoHeader, HasPayload
  <1>3. CASE h = [proto |-> cur.proto, at |-> "L4", l4 |-> cur.l4]
    BY <1>1, <1>3 DEF Header, Shape
  <1>4. CASE h \in Misread
             /\ ~(OnPacket(heap[i]) /\ heap[i].ethertype = cur.eth)
    BY <1>1, <1>4, CurrentOnPacket DEF Current
  <1> QED
    BY <1>2, <1>3, <1>4 DEF Headers

\* An action that rewrites one record and leaves the packet alone keeps the
\* invariant if it does so for that record.
LEMMA UpdateKeeps ==
    ASSUME IInv,
           NEW i \in PiIds, NEW pi \in Pi, NEW cs \in SUBSET Classes,
           heap' = [heap EXCEPT ![i] = pi],
           held' = [held EXCEPT ![i] = cs],
           RecordOK(pi, cs, epoch, cur),
           i = Pkt => RootOK(pi, cs, epoch, cur),
           SamePacket, ret' \in Returns, summed' \in Ptr
    PROVE  IInv'
  <1>1. TypeOK'
    BY DEF IInv, TypeOK, SamePacket
  <1>2. ASSUME NEW j \in PiIds
        PROVE  RecordOK(heap'[j], held'[j], epoch', cur')
    BY DEF IInv, TypeOK, SamePacket
  <1>3. RootOK(heap'[Pkt], held'[Pkt], epoch', cur')
    BY PacketViewsAssumption DEF IInv, TypeOK, SamePacket, PiIds, Pkt
  <1> QED
    BY <1>1, <1>2, <1>3 DEF IInv

\* A call that fails, or returns no object, changes no record.
LEMMA ReturnKeeps ==
    ASSUME IInv, UNCHANGED <<heap, held>>, SamePacket,
           ret' \in Returns, summed' \in Ptr
    PROVE  IInv'
  BY DEF IInv, TypeOK, SamePacket

-----------------------------------------------------------------------------
(* The getters that share a record *)

LEMMA ReturnIsTyped ==
    /\ \A r \in Returns : Return(r) => ret' \in Returns
    /\ NoChecksum => summed' \in Ptr
  BY PtrTypes DEF Return, NoChecksum

\* What every record is known to satisfy.
LEMMA RecordFacts ==
    ASSUME IInv, NEW i \in PiIds
    PROVE  /\ heap[i] \in Pi
           /\ held[i] \in SUBSET Classes
           /\ RecordOK(heap[i], held[i], epoch, cur)
           /\ epoch \in Nat
           /\ cur \in Shape
  BY DEF IInv, TypeOK

\* A record whose type, dp and rem are overwritten, with dp one of its own
\* pointers, and which is tagged below the transport layer.
LEMMA RetagOK ==
    ASSUME IInv, NEW i \in PiIds, FromPacket(i),
           NEW t \in {"L2", "L3", "IP", "IP6"}, NEW n \in Bytes,
           NEW c \in ShareClasses,
           NEW p \in {heap[i].dp, heap[i].l2p, heap[i].l3p},
           Share(c, i, [heap[i] EXCEPT !.o_type = t, !.dp = p, !.rem = n]),
           SamePacket, NoChecksum
    PROVE  IInv'
  <1> DEFINE pi == heap[i]
             new == [pi EXCEPT !.o_type = t, !.dp = p, !.rem = n]
             cs == held[i] \cup {c}
  <1>1. /\ pi \in Pi /\ held[i] \in SUBSET Classes
        /\ KindOK(pi, epoch) /\ MemoryOK(pi, held[i])
        /\ TagOK(pi, held[i]) /\ ProtoOK(pi, held[i], epoch, cur)
    BY RecordFacts DEF RecordOK
  <1>2. c \in Classes /\ c \notin TransClasses \cup {"transport", "pkt"}
    BY DEF ShareClasses, Classes, TransClasses
  <1>3. t \in Types /\ t \notin TransTypes \cup {"L5", "L4", "PKT", "unset"}
    BY DEF Types, BelowL3, L3Types, TransTypes
  <1>4. new \in Pi
    BY <1>1, <1>3 DEF Pi
  <1>5. /\ new.o_type = t /\ new.dp = p /\ new.o_kind = pi.o_kind
        /\ new.data = pi.data /\ new.l2p = pi.l2p /\ new.l3p = pi.l3p
        /\ new.l3_rem = pi.l3_rem /\ new.proto = pi.proto
        /\ new.ethertype = pi.ethertype
    BY <1>1 DEF Pi
  <1>6. RecordOK(new, cs, epoch, cur)
    <2>1. KindOK(new, epoch)
      BY <1>1, <1>5 DEF KindOK
    <2>2. MemoryOK(new, cs)
      BY <1>1, <1>2, <1>5 DEF MemoryOK
    <2>3. TagOK(new, cs)
      BY <1>1, <1>2, <1>3, <1>5
      DEF TagOK, ShareClasses, TransClasses, TransTypes, Tag
    <2>4. ProtoOK(new, cs, epoch, cur)
      BY <1>1, <1>2, <1>3, <1>5
      DEF ProtoOK, Fresh, Current, TransClasses, TransTypes, Tag
    <2> QED
      BY <2>1, <2>2, <2>3, <2>4 DEF RecordOK
  <1>7. ASSUME i = Pkt PROVE RootOK(new, cs, epoch, cur)
    BY <1>1, <1>2, <1>3, <1>5, <1>7
    DEF IInv, RootOK, FromPacket, Zero, At, ShareClasses
  <1>8. ret' \in Returns /\ summed' \in Ptr
    BY ReturnIsTyped DEF Share, Returns
  <1>9. heap' = [heap EXCEPT ![i] = new] /\ held' = [held EXCEPT ![i] = cs]
    BY DEF Share
  <1>10. cs \in SUBSET Classes
    BY <1>1, <1>2
  <1> HIDE DEF new, cs
  <1> QED
    BY <1>4, <1>6, <1>7, <1>8, <1>9, <1>10, UpdateKeeps

LEMMA Layer2Keeps ==
    ASSUME IInv, NEW i \in PiIds, GetLayer2(i)
    PROVE  IInv'
  <1>1. CASE ~FromPacket(i) /\ Return("raised") /\ SamePacket /\ NoChecksum
    BY <1>1, ReturnKeeps, ReturnIsTyped DEF Return, Returns
  <1>2. CASE /\ FromPacket(i) /\ SamePacket /\ NoChecksum
             /\ Share("layer2", i,
                      [heap[i] EXCEPT !.o_type = "L2", !.dp = heap[i].l2p,
                         !.rem = IF heap[i].l2p = Null THEN 0 ELSE 2])
    <2> DEFINE n == IF heap[i].l2p = Null THEN 0 ELSE 2
    <2>1. n \in Bytes
      BY DEF Bytes
    <2> HIDE DEF n
    <2>2. Share("layer2", i, [heap[i] EXCEPT !.o_type = "L2",
                                !.dp = heap[i].l2p, !.rem = n])
      BY <1>2 DEF n
    <2> QED
      BY <1>2, <2>1, <2>2, RetagOK DEF ShareClasses
  <1> QED
    BY <1>1, <1>2 DEF GetLayer2

LEMMA Layer3Keeps ==
    ASSUME IInv, NEW i \in PiIds, GetLayer3(i)
    PROVE  IInv'
  <1>1. CASE ~FromPacket(i) /\ Return("raised") /\ SamePacket /\ NoChecksum
    BY <1>1, ReturnKeeps, ReturnIsTyped DEF Return, Returns
  <1>2. CASE /\ FromPacket(i) /\ SamePacket /\ NoChecksum
             /\ Share("layer3", i,
                      [heap[i] EXCEPT !.o_type = "L3", !.dp = heap[i].l3p,
                                      !.rem = heap[i].l3_rem])
    <2>1. heap[i].l3_rem \in Bytes
      BY RecordFacts DEF Pi
    <2> QED
      BY <1>2, <2>1, RetagOK DEF ShareClasses
  <1> QED
    BY <1>1, <1>2 DEF GetLayer3

\* ip and ip6 keep dp and rem where they are.
LEMMA IpKeeps ==
    ASSUME IInv, NEW i \in PiIds, GetIp(i)
    PROVE  IInv'
  <1>1. CASE \/ Return("raised") /\ SamePacket /\ NoChecksum
             \/ Return("none") /\ SamePacket /\ NoChecksum
    BY <1>1, ReturnKeeps, ReturnIsTyped DEF Return, Returns
  <1>2. ASSUME FromPacket(i), SamePacket, NoChecksum,
               NEW c \in {"ip", "ip6"}, NEW t \in {"IP", "IP6"},
               Share(c, i, [heap[i] EXCEPT !.o_type = t])
        PROVE  IInv'
    <2>1. heap[i].rem \in Bytes
      BY RecordFacts DEF Pi
    <2>2. [heap[i] EXCEPT !.o_type = t]
            = [heap[i] EXCEPT !.o_type = t, !.dp = heap[i].dp,
                              !.rem = heap[i].rem]
      BY RecordFacts DEF Pi
    <2>3. Share(c, i, [heap[i] EXCEPT !.o_type = t, !.dp = heap[i].dp,
                                      !.rem = heap[i].rem])
      BY <1>2, <2>2
    <2> QED
      BY <1>2, <2>1, <2>3, RetagOK DEF ShareClasses
  <1> QED
    BY <1>1, <1>2 DEF GetIp

-----------------------------------------------------------------------------
(* The calls that make a record of its own *)

LEMMA MakeKeeps ==
    ASSUME IInv, NEW c \in Classes, NEW pi \in Pi,
           RecordOK(pi, {c}, epoch, cur), Make(c, pi),
           SamePacket, NoChecksum
    PROVE  IInv'
  <1>1. ret' \in Returns /\ summed' \in Ptr
    BY ReturnIsTyped DEF Make, Returns
  <1>2. PICK j \in PiIds \ {Pkt} : /\ heap' = [heap EXCEPT ![j] = pi]
                                  /\ held' = [held EXCEPT ![j] = {c}]
    BY DEF Make
  <1>3. {c} \in SUBSET Classes /\ j \in PiIds /\ j # Pkt
    OBVIOUS
  <1> QED
    BY <1>1, <1>2, <1>3, UpdateKeeps

LEMMA TransportKeeps ==
    ASSUME IInv, NEW i \in PiIds, GetTransport(i)
    PROVE  IInv'
  <1>1. CASE \/ Return("raised") /\ SamePacket /\ NoChecksum
             \/ Return("none") /\ SamePacket /\ NoChecksum
    BY <1>1, ReturnKeeps, ReturnIsTyped DEF Return, Returns
  <1>2. CASE /\ FromPacket(i) /\ SamePacket /\ NoChecksum
             /\ Make("transport", [GetTransportInfo(heap[i]) EXCEPT
                                     !.o_type = "L4", !.o_kind = "PKT"])
    <2> DEFINE new == [GetTransportInfo(heap[i]) EXCEPT
                         !.o_type = "L4", !.o_kind = "PKT"]
    <2>1. /\ heap[i] \in Pi /\ KindOK(heap[i], epoch)
          /\ MemoryOK(heap[i], held[i]) /\ epoch \in Nat /\ cur \in Shape
      BY RecordFacts DEF RecordOK
    <2>2. new \in Pi
      BY <2>1, PtrTypes DEF GetTransportInfo, Pi, Shape, Types
    <2>3. /\ new.o_type = "L4" /\ new.o_kind = "PKT"
          /\ new.data = heap[i].data /\ new.l2p = heap[i].l2p
          /\ new.l3p = heap[i].l3p /\ new.l3_rem = heap[i].l3_rem
      BY <2>1 DEF GetTransportInfo, Pi
    <2> HIDE DEF new
    <2>4. KindOK(new, epoch) /\ MemoryOK(new, {"transport"})
      BY <1>2, <2>1, <2>3 DEF KindOK, MemoryOK, FromPacket
    <2>5. TagOK(new, {"transport"}) /\ ProtoOK(new, {"transport"}, epoch, cur)
      BY <2>3 DEF TagOK, ProtoOK, TransTypes, TransClasses, Tag
    <2> QED
      BY <1>2, <2>2, <2>4, <2>5, MakeKeeps DEF RecordOK, new, Classes
  <1> QED
    BY <1>1, <1>2 DEF GetTransport

\* get_trans_payload either leaves the new record as ffi.new made it, or
\* copies the old one and moves dp to the header that was found; on a current
\* record that is the transport header.
LEMMA TransPayloadFacts ==
    ASSUME IInv, NEW i \in PiIds, NEW h \in Headers(heap[i]),
           NEW g, g = GetTransPayload(heap[i], h)
    PROVE  /\ g \in Pi
           /\ g = Zero \/ /\ g.o_kind = heap[i].o_kind
                          /\ g.data = heap[i].data
                          /\ g.l2p = heap[i].l2p
                          /\ g.ethertype = heap[i].ethertype
                          /\ g.l3p = heap[i].l3p
                          /\ g.l3_rem = heap[i].l3_rem
                          /\ g.proto = h.proto
                          /\ g.dp = At(heap[i].l3p.mem, h.at)
           /\ KindOK(g, epoch)
           /\ g.l2p = Null \/ g.l2p.mem = g.l3p.mem
           /\ g.dp = Null \/ g.dp.mem = g.l3p.mem
           /\ Current(g, epoch, cur) => g.proto = cur.proto /\ g.dp = At(epoch, "L4")
  <1>1. /\ heap[i] \in Pi /\ KindOK(heap[i], epoch)
        /\ MemoryOK(heap[i], held[i])
    BY RecordFacts DEF RecordOK
  <1>2. h \in Header
    BY HeadersShape
  <1>3. CASE h.l4 < 2
    <2>1. g = Zero
      BY <1>3 DEF GetTransPayload
    <2>2. /\ Zero.o_kind = "unset" /\ Zero.data = "NULL"
          /\ Zero.l2p = Null /\ Zero.dp = Null
      BY DEF Zero
    <2> QED
      BY <2>1, <2>2, PtrTypes DEF KindOK, Current
  <1>4. CASE ~(h.l4 < 2)
    <2>1. g = [heap[i] EXCEPT !.proto = h.proto,
                              !.dp = At(heap[i].l3p.mem, h.at), !.rem = 2]
      BY <1>4 DEF GetTransPayload
    <2>2. heap[i].l3p.mem \in Nat
      BY <1>1 DEF Pi, Ptr
    <2>3. h.at \in {"L4", "inside"} /\ At(heap[i].l3p.mem, h.at) \in Ptr
      BY <1>2, <2>2, PtrTypes DEF Header
    <2>4. g \in Pi
      <3>1. h.proto \in Protos
        BY <1>2 DEF Header
      <3>2. 2 \in Bytes
        BY DEF Bytes
      <3> QED
        BY <1>1, <2>1, <2>3, <3>1, <3>2 DEF Pi
    <2>5. /\ g.o_kind = heap[i].o_kind /\ g.data = heap[i].data
          /\ g.l2p = heap[i].l2p /\ g.l3p = heap[i].l3p
          /\ g.l3_rem = heap[i].l3_rem /\ g.proto = h.proto
          /\ g.ethertype = heap[i].ethertype
          /\ g.dp = At(heap[i].l3p.mem, h.at)
      BY <1>1, <2>1 DEF Pi
    <2>6. HasPayload(h)
      BY <1>2, <1>4 DEF HasPayload, Header, Bytes
    <2>7. Current(g, epoch, cur) => g.proto = cur.proto /\ g.dp = At(epoch, "L4")
      BY <2>5, <2>6, HeadersShape DEF Current
    <2> QED
      BY <1>1, <2>4, <2>5, <2>7 DEF KindOK, MemoryOK, At
  <1> QED
    BY <1>3, <1>4

LEMMA TransKeeps ==
    ASSUME IInv, NEW i \in PiIds, NEW c \in TransClasses, GetTrans(c, i)
    PROVE  IInv'
  <1>1. CASE \/ Return("raised") /\ SamePacket /\ NoChecksum
             \/ Return("none") /\ SamePacket /\ NoChecksum
    BY <1>1, ReturnKeeps, ReturnIsTyped DEF Return, Returns
  <1>2. ASSUME NEW h \in Headers(heap[i]), IsTrans(c, heap[i], h),
               Make(c, [GetTransPayload(heap[i], h) EXCEPT !.o_type = Tag[c]]),
               SamePacket, NoChecksum
        PROVE  IInv'
    <2> DEFINE g == GetTransPayload(heap[i], h)
               new == [g EXCEPT !.o_type = Tag[c]]
    <2>1. /\ g \in Pi /\ KindOK(g, epoch)
          /\ g.l2p = Null \/ g.l2p.mem = g.l3p.mem
          /\ g.dp = Null \/ g.dp.mem = g.l3p.mem
          /\ Current(g, epoch, cur) =>
               g.proto = cur.proto /\ g.dp = At(epoch, "L4")
      BY TransPayloadFacts
    <2>2. g.proto = c
      BY <1>2 DEF IsTrans
    <2> HIDE DEF g
    <2>3. /\ new \in Pi /\ new.o_type = Tag[c] /\ new.o_kind = g.o_kind
          /\ new.data = g.data /\ new.l2p = g.l2p /\ new.l3p = g.l3p
          /\ new.ethertype = g.ethertype
          /\ new.l3_rem = g.l3_rem /\ new.proto = g.proto /\ new.dp = g.dp
      BY <2>1 DEF Pi, Types, TransTypes, TransClasses, Tag
    <2> HIDE DEF new
    <2>4. KindOK(new, epoch) /\ MemoryOK(new, {c})
      BY <2>1, <2>3 DEF KindOK, MemoryOK
    <2>5. TagOK(new, {c})
      BY <2>1, <2>3 DEF TagOK, TransClasses, TransTypes, Tag
    <2>6. ProtoOK(new, {c}, epoch, cur)
      BY <2>1, <2>2, <2>3 DEF ProtoOK, Fresh, Current, TransClasses, Tag
    <2> QED
      BY <1>2, <2>3, <2>4, <2>5, <2>6, MakeKeeps
      DEF RecordOK, g, new, Classes
  <1> QED
    BY <1>1, <1>2 DEF GetTrans

\* The constructors of ip(), tcp(), ... on a record whose dp, if the record
\* is current, is at the transport header.
LEMMA ConstructOK ==
    ASSUME IInv, NEW c \in NewClasses, NEW g \in Pi, KindOK(g, epoch),
           g.l2p = Null \/ g.l2p.mem = g.l3p.mem,
           g.dp = Null \/ g.dp.mem = g.l3p.mem,
           Current(g, epoch, cur) => g.dp = At(epoch, "L4"),
           Make(c, Construct(c, g)), SamePacket, NoChecksum
    PROVE  IInv'
  <1> DEFINE new == Construct(c, g)
  <1>1. /\ {"ip4", "ip6"} \subseteq Ethertypes /\ 0 \in Bytes
        /\ {"IP", "IP6"} \subseteq Types
        /\ \A d \in TransClasses : Tag[d] \in Types
        /\ Tag["sctp"] = "SCTP" /\ "sctp" \in TransClasses
        /\ "ip" \notin TransClasses /\ "ip6" \notin TransClasses
    BY DEF Ethertypes, Bytes, Types, L3Types, TransTypes, TransClasses, Tag
  <1>2. /\ new \in Pi /\ new.o_kind = g.o_kind /\ new.data = g.data
        /\ new.l2p = g.l2p /\ new.l3p = g.l3p /\ new.dp = g.dp
        /\ c \in TransClasses =>
             new.o_type = Tag[c] /\ new.ethertype = g.ethertype
        /\ c \notin TransClasses => new.o_type \in {"IP", "IP6"}
        /\ c \in TransClasses \ {"sctp"} => new.l3_rem = 0
    <2>1. CASE c = "ip"
      <3>1. new = [g EXCEPT !.ethertype = "ip4", !.o_type = "IP"]
        BY <2>1 DEF Construct
      <3> QED
        BY <1>1, <2>1, <3>1 DEF Pi
    <2>2. CASE c = "ip6"
      <3>1. new = [g EXCEPT !.ethertype = "ip6", !.o_type = "IP6"]
        BY <2>2 DEF Construct
      <3> QED
        BY <1>1, <2>2, <3>1 DEF Pi
    <2>3. CASE c = "sctp"
      <3>1. new = [g EXCEPT !.o_type = "SCTP"]
        BY <2>3 DEF Construct
      <3> QED
        BY <1>1, <2>3, <3>1 DEF Pi
    <2>4. CASE c \notin {"ip", "ip6", "sctp"}
      <3>1. new = [g EXCEPT !.l3_rem = 0, !.o_type = Tag[c]]
        BY <2>4 DEF Construct
      <3>2. c \in TransClasses
        BY <2>4 DEF NewClasses
      <3> QED
        BY <1>1, <3>1, <3>2 DEF Pi
    <2> QED
      BY <2>1, <2>2, <2>3, <2>4
  <1> HIDE DEF new
  <1>3. KindOK(new, epoch) /\ MemoryOK(new, {c})
    BY <1>2 DEF KindOK, MemoryOK
  <1>4. TagOK(new, {c})
    BY <1>2 DEF TagOK, NewClasses, TransClasses, TransTypes, Tag
  <1>5. ProtoOK(new, {c}, epoch, cur)
    BY <1>2 DEF ProtoOK, Fresh, Current, NewClasses, TransClasses, Tag
  <1> QED
    BY <1>2, <1>3, <1>4, <1>5, MakeKeeps
    DEF RecordOK, new, NewClasses, Classes

-----------------------------------------------------------------------------
(* Payloads *)

\* A payload record starts beyond a dp that is in its own packet.
LEMMA PayloadOK ==
    ASSUME IInv, NEW i \in PiIds, NEW p \in {"tcp", "udp"}, Holds({p}, i),
           heap[i].dp # Null
    PROVE  /\ PayloadPi(heap[i], p) \in Pi
           /\ RecordOK(PayloadPi(heap[i], p), {"l5"}, epoch, cur)
  <1> DEFINE pi == heap[i]
             new == PayloadPi(pi, p)
  <1>1. /\ pi \in Pi /\ KindOK(pi, epoch) /\ MemoryOK(pi, held[i])
        /\ TagOK(pi, held[i]) /\ ProtoOK(pi, held[i], epoch, cur)
    BY RecordFacts DEF RecordOK
  <1>2. p \in held[i] /\ p \in TransClasses \ {"sctp"}
    BY DEF Holds, TransClasses
  <1>3. pi.dp \in Ptr /\ Beyond(pi.dp) \in Ptr
    BY <1>1, PtrTypes DEF Pi
  <1>4. Beyond(pi.dp).mem = pi.dp.mem
    BY DEF Beyond
  <1>5. /\ new.o_type = "L5" /\ new.o_kind = "CPY" /\ new.data = pi.data
        /\ new.l2p = Null /\ new.ethertype = "unset" /\ new.l3p = pi.l3p
        /\ new.l3_rem = pi.l3_rem /\ new.proto = p
        /\ new.dp = Beyond(pi.dp) /\ new.rem = 2
    BY DEF PayloadPi, Zero
  <1>6. new \in Pi
    <2>1. "L5" \in Types /\ p \in Protos /\ 2 \in Bytes
      BY DEF Types, Protos, Bytes
    <2> QED
      BY <1>1, <1>3, <2>1, PtrTypes DEF PayloadPi, Pi
  <1>7. "transport" \notin held[i]
    BY <1>1, <1>2 DEF TagOK, ShareClasses, TransClasses
  <1>8. pi.dp.mem = pi.l3p.mem
    BY <1>1, <1>7 DEF MemoryOK
  <1> HIDE DEF new
  <1>9. KindOK(new, epoch) /\ MemoryOK(new, {"l5"})
    BY <1>1, <1>4, <1>5, <1>8 DEF KindOK, MemoryOK
  <1>10. TagOK(new, {"l5"})
    BY <1>5 DEF TagOK, TransClasses, TransTypes, Tag
  <1>11. ProtoOK(new, {"l5"}, epoch, cur)
    BY <1>5 DEF ProtoOK, TransClasses, Tag
  <1> QED
    BY <1>6, <1>9, <1>10, <1>11 DEF RecordOK, new

LEMMA TcpPayloadKeeps ==
    ASSUME IInv, NEW i \in PiIds, TcpPayload(i)
    PROVE  IInv'
  <1>1. CASE /\ \E r \in {"raised", "none", "crash"} : Return(r)
             /\ SamePacket /\ NoChecksum
    BY <1>1, ReturnKeeps, ReturnIsTyped DEF Return, Returns
  <1>2. CASE /\ IsTcp(heap[i]) /\ heap[i].dp # Null
             /\ Make("l5", PayloadPi(heap[i], "tcp"))
             /\ SamePacket /\ NoChecksum
    BY <1>2, PayloadOK, MakeKeeps DEF TcpPayload, Classes
  <1> QED
    BY <1>1, <1>2 DEF TcpPayload, Copied

LEMMA UdpPayloadKeeps ==
    ASSUME IInv, NEW i \in PiIds, UdpPayload(i)
    PROVE  IInv'
  <1>1. CASE /\ \E r \in {"none", "crash"} : Return(r)
             /\ SamePacket /\ NoChecksum
    BY <1>1, ReturnKeeps, ReturnIsTyped DEF Return, Returns
  <1>2. CASE /\ heap[i].dp # Null
             /\ Make("l5", PayloadPi(heap[i], "udp"))
             /\ SamePacket /\ NoChecksum
    BY <1>2, PayloadOK, MakeKeeps DEF UdpPayload, Classes
  <1> QED
    BY <1>1, <1>2 DEF UdpPayload, Copied

\* sub_trans_obj hands on the kind and the layer-3 pointer of the message it
\* was called on.
LEMMA IcmpPayloadKeeps ==
    ASSUME IInv, NEW i \in PiIds, IcmpPayload(i)
    PROVE  IInv'
  <1>1. CASE /\ \E r \in {"none", "ok", "crash"} : Return(r)
             /\ SamePacket /\ NoChecksum
    BY <1>1, ReturnKeeps, ReturnIsTyped DEF Return, Returns
  <1>2. CASE /\ heap[i].dp # Null /\ Make("ip", SubTrans(heap[i]))
             /\ SamePacket /\ NoChecksum
    <2> DEFINE pi == heap[i]
               new == SubTrans(pi)
    <2>1. /\ pi \in Pi /\ KindOK(pi, epoch) /\ MemoryOK(pi, held[i])
          /\ TagOK(pi, held[i])
      BY RecordFacts DEF RecordOK
    <2>2. /\ new.o_type = "IP" /\ new.o_kind = pi.o_kind
          /\ new.data = pi.data /\ new.l2p = Null /\ new.l3p = pi.l3p
          /\ new.ethertype = "unset" /\ new.dp = Beyond(pi.dp)
      BY DEF SubTrans, Zero
    <2>3. "IP" \in Types /\ "icmp" \in Protos /\ 2 \in Bytes
      BY DEF Types, L3Types, Protos, Bytes
    <2>4. Beyond(pi.dp) \in Ptr /\ Beyond(pi.dp).mem = pi.dp.mem
      BY <2>1, PtrTypes DEF Pi, Beyond
    <2>5. new \in Pi
      BY <2>1, <2>3, <2>4, PtrTypes DEF SubTrans, Pi
    <2>6. pi.dp.mem = pi.l3p.mem
      <3>1. "transport" \notin held[i]
        BY <2>1 DEF TagOK, IcmpPayload, Holds, ShareClasses
      <3> QED
        BY <1>2, <2>1, <3>1 DEF MemoryOK
    <2>7. KindOK(new, epoch) /\ MemoryOK(new, {"ip"})
      BY <2>1, <2>2, <2>4, <2>6 DEF KindOK, MemoryOK
    <2>8. TagOK(new, {"ip"}) /\ ProtoOK(new, {"ip"}, epoch, cur)
      BY <2>2 DEF TagOK, ProtoOK, TransClasses, TransTypes, Tag
    <2> HIDE DEF new
    <2> QED
      BY <1>2, <2>5, <2>7, <2>8, MakeKeeps DEF RecordOK, new, Classes
  <1> QED
    BY <1>1, <1>2 DEF IcmpPayload, Copied

-----------------------------------------------------------------------------
(* The calls that rewrite a record in place *)

\* Like UpdateKeeps, for a call that makes no object.
LEMMA RewriteKeeps ==
    ASSUME IInv, NEW i \in PiIds, NEW pi \in Pi,
           heap' = [heap EXCEPT ![i] = pi], UNCHANGED held,
           RecordOK(pi, held[i], epoch, cur),
           i = Pkt => RootOK(pi, held[i], epoch, cur),
           SamePacket, ret' \in Returns, summed' \in Ptr
    PROVE  IInv'
  <1>1. held' = [held EXCEPT ![i] = held[i]] /\ held[i] \in SUBSET Classes
    BY DEF IInv, TypeOK
  <1> QED
    BY <1>1, UpdateKeeps

\* On the Packet's own record, what is read at l3p is the current packet.
LEMMA RootDecoded ==
    ASSUME IInv, NEW s \in Decoded(heap[Pkt]), heap[Pkt].l3p # Null
    PROVE  s = cur
  BY DEF IInv, RootOK, Decoded, OnPacket, Zero

\* The Packet's own record keeps the ethertype of its packet.
LEMMA RootCurrent ==
    ASSUME IInv, heap[Pkt].l3p # Null
    PROVE  Current(heap[Pkt], epoch, cur)
  BY DEF IInv, RootOK, Current, Zero, At

LEMMA GetProtoKeeps ==
    ASSUME IInv, NEW i \in PiIds, GetProto(i)
    PROVE  IInv'
  <1>1. CASE /\ \E r \in {"raised", "none"} : Return(r)
             /\ SamePacket /\ NoChecksum
    BY <1>1, ReturnKeeps, ReturnIsTyped DEF Return, Returns
  <1>2. ASSUME heap[i].l3p # Null, NEW s \in Decoded(heap[i]),
               heap[i].l3_rem # 0,
               heap' = [heap EXCEPT ![i].proto = s.proto],
               ret' = "ok", UNCHANGED held, SamePacket, NoChecksum
        PROVE  IInv'
    <2> DEFINE pi == heap[i]
               new == [pi EXCEPT !.proto = s.proto]
    <2>1. /\ pi \in Pi /\ KindOK(pi, epoch) /\ MemoryOK(pi, held[i])
          /\ TagOK(pi, held[i]) /\ ProtoOK(pi, held[i], epoch, cur)
      BY RecordFacts DEF RecordOK
    <2>2. s.proto \in Protos /\ (Fresh(pi, epoch, cur) => s = cur)
      BY DecodedShape DEF Shape
    <2>3. /\ new \in Pi /\ new.o_type = pi.o_type /\ new.o_kind = pi.o_kind
          /\ new.data = pi.data /\ new.l2p = pi.l2p
          /\ new.ethertype = pi.ethertype /\ new.l3p = pi.l3p
          /\ new.l3_rem = pi.l3_rem /\ new.proto = s.proto /\ new.dp = pi.dp
      BY <2>1, <2>2 DEF Pi
    <2>4. heap' = [heap EXCEPT ![i] = new]
      BY <1>2
    <2> HIDE DEF new
    <2>5. KindOK(new, epoch) /\ MemoryOK(new, held[i]) /\ TagOK(new, held[i])
      BY <2>1, <2>3 DEF KindOK, MemoryOK, TagOK
    <2>6. ProtoOK(new, held[i], epoch, cur)
      <3>1. /\ Fresh(new, epoch, cur) => Fresh(pi, epoch, cur)
            /\ Current(new, epoch, cur) => Current(pi, epoch, cur)
        BY <2>3 DEF Fresh, Current
      <3>2. \A c \in TransClasses : pi.o_type = Tag[c] => c \in held[i]
        BY <2>1 DEF TagOK
      <3> QED
        BY <2>1, <2>2, <2>3, <3>1, <3>2 DEF ProtoOK
    <2>7. ASSUME i = Pkt PROVE RootOK(new, held[i], epoch, cur)
      <3>1. s = cur
        BY <1>2, <2>7, RootDecoded
      <3> QED
        BY <1>2, <2>3, <2>7, <3>1 DEF IInv, RootOK, Zero
    <2>8. ret' \in Returns /\ summed' \in Ptr
      BY <1>2, ReturnIsTyped DEF Returns
    <2> QED
      BY <1>2, <2>3, <2>4, <2>5, <2>6, <2>7, <2>8, RewriteKeeps DEF RecordOK
  <1> QED
    BY <1>1, <1>2 DEF GetProto

\* transport_checksum writes only into a record whose protocol is unknown, so
\* one that no transport class was made on.
LEMMA ForChecksumOK ==
    ASSUME IInv, NEW i \in PiIds, NEW h \in Headers(heap[i]),
           heap[i].l3p # Null, NEW d, d = ForChecksum(heap[i], h)
    PROVE  /\ d \in Pi
           /\ RecordOK(d, held[i], epoch, cur)
           /\ i = Pkt => RootOK(d, held[i], epoch, cur)
  <1> DEFINE pi == heap[i]
  <1>1. /\ pi \in Pi /\ KindOK(pi, epoch) /\ MemoryOK(pi, held[i])
        /\ TagOK(pi, held[i]) /\ ProtoOK(pi, held[i], epoch, cur)
    BY RecordFacts DEF RecordOK
  <1>2. /\ h.proto \in Protos /\ h.l4 \in Bytes
        /\ h.at \in {"L4", "inside"}
    BY HeadersShape DEF Header
  <1>3. CASE pi.proto # "none"
    <2>1. d = pi
      BY <1>3 DEF ForChecksum
    <2> QED
      BY <1>1, <2>1, RecordFacts DEF IInv
  <1>4. CASE pi.proto = "none" /\ HasPayload(h)
    <2>1. d = [pi EXCEPT !.proto = h.proto, !.dp = At(pi.l3p.mem, h.at),
                         !.rem = h.l4]
      BY <1>4 DEF ForChecksum
    <2>2. At(pi.l3p.mem, h.at) \in Ptr
      BY <1>1, <1>2, PtrTypes DEF Pi, Ptr
    <2>3. /\ d \in Pi /\ d.o_type = pi.o_type /\ d.o_kind = pi.o_kind
          /\ d.data = pi.data /\ d.l2p = pi.l2p
          /\ d.ethertype = pi.ethertype /\ d.l3p = pi.l3p
          /\ d.l3_rem = pi.l3_rem /\ d.proto = h.proto
          /\ d.dp = At(pi.l3p.mem, h.at)
      BY <1>1, <1>2, <2>1, <2>2 DEF Pi
    <2>4. d.dp.mem = d.l3p.mem
      BY <2>3 DEF At
    <2>5. Current(pi, epoch, cur) => d.proto = cur.proto /\ d.dp = At(epoch, "L4")
      BY <1>4, <2>3, HeadersShape DEF Current
    <2>6. KindOK(d, epoch) /\ MemoryOK(d, held[i]) /\ TagOK(d, held[i])
      BY <1>1, <2>3, <2>4 DEF KindOK, MemoryOK, TagOK
    <2>7. ProtoOK(d, held[i], epoch, cur)
      <3>1. /\ Fresh(d, epoch, cur) => Fresh(pi, epoch, cur)
            /\ Fresh(d, epoch, cur) => Current(pi, epoch, cur)
            /\ Current(d, epoch, cur) => Current(pi, epoch, cur)
        BY <2>3 DEF Fresh, Current
      <3>2. \A c \in TransClasses : pi.o_type = Tag[c] => c \in held[i]
        BY <1>1 DEF TagOK
      <3> QED
        BY <1>1, <2>3, <2>5, <3>1, <3>2 DEF ProtoOK
    <2>8. ASSUME i = Pkt PROVE RootOK(d, held[i], epoch, cur)
      <3>1. Current(pi, epoch, cur)
        BY <2>8, RootCurrent
      <3> QED
        BY <2>3, <2>4, <2>5, <2>8, <3>1 DEF IInv, RootOK, Zero, At
    <2> QED
      BY <2>3, <2>6, <2>7, <2>8 DEF RecordOK
  <1>5. CASE pi.proto = "none" /\ ~HasPayload(h)
    <2>1. d = [pi EXCEPT !.dp = Null, !.rem = pi.l3_rem]
      BY <1>5 DEF ForChecksum
    <2>2. /\ d \in Pi /\ d.o_type = pi.o_type /\ d.o_kind = pi.o_kind
          /\ d.data = pi.data /\ d.l2p = pi.l2p
          /\ d.ethertype = pi.ethertype /\ d.l3p = pi.l3p
          /\ d.l3_rem = pi.l3_rem /\ d.proto = "none" /\ d.dp = Null
      BY <1>1, <1>5, <2>1, PtrTypes DEF Pi
    <2>3. KindOK(d, epoch) /\ MemoryOK(d, held[i]) /\ TagOK(d, held[i])
      BY <1>1, <2>2 DEF KindOK, MemoryOK, TagOK
    <2>4. ProtoOK(d, held[i], epoch, cur)
      <3>1. Fresh(d, epoch, cur) => Fresh(pi, epoch, cur)
        BY <2>2 DEF Fresh, Current
      <3>2. \A c \in TransClasses : c # "none"
        BY DEF TransClasses
      <3> QED
        BY <1>1, <1>5, <2>2, <3>1, <3>2 DEF ProtoOK
    <2>5. ASSUME i = Pkt PROVE RootOK(d, held[i], epoch, cur)
      BY <2>2, <2>5 DEF IInv, RootOK, Zero
    <2> QED
      BY <2>2, <2>3, <2>4, <2>5 DEF RecordOK
  <1> QED
    BY <1>3, <1>4, <1>5

LEMMA TransportChecksumKeeps ==
    ASSUME IInv, NEW i \in PiIds, NEW failed \in {"none", "raised"},
           TransportChecksum(i, failed), SamePacket
    PROVE  IInv'
  <1>1. CASE /\ ret' = "crash" /\ UNCHANGED <<heap, held>> /\ NoChecksum
    BY <1>1, ReturnKeeps, ReturnIsTyped DEF Returns
  <1>2. ASSUME heap[i].l3p # Null, NEW h \in Headers(heap[i]), NEW d,
               d = ForChecksum(heap[i], h), heap' = [heap EXCEPT ![i] = d],
               UNCHANGED held,
               ret' \in {failed, "crash", "ok"}, summed' \in {Null, d.dp}
        PROVE  IInv'
    <2>1. /\ d \in Pi /\ RecordOK(d, held[i], epoch, cur)
          /\ i = Pkt => RootOK(d, held[i], epoch, cur)
      BY <1>2, ForChecksumOK
    <2>2. ret' \in Returns /\ summed' \in Ptr
      BY <1>2, <2>1, PtrTypes DEF Returns, Pi
    <2> QED
      BY <1>2, <2>1, <2>2, RewriteKeeps
  <1> QED
    BY <1>1, <1>2 DEF TransportChecksum, NoChecksum

LEMMA TransCksmKeeps ==
    ASSUME IInv, NEW i \in PiIds, TransCksm(i)
    PROVE  IInv'
  <1>1. CASE Return("raised") /\ NoChecksum /\ SamePacket
    BY <1>1, ReturnKeeps, ReturnIsTyped DEF Return, Returns
  <1> QED
    BY <1>1, TransportChecksumKeeps DEF TransCksm

LEMMA SetChecksumsKeeps ==
    ASSUME IInv, NEW i \in PiIds, SetChecksums(i)
    PROVE  IInv'
  <1>1. CASE /\ \E r \in {"raised", "none"} : Return(r)
             /\ NoChecksum /\ SamePacket
    BY <1>1, ReturnKeeps, ReturnIsTyped DEF Return, Returns
  <1> QED
    BY <1>1, TransportChecksumKeeps DEF SetChecksums

-----------------------------------------------------------------------------
(* Objects made by the program *)

LEMMA NewFromObjectKeeps ==
    ASSUME IInv, NEW i \in PiIds, NEW c \in NewClasses, NewFromObject(c, i)
    PROVE  IInv'
  <1>1. CASE Return("raised") /\ SamePacket /\ NoChecksum
    BY <1>1, ReturnKeeps, ReturnIsTyped DEF Return, Returns
  <1>2. ASSUME NEW h \in Headers(heap[i]), SamePacket, NoChecksum,
               Make(c, Construct(c, GetTransPayload(heap[i], h)))
        PROVE  IInv'
    <2> DEFINE g == GetTransPayload(heap[i], h)
    <2>1. /\ g \in Pi /\ KindOK(g, epoch)
          /\ g.l2p = Null \/ g.l2p.mem = g.l3p.mem
          /\ g.dp = Null \/ g.dp.mem = g.l3p.mem
          /\ Current(g, epoch, cur) => g.dp = At(epoch, "L4")
      BY TransPayloadFacts
    <2> HIDE DEF g
    <2> QED
      BY <1>2, <2>1, ConstructOK DEF g
  <1> QED
    BY <1>1, <1>2 DEF NewFromObject

\* An object made from bytes has both its pointers at its first header.
LEMMA BytesPiFacts ==
    ASSUME IInv, NEW c \in NewClasses, NEW e \in {0, epoch}, NEW p \in Protos,
           NEW g, g = BytesPi(c, e, p)
    PROVE  /\ g \in Pi /\ KindOK(g, epoch)
           /\ g.l2p = Null /\ g.dp = g.l3p
           /\ ~Current(g, epoch, cur)
  <1> DEFINE here == At(e, IF c \in {"ip", "ip6"} THEN "L3" ELSE "L4")
  <1>1. here \in Ptr
    BY PtrTypes DEF IInv, TypeOK
  <1>2. 2 \in Bytes
    BY DEF Bytes
  <1> HIDE DEF here
  <1>3. g = [Zero EXCEPT !.o_kind = "CPY", !.data = "bytes", !.l3p = here,
                         !.l3_rem = 2, !.proto = p, !.dp = here, !.rem = 2]
    BY DEF BytesPi, here
  <1>4. g \in Pi
    BY <1>1, <1>2, <1>3, PtrTypes DEF Pi
  <1>5. /\ g.o_kind = "CPY" /\ g.data = "bytes" /\ g.l2p = Null
        /\ g.l3p = here /\ g.dp = here
    BY <1>3 DEF Zero
  <1>6. KindOK(g, epoch)
    BY <1>5 DEF KindOK
  <1> QED
    BY <1>4, <1>5, <1>6 DEF Current

LEMMA NewFromBytesKeeps ==
    ASSUME IInv, NEW c \in NewClasses, NEW e \in {0, epoch}, NewFromBytes(c, e)
    PROVE  IInv'
  <1>1. CASE Return("raised") /\ SamePacket /\ NoChecksum
    BY <1>1, ReturnKeeps, ReturnIsTyped DEF Return, Returns
  <1>2. ASSUME NEW p \in Protos, SamePacket, NoChecksum,
               Make(c, Construct(c, BytesPi(c, e, p)))
        PROVE  IInv'
    <2> DEFINE g == BytesPi(c, e, p)
    <2>1. /\ g \in Pi /\ KindOK(g, epoch) /\ g.l2p = Null /\ g.dp = g.l3p
          /\ ~Current(g, epoch, cur)
      BY BytesPiFacts
    <2> HIDE DEF g
    <2> QED
      BY <1>2, <2>1, ConstructOK DEF g
  <1>3. \A s \in Shapes : s.proto \in Protos
    BY PacketViewsAssumption DEF Shape
  <1>4. "none" \in Protos
    BY DEF Protos
  <1> QED
    BY <1>1, <1>2, <1>3, <1>4 DEF NewFromBytes

LEMMA MakeFkeyKeeps ==
    ASSUME IInv, NEW i \in PiIds, MakeFkey(i)
    PROVE  IInv'
  BY ReturnKeeps, ReturnIsTyped DEF MakeFkey, Return, Returns

-----------------------------------------------------------------------------
(* Reading a packet *)

LEMMA ReadNothingKeeps ==
    ASSUME IInv, ReadNothing
    PROVE  IInv'
  BY ReturnKeeps, ReturnIsTyped DEF ReadNothing, Return, Returns

\* Every other record was filled by an earlier read, so none is fresh any
\* more, and the Packet's own record is filled anew or cleared.
LEMMA ReadPacketKeeps ==
    ASSUME IInv, NEW s \in Shapes, ReadPacket(s)
    PROVE  IInv'
  <1> DEFINE e == epoch + 1
             pi == GetPktInfo(heap[Pkt], s, e)
             new == IF s.info = "bad" THEN pi
                    ELSE [pi EXCEPT !.o_type = "PKT", !.o_kind = "PKT"]
  <1>1. s \in Shape /\ Pkt \in PiIds /\ epoch \in Nat /\ e \in Nat
    BY PacketViewsAssumption DEF IInv, TypeOK, PiIds, Pkt
  <1>2. /\ epoch' = e /\ cur' = s /\ held' = held
        /\ heap' = [heap EXCEPT ![Pkt] = new]
        /\ ret' \in Returns /\ summed' \in Ptr
    BY ReturnIsTyped DEF ReadPacket, Returns
  <1>3. /\ new \in Pi
        /\ RootOK(new, held[Pkt], e, s)
        /\ KindOK(new, e) /\ MemoryOK(new, held[Pkt])
        /\ new.o_type \in {"unset", "PKT"}
    <2>1. held[Pkt] \subseteq ShareClasses \cup {"pkt"}
      BY DEF IInv, RootOK
    <2>2. CASE s.info = "bad"
      <3>1. new = Zero
        BY <2>2 DEF GetPktInfo
      <3>2. /\ Zero.o_type = "unset" /\ Zero.o_kind = "unset"
            /\ Zero.data = "NULL" /\ Zero.l2p = Null /\ Zero.dp = Null
        BY DEF Zero
      <3> QED
        BY <2>1, <3>1, <3>2, PtrTypes DEF RootOK, KindOK, MemoryOK
    <2>3. CASE s.info # "bad"
      <3> DEFINE n == IF s.info = "ok" THEN 2 ELSE 0
      <3>1. n \in Bytes
        BY DEF Bytes
      <3> HIDE DEF n
      <3>2. pi = [Zero EXCEPT !.data = "packet", !.l2p = At(e, "L2"),
                              !.ethertype = s.eth, !.l3p = At(e, "L3"),
                              !.l3_rem = n, !.dp = At(e, "L3"), !.rem = n]
        BY <2>3 DEF GetPktInfo, n
      <3>3. /\ pi.data = "packet" /\ pi.l2p = At(e, "L2")
            /\ pi.l3p = At(e, "L3") /\ pi.dp = At(e, "L3")
            /\ pi.ethertype = s.eth /\ pi.proto = "none"
        BY <3>2 DEF Zero
      <3>4. s.eth \in Ethertypes
        BY <1>1 DEF Shape
      <3>5. pi \in Pi
        BY <1>1, <3>1, <3>2, <3>4, PtrTypes DEF Pi
      <3>6. new = [pi EXCEPT !.o_type = "PKT", !.o_kind = "PKT"]
        BY <2>3
      <3>7. "PKT" \in Types
        BY DEF Types, BelowL3
      <3> HIDE DEF pi, new
      <3>8. /\ new \in Pi /\ new.o_type = "PKT" /\ new.o_kind = "PKT"
            /\ new.data = "packet" /\ new.l2p = At(e, "L2")
            /\ new.l3p = At(e, "L3") /\ new.dp = At(e, "L3")
            /\ new.ethertype = s.eth /\ new.proto = "none"
        BY <3>3, <3>5, <3>6, <3>7 DEF Pi
      <3>9. KindOK(new, e) /\ MemoryOK(new, held[Pkt])
        BY <1>1, <3>8 DEF KindOK, MemoryOK, At
      <3> QED
        BY <2>1, <3>8, <3>9 DEF RootOK, At, TransTypes
    <2> QED
      BY <2>2, <2>3
  <1> HIDE DEF new, pi
  <1>4. RecordOK(new, held[Pkt], e, s)
    <2>1. held[Pkt] \subseteq ShareClasses \cup {"pkt"}
      BY <1>3 DEF RootOK
    <2>2. TagOK(new, held[Pkt])
      BY <1>3, <2>1 DEF TagOK, ShareClasses, TransTypes, TransClasses, Tag
    <2>3. ProtoOK(new, held[Pkt], e, s)
      BY <1>3, <2>1 DEF ProtoOK, ShareClasses, TransClasses, Tag
    <2> QED
      BY <1>3, <2>2, <2>3 DEF RecordOK
  <1>5. ASSUME NEW j \in PiIds, j # Pkt
        PROVE  RecordOK(heap[j], held[j], e, s)
    <2>1. /\ heap[j] \in Pi /\ KindOK(heap[j], epoch)
          /\ MemoryOK(heap[j], held[j]) /\ TagOK(heap[j], held[j])
      BY RecordFacts DEF RecordOK
    <2>2. heap[j].l3p.mem \in Nat
      BY <2>1 DEF Pi, Ptr
    <2>3. KindOK(heap[j], e)
      BY <1>1, <2>1, <2>2 DEF KindOK
    <2>4. heap[j].data = "packet" => heap[j].l3p.mem # e
      BY <1>1, <2>1, <2>2 DEF KindOK
    <2>5. ProtoOK(heap[j], held[j], e, s)
      BY <2>4 DEF ProtoOK, Fresh, Current
    <2> QED
      BY <2>1, <2>3, <2>5 DEF RecordOK
  <1>6. TypeOK'
    BY <1>1, <1>2, <1>3 DEF IInv, TypeOK
  <1>7. ASSUME NEW j \in PiIds
        PROVE  RecordOK(heap'[j], held'[j], epoch', cur')
    BY <1>2, <1>4, <1>5 DEF IInv, TypeOK
  <1>8. RootOK(heap'[Pkt], held'[Pkt], epoch', cur')
    BY <1>1, <1>2, <1>3 DEF IInv, TypeOK
  <1> QED
    BY <1>6, <1>7, <1>8 DEF IInv

-----------------------------------------------------------------------------
(* The invariant *)

LEMMA InitIInv == Init => IInv
  <1> SUFFICES ASSUME Init PROVE IInv
    OBVIOUS
  <1>1. TypeOK
    <2>1. cur \in Shape
      BY DEF Init, Shape, Ethertypes, Protos, Bytes
    <2>2. held \in [PiIds -> SUBSET Classes]
      BY DEF Init, Classes
    <2> QED
      BY <2>1, <2>2, PtrTypes DEF Init, TypeOK, Returns
  <1>2. ASSUME NEW i \in PiIds
        PROVE  RecordOK(heap[i], held[i], epoch, cur)
    <2>1. heap[i] = Zero /\ held[i] \subseteq {"pkt"}
      BY DEF Init
    <2>2. /\ Zero.o_type = "unset" /\ Zero.o_kind = "unset"
          /\ Zero.data = "NULL" /\ Zero.l2p = Null /\ Zero.dp = Null
      BY DEF Zero
    <2>3. KindOK(Zero, epoch) /\ MemoryOK(Zero, held[i])
      BY <2>2 DEF KindOK, MemoryOK
    <2>4. TagOK(Zero, held[i])
      BY <2>1, <2>2 DEF TagOK, TransTypes, TransClasses, Tag
    <2>5. ProtoOK(Zero, held[i], epoch, cur)
      BY <2>2 DEF ProtoOK, Fresh, Current
    <2> QED
      BY <2>1, <2>3, <2>4, <2>5 DEF RecordOK
  <1>3. RootOK(heap[Pkt], held[Pkt], epoch, cur)
    BY PacketViewsAssumption DEF Init, RootOK, PiIds, Pkt
  <1> QED
    BY <1>1, <1>2, <1>3 DEF IInv

LEMMA UseKeeps ==
    ASSUME IInv, NEW i \in PiIds, Use(i)
    PROVE  IInv'
  <1>1. CASE GetLayer2(i) \/ GetLayer3(i) \/ GetIp(i) \/ GetTransport(i)
    BY <1>1, Layer2Keeps, Layer3Keeps, IpKeeps, TransportKeeps
  <1>2. CASE \E c \in TransClasses : GetTrans(c, i)
    BY <1>2, TransKeeps
  <1>3. CASE TcpPayload(i) \/ UdpPayload(i) \/ IcmpPayload(i)
    BY <1>3, TcpPayloadKeeps, UdpPayloadKeeps, IcmpPayloadKeeps
  <1>4. CASE GetProto(i) \/ TransCksm(i) \/ SetChecksums(i)
    BY <1>4, GetProtoKeeps, TransCksmKeeps, SetChecksumsKeeps
  <1>5. CASE \E c \in NewClasses : NewFromObject(c, i)
    BY <1>5, NewFromObjectKeeps
  <1>6. CASE MakeFkey(i)
    BY <1>6, MakeFkeyKeeps
  <1> QED
    BY <1>1, <1>2, <1>3, <1>4, <1>5, <1>6 DEF Use

LEMMA NextKeeps == IInv /\ [Next]_vars => IInv'
  <1> SUFFICES ASSUME IInv, [Next]_vars PROVE IInv'
    OBVIOUS
  <1>1. CASE \E s \in Shapes : ReadPacket(s)
    BY <1>1, ReadPacketKeeps
  <1>2. CASE ReadNothing
    BY <1>2, ReadNothingKeeps
  <1>3. CASE \E i \in PiIds : Use(i)
    BY <1>3, UseKeeps
  <1>4. CASE \E c \in NewClasses, e \in {0, epoch} : NewFromBytes(c, e)
    BY <1>4, NewFromBytesKeeps
  <1>5. CASE UNCHANGED vars
    BY <1>5 DEF vars, IInv, TypeOK
  <1> QED
    BY <1>1, <1>2, <1>3, <1>4, <1>5 DEF Next

\* The inductive invariant holds in every reachable state.
THEOREM Invariance == Spec => []IInv
  BY InitIInv, NextKeeps, PTL DEF Spec

-----------------------------------------------------------------------------
(* The properties *)

\* Every record and every object is well formed (TypeOK) in every state.
THEOREM TypeCorrect == Spec => []TypeOK
  <1>1. IInv => TypeOK
    BY DEF IInv
  <1> QED
    BY <1>1, Invariance, PTL

\* check_pkt is a sufficient guard: whatever chain of getters, constructors
\* and payloads produced a record of kind PKT, it carries a packet handle.
THEOREM PktKindIsSound == Spec => []PktKindHasPacket
  <1>1. IInv => PktKindHasPacket
    BY RecordFacts DEF PktKindHasPacket, RecordOK, KindOK, Null, At
  <1> QED
    BY <1>1, Invariance, PTL

\* What the Packet object caches is always about the packet in the buffer.
THEOREM RootIsCurrent == Spec => []RootDescribesCurrent
  <1>1. IInv => RootDescribesCurrent
    BY DEF IInv, RootOK, RootDescribesCurrent, Zero, At
  <1> QED
    BY <1>1, Invariance, PTL

\* Only objects made by pkt.transport can mix two packets.
THEOREM NoMixing == Spec => []OnlyTransportMixesPackets
  <1>1. IInv => OnlyTransportMixesPackets
    BY RecordFacts DEF OnlyTransportMixesPackets, RecordOK, MemoryOK
  <1> QED
    BY <1>1, Invariance, PTL

\* A transport tag and the bytes under it agree while the packet is current and
\* the object has its version.
THEOREM TagsAreRight == Spec => []TagMatchesProtocol
  <1>1. IInv => TagMatchesProtocol
    BY RecordFacts DEF TagMatchesProtocol, OfCurrent, RecordOK, ProtoOK, Fresh, Current
  <1> QED
    BY <1>1, Invariance, PTL

\* tcp.payload of the current packet gives what follows its TCP header.
THEOREM TcpPayloadIsRight == Spec => TcpPayloadAfterHeader
  <1>1. IInv => TcpPayloadFollows
    <2> SUFFICES ASSUME IInv, NEW i \in PiIds, TcpPayload(i), ret' = "ok",
                        OfCurrent(i), NEW j \in PiIds, heap'[j] # heap[j]
                 PROVE  heap'[j].dp = At(epoch, "L5")
      BY DEF TcpPayloadFollows
    <2>1. /\ heap[i].o_type = "TCP" /\ heap[i].dp # Null
          /\ Make("l5", PayloadPi(heap[i], "tcp"))
      BY DEF TcpPayload, IsTcp, Copied, Return
    <2>2. heap[i].dp = At(epoch, "L4")
      BY <2>1, RecordFacts DEF RecordOK, ProtoOK, OfCurrent, Current
    <2>3. PayloadPi(heap[i], "tcp").dp = At(epoch, "L5")
      BY <2>2 DEF PayloadPi, Zero, Beyond, At
    <2>4. heap \in [PiIds -> Pi]
      BY DEF IInv, TypeOK
    <2>5. heap'[j] = PayloadPi(heap[i], "tcp")
      BY <2>1, <2>4 DEF Make
    <2> QED
      BY <2>3, <2>5
  <1> QED
    BY <1>1, Invariance, PTL DEF TcpPayloadAfterHeader

-----------------------------------------------------------------------------
(* A re-tagged record stays re-tagged *)

LEMMA RewriteRetags ==
    ASSUME IInv, NEW i \in PiIds, NEW pi, heap' = [heap EXCEPT ![i] = pi],
           pi.o_type \in TransTypes => heap[i].o_type \in TransTypes
    PROVE  StaysRetagged
  BY DEF IInv, TypeOK, StaysRetagged

\* Only a transport object may take the place of a transport object alone on
\* its record, and that one was still tagged.
LEMMA MakeRetags ==
    ASSUME IInv, NEW c \in Classes, NEW pi, Make(c, pi),
           c \in TransClasses \/ pi.o_type \notin TransTypes
    PROVE  StaysRetagged
  <1>1. PICK j \in PiIds : /\ heap' = [heap EXCEPT ![j] = pi]
                          /\ held' = [held EXCEPT ![j] = {c}]
    BY DEF Make
  <1>2. heap \in [PiIds -> Pi] /\ held \in [PiIds -> SUBSET Classes]
    BY DEF IInv, TypeOK
  <1>3. heap'[j] = pi /\ held'[j] = {c}
    BY <1>1, <1>2
  <1>4. ASSUME NEW i \in PiIds, i # j PROVE heap'[i] = heap[i]
    BY <1>1, <1>2, <1>4
  <1>5. ASSUME held[j] # {}, held[j] \subseteq held'[j],
               heap[j].o_type \notin TransTypes
        PROVE  pi.o_type \notin TransTypes
    <2>1. held[j] = {c}
      BY <1>3, <1>5
    <2>2. c \notin TransClasses
      BY <1>5, <2>1, RecordFacts
      DEF RecordOK, TagOK, TransClasses, TransTypes, Tag
    <2> QED
      BY <2>2
  <1> QED
    BY <1>3, <1>4, <1>5 DEF StaysRetagged

LEMMA ShareRetags ==
    ASSUME IInv, NEW i \in PiIds, NEW c, NEW pi, Share(c, i, pi),
           pi.o_type \notin TransTypes
    PROVE  StaysRetagged
  BY RewriteRetags DEF Share

LEMMA ReturnRetags ==
    ASSUME UNCHANGED heap PROVE StaysRetagged
  BY DEF StaysRetagged

LEMMA ConstructRetags ==
    ASSUME IInv, NEW c \in NewClasses, NEW g \in Pi, Make(c, Construct(c, g))
    PROVE  StaysRetagged
  <1>1. CASE c \in TransClasses
    BY <1>1, MakeRetags DEF NewClasses, Classes
  <1>2. CASE c = "ip"
    <2>1. Construct(c, g) = [g EXCEPT !.ethertype = "ip4", !.o_type = "IP"]
      BY <1>2 DEF Construct
    <2>2. Construct(c, g).o_type = "IP"
      BY <2>1 DEF Pi
    <2> QED
      BY <1>2, <2>2, MakeRetags DEF TransTypes, Classes
  <1>3. CASE c = "ip6"
    <2>1. Construct(c, g) = [g EXCEPT !.ethertype = "ip6", !.o_type = "IP6"]
      BY <1>3 DEF Construct
    <2>2. Construct(c, g).o_type = "IP6"
      BY <2>1 DEF Pi
    <2> QED
      BY <1>3, <2>2, MakeRetags DEF TransTypes, Classes
  <1> QED
    BY <1>1, <1>2, <1>3 DEF NewClasses

LEMMA ChecksumRetags ==
    ASSUME IInv, NEW i \in PiIds, NEW failed, TransportChecksum(i, failed)
    PROVE  StaysRetagged
  <1>1. CASE UNCHANGED heap
    BY <1>1, ReturnRetags
  <1>2. ASSUME NEW h \in Headers(heap[i]),
               heap' = [heap EXCEPT ![i] = ForChecksum(heap[i], h)]
        PROVE  StaysRetagged
    <2>1. ForChecksum(heap[i], h).o_type = heap[i].o_type
      BY RecordFacts DEF ForChecksum, Pi
    <2> QED
      BY <1>2, <2>1, RewriteRetags
  <1> QED
    BY <1>1, <1>2 DEF TransportChecksum

LEMMA UseRetags ==
    ASSUME IInv, NEW i \in PiIds, Use(i)
    PROVE  StaysRetagged
  <1> DEFINE pi == heap[i]
  <1>1. pi \in Pi
    BY RecordFacts
  <1>2. CASE UNCHANGED heap
    BY <1>2, ReturnRetags
  <1>3. CASE Share("layer2", i,
                   [pi EXCEPT !.o_type = "L2", !.dp = pi.l2p,
                              !.rem = IF pi.l2p = Null THEN 0 ELSE 2])
    <2> DEFINE new == [pi EXCEPT !.o_type = "L2", !.dp = pi.l2p,
                              !.rem = IF pi.l2p = Null THEN 0 ELSE 2]
    <2>1. new.o_type = "L2"
      BY <1>1 DEF Pi
    <2> QED
      BY <1>3, <2>1, ShareRetags DEF TransTypes
  <1>4. CASE Share("layer3", i, [pi EXCEPT !.o_type = "L3", !.dp = pi.l3p,
                                           !.rem = pi.l3_rem])
    <2>1. [pi EXCEPT !.o_type = "L3", !.dp = pi.l3p,
                     !.rem = pi.l3_rem].o_type = "L3"
      BY <1>1 DEF Pi
    <2> QED
      BY <1>4, <2>1, ShareRetags DEF TransTypes
  <1>5. ASSUME NEW c, NEW t \in {"IP", "IP6"},
               Share(c, i, [pi EXCEPT !.o_type = t])
        PROVE  StaysRetagged
    <2>1. [pi EXCEPT !.o_type = t].o_type = t
      BY <1>1 DEF Pi
    <2> QED
      BY <1>5, <2>1, ShareRetags DEF TransTypes
  <1>6. CASE GetTransport(i)
    <2>1. [GetTransportInfo(pi) EXCEPT !.o_type = "L4",
                                       !.o_kind = "PKT"].o_type = "L4"
      BY <1>1 DEF GetTransportInfo, Pi
    <2> QED
      BY <1>2, <1>6, <2>1, MakeRetags
      DEF GetTransport, Return, TransTypes, Classes
  <1>7. CASE \E c \in TransClasses : GetTrans(c, i)
    BY <1>2, <1>7, MakeRetags DEF GetTrans, Return, Classes
  <1>8. CASE TcpPayload(i) \/ UdpPayload(i)
    <2>1. \A p : PayloadPi(pi, p).o_type = "L5"
      BY DEF PayloadPi, Zero
    <2> QED
      BY <1>2, <1>8, <2>1, MakeRetags
      DEF TcpPayload, UdpPayload, Copied, Return, TransTypes, Classes
  <1>9. CASE IcmpPayload(i)
    <2>1. SubTrans(pi).o_type = "IP"
      BY DEF SubTrans, Zero
    <2> QED
      BY <1>2, <1>9, <2>1, MakeRetags
      DEF IcmpPayload, Copied, Return, TransTypes, Classes
  <1>10. ASSUME NEW p, heap' = [heap EXCEPT ![i].proto = p]
         PROVE  StaysRetagged
    <2>1. heap' = [heap EXCEPT ![i] = [pi EXCEPT !.proto = p]]
      BY <1>10
    <2>2. [pi EXCEPT !.proto = p].o_type = pi.o_type
      BY <1>1 DEF Pi
    <2> QED
      BY <2>1, <2>2, RewriteRetags
  <1>11. CASE \E failed : TransportChecksum(i, failed)
    BY <1>11, ChecksumRetags
  <1>12. CASE \E c \in NewClasses : NewFromObject(c, i)
    <2>1. \A h \in Headers(pi) : GetTransPayload(pi, h) \in Pi
      BY TransPayloadFacts
    <2> QED
      BY <1>2, <1>12, <2>1, ConstructRetags DEF NewFromObject, Return
  <1>13. CASE GetLayer2(i) \/ GetLayer3(i)
    BY <1>2, <1>3, <1>4, <1>13 DEF GetLayer2, GetLayer3, Return
  <1>14. CASE GetIp(i)
    BY <1>2, <1>5, <1>14 DEF GetIp, Return
  <1>15. CASE GetProto(i)
    BY <1>2, <1>10, <1>15 DEF GetProto, Return
  <1>16. CASE TransCksm(i) \/ SetChecksums(i)
    BY <1>2, <1>11, <1>16 DEF TransCksm, SetChecksums, Return
  <1>17. CASE MakeFkey(i)
    BY <1>2, <1>17 DEF MakeFkey, Return
  <1> QED
    BY <1>6, <1>7, <1>8, <1>9, <1>12, <1>13, <1>14, <1>15, <1>16, <1>17
    DEF Use

\* An object whose record was re-tagged by another view never gets its type
\* back, whatever is called on any object afterwards.
THEOREM RetagIsFinal == Spec => RetagIsForGood
  <1>1. IInv /\ [Next]_vars => [StaysRetagged]_vars
    <2> SUFFICES ASSUME IInv, Next PROVE StaysRetagged
      OBVIOUS
    <2>1. CASE \E s \in Shapes : ReadPacket(s)
      <3>1. IInv'
        BY <2>1, ReadPacketKeeps
      <3>2. heap'[Pkt].o_type \notin TransTypes
        BY <3>1 DEF IInv, RootOK, Zero, TransTypes
      <3>3. \A i \in PiIds \ {Pkt} : heap'[i] = heap[i]
        BY <2>1 DEF ReadPacket, IInv, TypeOK
      <3> QED
        BY <3>2, <3>3 DEF StaysRetagged
    <2>2. CASE ReadNothing
      BY <2>2, ReturnRetags DEF ReadNothing, Return
    <2>3. CASE \E i \in PiIds : Use(i)
      BY <2>3, UseRetags
    <2>4. CASE \E c \in NewClasses, e \in {0, epoch} : NewFromBytes(c, e)
      <3>1. PICK c \in NewClasses, e \in {0, epoch} : NewFromBytes(c, e)
        BY <2>4
      <3>2. CASE UNCHANGED heap
        BY <3>2, ReturnRetags
      <3>3. ASSUME NEW p \in Protos,
                   Make(c, Construct(c, BytesPi(c, e, p)))
            PROVE  StaysRetagged
        <4>1. BytesPi(c, e, p) \in Pi
          BY BytesPiFacts
        <4> QED
          BY <3>3, <4>1, ConstructRetags
      <3>4. "none" \in Protos /\ \A s \in Shapes : s.proto \in Protos
        BY PacketViewsAssumption DEF Protos, Shape
      <3> QED
        BY <3>1, <3>2, <3>3, <3>4 DEF NewFromBytes, Return
    <2> QED
      BY <2>1, <2>2, <2>3, <2>4 DEF Next
  <1> QED
    BY <1>1, Invariance, PTL DEF Spec, RetagIsForGood

=============================================================================
