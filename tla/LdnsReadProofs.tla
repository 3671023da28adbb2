---------------------------- MODULE LdnsReadProofs ----------------------------
(***************************************************************************)
(* Proofs about LdnsRead, for traces of any length with any packets cut     *)
(* anywhere, and any number of payload objects and calls of ldns().         *)
(***************************************************************************)
EXTENDS LdnsRead, TLAPS

Rec == [at : Nat, rem : Int, reads : Nat]
Obj(t) == [packet : DOMAIN t, at : Nat, size : Int, reads : Nat \ {0},
           message : Messages]
Shown(t) == [packet : DOMAIN t, lists : BOOLEAN]

\* The test programs keep to their own places, and so does any other program.
TestPlaces == {"payload", "ldns", "check", "show"}

\* The program is at a packet of the trace, and what it holds has its form.
Typed ==
    /\ program \in Programs
    /\ trace \in Traces
    /\ pc \in TestPlaces \cup {"loop", "calls", "end"}
    /\ n \in 0 .. Len(trace)
    /\ recs \in Seq(Rec)
    /\ objs \in Seq(Obj(trace))
    /\ asked \subseteq DOMAIN objs
    /\ shown \in Seq(Shown(trace))
    /\ died \in {"no", "AttributeError", "PltError", "strayed", "NULL"}

Placed ==
    /\ pc \in TestPlaces => Test
    /\ pc = "calls" => ~Test
    /\ (pc \in TestPlaces \cup {"calls"} \/ died # "no" \/ recs # <<>>) => n > 0
    /\ died # "no" => pc = "end"

\* A payload object stands behind the lengths that its calls skipped, and what
\* is left is the rest of what was captured.
RecsOK ==
    \A r \in DOMAIN recs :
        /\ recs[r].at = recs[r].reads * Prefix(Pkt)
        /\ recs[r].at + recs[r].rem = Pkt.cap

\* An object tells where its reading started and the length that was left; the
\* first reading of a payload found the message.
ObjsOK ==
    \A o \in DOMAIN objs :
        LET p == trace[objs[o].packet]
        IN /\ objs[o].at = objs[o].reads * Prefix(p)
           /\ objs[o].at + objs[o].size = p.cap
           /\ objs[o].reads = 1 /\ objs[o].size >= 0
                => objs[o].message = p.message

\* The answers of is_ok() that are remembered are those of whole messages.
AskedOK == \A o \in asked : HasMessage(o)

\* What a test program has in hand at each place: the payload it has not read,
\* the object it has just made, its message.
InHand ==
    /\ pc = "payload" => recs = <<>>
    /\ pc \in {"ldns", "check", "show"} =>
         Suits(Pkt) /\ ~NoPayload(Pkt) /\ Len(recs) = 1
    /\ pc = "ldns" => recs[1].reads = 0
    /\ pc \in {"check", "show"} =>
         /\ Len(objs) > 0
         /\ objs[Len(objs)].packet = n /\ objs[Len(objs)].reads = 1
    /\ pc = "show" => HasMessage(Len(objs))

\* How a test program can have died.
DiedOK ==
    /\ died = "strayed" => OneOctet(Pkt)
    /\ died = "AttributeError" => Pkt.ip6 \/ Pkt.message = "none"
    /\ died # "NULL"

\* The packets a test program is done with.
Passed == IF pc = "loop" \/ (pc = "end" /\ died = "no") THEN n ELSE n - 1

\* A test program showed those of them that it is after, in order, and none of
\* them is of IPv6.
ShownOK ==
    /\ \A i \in 1 .. Passed : ~trace[i].ip6
    /\ \A i, j \in DOMAIN shown : i < j => shown[i].packet < shown[j].packet
    /\ ShownPackets = {i \in Wanted : i <= Passed}
    /\ \A i \in DOMAIN shown :
         LET p == trace[shown[i].packet]
         IN p.message = (IF shown[i].lists THEN "question" ELSE "bare")
              \/ OneOctet(p)
    /\ pc = "end" /\ died = "no" => n = Len(trace)

Core ==
    /\ Typed /\ Placed /\ RecsOK /\ ObjsOK /\ AskedOK
    /\ NullUnasked /\ StraysAtLength

LInv == Core /\ (Test => InHand /\ DiedOK /\ ShownOK)

-----------------------------------------------------------------------------
(* Packets and payloads *)

\* A prefix is two octets or none; the multiples of it go up by it.
LEMMA PrefixTimes ==
    ASSUME NEW p, NEW k \in Nat
    PROVE  /\ Prefix(p) \in {0, 2}
           /\ k * Prefix(p) \in Nat
           /\ (k + 1) * Prefix(p) = k * Prefix(p) + Prefix(p)
           /\ 0 * Prefix(p) = 0 /\ 1 * Prefix(p) = Prefix(p)
<1>1. CASE p.proto = "tcp"
  <2>1. Prefix(p) = 2
    BY <1>1 DEF Prefix
  <2> QED BY <2>1
<1>2. CASE p.proto # "tcp"
  <2>1. Prefix(p) = 0
    BY <1>2 DEF Prefix
  <2> QED BY <2>1
<1> QED BY <1>1, <1>2

\* Packets of the trace are packets.
LEMMA PacketTypes ==
    ASSUME Typed, NEW i \in DOMAIN trace
    PROVE  /\ trace[i] \in Packet
           /\ trace[i].cap \in Int
           /\ trace[i].message \in Messages
           /\ trace[i].message # "none" => trace[i].cap > Prefix(trace[i])
<1>1. trace \in Seq(Packet) /\ trace \in Traces
  BY LdnsReadAssumption DEF Typed
<1>2. trace[i] \in Packet
  BY <1>1
<1>3. trace[i].cap \in Int /\ trace[i].message \in Messages
  BY <1>2 DEF Packet
<1>4. trace[i].message # "none"
        => trace[i].cap > IF trace[i].proto = "tcp" THEN 2 ELSE 0
  BY <1>1, LdnsReadAssumption
<1> QED BY <1>2, <1>3, <1>4 DEF Prefix

\* The packet in hand is one of the trace.
LEMMA Here ==
    ASSUME Typed, n > 0
    PROVE  /\ n \in DOMAIN trace /\ n \in Nat /\ Len(trace) \in Nat
           /\ Pkt = trace[n] /\ Pkt.cap \in Int
<1>1. trace \in Seq(Packet)
  BY LdnsReadAssumption DEF Typed
<1>2. n \in DOMAIN trace /\ n \in Nat /\ Len(trace) \in Nat
  BY <1>1 DEF Typed
<1> QED BY <1>2, PacketTypes DEF Pkt

\* A payload that a test program gets and that is shorter than a length is one
\* octet of TCP.
LEMMA ShortIsOneOctet ==
    ASSUME NEW p, p.cap \in Int, ~NoPayload(p), p.cap < Prefix(p)
    PROVE  OneOctet(p)
  BY DEF NoPayload, Prefix, OneOctet

-----------------------------------------------------------------------------
(* What the calls do *)

\* A payload getter adds an object at the first octet behind the header.
LEMMA PayloadMakes ==
    ASSUME Typed, RecsOK, n > 0, Payload, UNCHANGED <<trace, n>>
    PROVE  /\ recs' \in Seq(Rec) /\ recs' # <<>> /\ RecsOK'
           /\ Len(recs') = Len(recs) + 1 /\ recs'[Len(recs) + 1].reads = 0
<1> DEFINE new == [at |-> 0, rem |-> Pkt.cap, reads |-> 0]
<1>1. new \in Rec /\ Pkt' = Pkt
  BY Here DEF Rec, Pkt
<1>2. recs' = Append(recs, new) /\ recs \in Seq(Rec)
  BY DEF Payload, Typed
<1>3. /\ recs' \in Seq(Rec) /\ Len(recs') = Len(recs) + 1
      /\ recs'[Len(recs) + 1] = new
      /\ \A r \in DOMAIN recs : recs'[r] = recs[r]
      /\ DOMAIN recs' = DOMAIN recs \cup {Len(recs) + 1}
  BY <1>1, <1>2
<1>4. 0 * Prefix(Pkt) = 0 /\ Prefix(Pkt)' = Prefix(Pkt)
  BY <1>1, PrefixTimes DEF Prefix
<1>5. ASSUME NEW r \in DOMAIN recs'
      PROVE  /\ recs'[r].at = recs'[r].reads * Prefix(Pkt)
             /\ recs'[r].at + recs'[r].rem = Pkt.cap
  <2>1. CASE r \in DOMAIN recs
    BY <1>3, <2>1 DEF RecsOK
  <2>2. CASE r = Len(recs) + 1
    <3>1. new.at + new.rem = Pkt.cap
      BY Here
    <3> QED BY <1>3, <1>4, <2>2, <3>1
  <2> QED BY <1>3, <1>5, <2>1, <2>2
<1>6. RecsOK'
  BY <1>1, <1>4, <1>5 DEF RecsOK
<1>7. recs' # <<>> /\ new.reads = 0
  BY <1>2, <1>3
<1> QED BY <1>3, <1>6, <1>7

\* ldns() skips the length in front of a TCP message and makes an object, which
\* is that of the message if the payload was not read before.
LEMMA LdnsMakes ==
    ASSUME Typed, RecsOK, ObjsOK, n > 0, NEW r \in DOMAIN recs, Ldns(r),
           UNCHANGED <<trace, n>>
    PROVE  /\ recs' \in Seq(Rec) /\ Len(recs') = Len(recs) /\ RecsOK'
           /\ objs' \in Seq(Obj(trace)) /\ Len(objs') = Len(objs) + 1
           /\ \A o \in DOMAIN objs : objs'[o] = objs[o]
           /\ objs'[Len(objs) + 1].packet = n
           /\ objs'[Len(objs) + 1].reads = recs[r].reads + 1
           /\ ObjsOK'
<1> DEFINE P == Prefix(Pkt)
           new == [at |-> recs[r].at + P, rem |-> recs[r].rem - P,
                   reads |-> recs[r].reads + 1]
<1>1. /\ recs \in Seq(Rec) /\ recs[r] \in Rec /\ P \in {0, 2}
      /\ n \in DOMAIN trace /\ Pkt.cap \in Int /\ Pkt = trace[n]
      /\ Pkt.message \in Messages
  <2>1. recs \in Seq(Rec) /\ recs[r] \in Rec
    BY DEF Typed
  <2>2. P \in {0, 2}
    BY DEF Prefix
  <2>3. n \in DOMAIN trace /\ Pkt.cap \in Int /\ Pkt = trace[n]
    BY Here
  <2> QED BY <2>1, <2>2, <2>3, PacketTypes
<1>2. /\ recs[r].at \in Nat /\ recs[r].rem \in Int /\ recs[r].reads \in Nat
      /\ new \in Rec
  BY <1>1 DEF Rec
<1>3. Pkt' = Pkt /\ P' = P
  BY DEF Pkt, Prefix
<1>4. recs' = [recs EXCEPT ![r] = new]
  BY DEF Ldns
<1>5. /\ recs' \in Seq(Rec) /\ Len(recs') = Len(recs)
      /\ DOMAIN recs' = DOMAIN recs /\ recs'[r] = new
      /\ \A q \in DOMAIN recs : q # r => recs'[q] = recs[q]
  BY <1>1, <1>2, <1>4
<1>6. new.at = new.reads * P /\ new.at + new.rem = Pkt.cap
  <2>1. recs[r].at = recs[r].reads * P /\ recs[r].at + recs[r].rem = Pkt.cap
    BY DEF RecsOK
  <2>2. (recs[r].reads + 1) * P = recs[r].reads * P + P
    BY <1>2, PrefixTimes
  <2> QED BY <1>1, <1>2, <2>1, <2>2
<1>7. RecsOK'
  BY <1>3, <1>5, <1>6 DEF RecsOK
<1>8. PICK m \in Parses(new.at, new.rem) :
        objs' = Append(objs, [packet |-> n, at |-> new.at, size |-> new.rem,
                              reads |-> new.reads, message |-> m])
  BY <1>5 DEF Ldns
<1> DEFINE obj == [packet |-> n, at |-> new.at, size |-> new.rem,
                   reads |-> new.reads, message |-> m]
<1>9. m \in Messages
  BY <1>1, <1>8 DEF Parses
<1>10. obj \in Obj(trace)
  BY <1>1, <1>2, <1>9 DEF Obj, Rec
<1>11. /\ objs' \in Seq(Obj(trace)) /\ Len(objs') = Len(objs) + 1
       /\ \A o \in DOMAIN objs : objs'[o] = objs[o]
       /\ objs'[Len(objs) + 1] = obj
       /\ DOMAIN objs' = DOMAIN objs \cup {Len(objs) + 1}
  <2>1. objs \in Seq(Obj(trace)) /\ objs' = Append(objs, obj)
    BY <1>8 DEF Typed
  <2> HIDE DEF obj
  <2> QED BY <1>10, <2>1
<1>12. obj.reads = 1 /\ obj.size >= 0 => obj.message = Pkt.message
  <2> SUFFICES ASSUME new.reads = 1, new.rem >= 0 PROVE m = Pkt.message
    OBVIOUS
  <2>1. new.at = P
    BY <1>6, PrefixTimes
  <2> HIDE DEF new
  <2> QED BY <1>8, <2>1 DEF Parses
<1>13. ObjsOK'
  <2>1. ASSUME NEW o \in DOMAIN objs'
        PROVE  LET p == trace[objs'[o].packet]
               IN /\ objs'[o].at = objs'[o].reads * Prefix(p)
                  /\ objs'[o].at + objs'[o].size = p.cap
                  /\ objs'[o].reads = 1 /\ objs'[o].size >= 0
                       => objs'[o].message = p.message
    <3>1. CASE o \in DOMAIN objs
      BY <1>11, <3>1 DEF ObjsOK
    <3>2. CASE o = Len(objs) + 1
      <4>1. objs'[o] = obj /\ trace[obj.packet] = Pkt
        BY <1>1, <1>11, <3>2
      <4>2. obj.at = obj.reads * P /\ obj.at + obj.size = Pkt.cap
        BY <1>6
      <4> HIDE DEF obj
      <4> QED BY <4>1, <4>2, <1>12
    <3> QED BY <1>11, <2>1, <3>1, <3>2
  <2> QED BY <2>1 DEF ObjsOK, Prefix
<1>14. obj.packet = n /\ obj.reads = recs[r].reads + 1
  OBVIOUS
<1> HIDE DEF obj, new
<1> QED BY <1>5, <1>7, <1>11, <1>13, <1>14

-----------------------------------------------------------------------------
(* Any program *)

\* Initially no packet was read and nothing was made.
LEMMA InitCore == Init => Core
<1> SUFFICES ASSUME Init PROVE Core
  OBVIOUS
<1>1. trace \in Seq(Packet)
  BY LdnsReadAssumption DEF Init
<1>2. 0 \in 0 .. Len(trace)
  BY <1>1
<1>3. Typed
  BY <1>2 DEF Init, Typed
<1>4. DOMAIN recs = {} /\ DOMAIN objs = {} /\ asked = {}
  BY DEF Init
<1>5. Placed
  BY DEF Init, Placed, TestPlaces
<1>6. RecsOK /\ ObjsOK /\ AskedOK
  BY <1>4 DEF RecsOK, ObjsOK, AskedOK
<1>7. NullUnasked /\ StraysAtLength
  BY DEF Init, NullUnasked, StraysAtLength
<1> QED BY <1>3, <1>5, <1>6, <1>7 DEF Core

\* The payload objects of the packet in hand are what they were.
LEMMA RecsKept ==
    ASSUME Core, UNCHANGED <<trace, n, recs>>
    PROVE  recs' \in Seq(Rec) /\ RecsOK'
  BY DEF Core, Typed, RecsOK, Pkt, Prefix

\* The objects made so far, and those that were asked.
LEMMA ObjsKept ==
    ASSUME Core, UNCHANGED <<trace, objs>>
    PROVE  objs' \in Seq(Obj(trace)) /\ ObjsOK' /\ asked \subseteq DOMAIN objs'
  BY DEF Core, Typed, ObjsOK, Prefix

\* The objects that answered True.
LEMMA AskedKept ==
    ASSUME Core, UNCHANGED <<objs, asked>>
    PROVE  asked' \subseteq DOMAIN objs' /\ AskedOK'
  BY DEF Core, Typed, AskedOK, HasMessage

\* A new object does not disturb those that were asked.
LEMMA AskedKeptByNew ==
    ASSUME Core, UNCHANGED asked, objs' \in Seq(Obj(trace)),
           Len(objs') = Len(objs) + 1,
           \A o \in DOMAIN objs : objs'[o] = objs[o]
    PROVE  asked' \subseteq DOMAIN objs' /\ AskedOK'
<1>1. DOMAIN objs \subseteq DOMAIN objs'
  BY DEF Core, Typed
<1> QED BY <1>1 DEF Core, Typed, AskedOK, HasMessage

\* A program that goes on, with what it has made being in order.
LEMMA GoesKeeps ==
    ASSUME Core, died = "no", n > 0,
           NEW to \in TestPlaces \cup {"loop", "calls"}, Goes(to),
           to \in TestPlaces => Test, to = "calls" => ~Test,
           recs' \in Seq(Rec), RecsOK', objs' \in Seq(Obj(trace)), ObjsOK',
           asked' \subseteq DOMAIN objs', AskedOK',
           shown' \in Seq(Shown(trace))
    PROVE  Core'
<1>1. UNCHANGED <<program, trace, n, died>> /\ pc' = to
  BY DEF Goes
<1>2. Typed'
  BY <1>1 DEF Core, Typed
<1>3. Placed'
  BY <1>1 DEF Core, Placed, Test
<1>4. NullUnasked' /\ StraysAtLength'
  BY <1>1 DEF NullUnasked, StraysAtLength
<1> QED BY <1>2, <1>3, <1>4 DEF Core

\* A program that dies keeps what it has.
LEMMA DiesKeeps ==
    ASSUME Core, n > 0,
           NEW why \in {"AttributeError", "PltError", "strayed", "NULL"},
           Dies(why), UNCHANGED <<recs, objs>>,
           why = "NULL" => ~Test /\ DOMAIN objs \ asked # {},
           why = "strayed" =>
             \E r \in DOMAIN recs :
               recs[r].rem < Prefix(Pkt)
                 /\ Pkt.cap < (recs[r].reads + 1) * Prefix(Pkt)
    PROVE  Core'
<1>1. /\ UNCHANGED <<program, trace, n, asked, shown, recs, objs>>
      /\ pc' = "end" /\ died' = why
  BY DEF Dies
<1>2. Typed'
  BY <1>1 DEF Core, Typed
<1>3. Placed'
  BY <1>1 DEF Core, Placed, Test, TestPlaces
<1>4. RecsOK' /\ ObjsOK' /\ AskedOK'
  BY <1>1, RecsKept, ObjsKept, AskedKept
<1>5. NullUnasked'
  BY <1>1 DEF NullUnasked, Test
<1>6. StraysAtLength'
  BY <1>1 DEF StraysAtLength, Prefix, Pkt
<1> QED BY <1>2, <1>3, <1>4, <1>5, <1>6 DEF Core

\* A payload with less left than a length, read or not.
LEMMA StraysShort ==
    ASSUME Core, n > 0, NEW r \in DOMAIN recs, Strays(r)
    PROVE  /\ recs[r].rem < Prefix(Pkt)
           /\ Pkt.cap < (recs[r].reads + 1) * Prefix(Pkt)
<1>1. recs[r] \in Rec /\ Pkt.cap \in Int
  BY Here DEF Core, Typed
<1>2. /\ recs[r].at \in Nat /\ recs[r].rem \in Int /\ recs[r].reads \in Nat
  BY <1>1 DEF Rec
<1>3. recs[r].at = recs[r].reads * Prefix(Pkt) /\ recs[r].at + recs[r].rem = Pkt.cap
  BY DEF Core, RecsOK
<1>4. (recs[r].reads + 1) * Prefix(Pkt) = recs[r].reads * Prefix(Pkt) + Prefix(Pkt)
  BY <1>2, PrefixTimes
<1>5. Prefix(Pkt) \in {0, 2} /\ recs[r].rem < Prefix(Pkt)
  BY DEF Strays, Prefix
<1> QED BY <1>1, <1>2, <1>3, <1>4, <1>5

\* Taking out the records of an object's message.
LEMMA ShowTypes ==
    ASSUME Core, NEW o \in DOMAIN objs, Show(o)
    PROVE  shown' \in Seq(Shown(trace))
<1>1. objs[o] \in Obj(trace) /\ shown \in Seq(Shown(trace))
  BY DEF Core, Typed
<1>2. [packet |-> objs[o].packet, lists |-> objs[o].message = "question"]
        \in Shown(trace)
  BY <1>1 DEF Obj, Shown
<1> QED BY <1>1, <1>2 DEF Show

\* Going on to a packet, or to the end of the trace.
LEMMA NextPacketCore ==
    ASSUME Core, NextPacket
    PROVE  Core'
<1>1. /\ UNCHANGED <<program, trace, objs, asked, shown, died>>
      /\ pc = "loop" /\ died = "no"
  BY DEF NextPacket, Core, Placed
<1>2. ObjsOK' /\ objs' \in Seq(Obj(trace)) /\ asked' \subseteq DOMAIN objs' /\ AskedOK'
  BY <1>1, ObjsKept, AskedKept
<1>3. NullUnasked' /\ StraysAtLength'
  BY <1>1 DEF NullUnasked, StraysAtLength
<1>4. trace \in Seq(Packet) /\ n \in 0 .. Len(trace)
  BY LdnsReadAssumption DEF Core, Typed
<1>5. CASE n = Len(trace)
  <2>1. pc' = "end" /\ UNCHANGED <<n, recs>>
    BY <1>5 DEF NextPacket
  <2>2. RecsOK' /\ recs' \in Seq(Rec)
    BY <1>1, <2>1, RecsKept
  <2>3. Typed'
    BY <1>1, <2>1 DEF Core, Typed
  <2>4. Placed'
    BY <1>1, <2>1 DEF Core, Placed, TestPlaces
  <2> QED BY <1>2, <1>3, <2>2, <2>3, <2>4 DEF Core
<1>6. CASE n # Len(trace)
  <2>1. /\ n' = n + 1 /\ recs' = <<>>
        /\ pc' = IF Test THEN "payload" ELSE "calls"
    BY <1>6 DEF NextPacket
  <2>2. n' \in 0 .. Len(trace') /\ n' > 0
    BY <1>1, <1>4, <1>6, <2>1
  <2>3. RecsOK' /\ recs' \in Seq(Rec)
    BY <2>1 DEF RecsOK
  <2>4. Typed'
    BY <1>1, <2>1, <2>2, <2>3 DEF Core, Typed, TestPlaces
  <2>5. Placed'
    BY <1>1, <2>1, <2>2 DEF Core, Placed, TestPlaces, Test
  <2> QED BY <1>2, <1>3, <2>3, <2>4, <2>5 DEF Core
<1> QED BY <1>5, <1>6

\* A place in the middle of a packet.
LEMMA AtPacket ==
    ASSUME Core, pc \in TestPlaces \cup {"calls"}
    PROVE  /\ n > 0 /\ died = "no"
           /\ pc \in TestPlaces => Test
           /\ pc = "calls" => ~Test
  BY DEF Core, Placed, TestPlaces

\* A getter gives a payload.
LEMMA PayloadCore ==
    ASSUME Core, died = "no", n > 0, Payload,
           NEW to \in {"ldns", "calls"}, Goes(to),
           to = "ldns" => Test, to = "calls" => ~Test,
           UNCHANGED <<objs, asked, shown>>
    PROVE  Core'
<1>1. UNCHANGED <<trace, n>>
  BY DEF Goes
<1>2. recs' \in Seq(Rec) /\ RecsOK'
  BY <1>1, PayloadMakes DEF Core
<1>3. /\ objs' \in Seq(Obj(trace)) /\ ObjsOK'
      /\ asked' \subseteq DOMAIN objs' /\ AskedOK'
  BY <1>1, ObjsKept, AskedKept
<1>4. shown' \in Seq(Shown(trace))
  BY DEF Core, Typed
<1> QED BY <1>2, <1>3, <1>4, GoesKeeps DEF TestPlaces

\* ldns() gives an object.
LEMMA LdnsCore ==
    ASSUME Core, died = "no", n > 0, NEW r \in DOMAIN recs, Ldns(r),
           NEW to \in {"check", "calls"}, Goes(to),
           to = "check" => Test, to = "calls" => ~Test,
           UNCHANGED <<asked, shown>>
    PROVE  Core'
<1>1. UNCHANGED <<trace, n>>
  BY DEF Goes
<1>2. /\ recs' \in Seq(Rec) /\ RecsOK'
      /\ objs' \in Seq(Obj(trace)) /\ ObjsOK' /\ Len(objs') = Len(objs) + 1
      /\ \A o \in DOMAIN objs : objs'[o] = objs[o]
  BY <1>1, LdnsMakes DEF Core
<1>3. asked' \subseteq DOMAIN objs' /\ AskedOK'
  BY <1>2, AskedKeptByNew
<1>4. shown' \in Seq(Shown(trace))
  BY DEF Core, Typed
<1> QED BY <1>2, <1>3, <1>4, GoesKeeps DEF TestPlaces

\* ldns() reads what was not captured, and the program dies.
LEMMA StraysCore ==
    ASSUME Core, n > 0, NEW r \in DOMAIN recs, Strays(r), Dies("strayed"),
           UNCHANGED <<recs, objs>>
    PROVE  Core'
  BY StraysShort, DiesKeeps

\* is_ok() answers True.
LEMMA IsOkCore ==
    ASSUME Core, died = "no", n > 0, NEW o \in DOMAIN objs, IsOk(o),
           asked' = asked \cup {o},
           NEW to \in {"show", "calls"}, Goes(to),
           to = "show" => Test, to = "calls" => ~Test,
           UNCHANGED <<recs, objs, shown>>
    PROVE  Core'
<1>1. UNCHANGED <<trace, n>>
  BY DEF Goes
<1>2. /\ recs' \in Seq(Rec) /\ RecsOK'
      /\ objs' \in Seq(Obj(trace)) /\ ObjsOK'
  BY <1>1, RecsKept, ObjsKept
<1>3. asked' \subseteq DOMAIN objs' /\ AskedOK'
  BY DEF Core, Typed, AskedOK, IsOk, HasMessage
<1>4. shown' \in Seq(Shown(trace))
  BY DEF Core, Typed
<1> QED BY <1>2, <1>3, <1>4, GoesKeeps DEF TestPlaces

\* The records of a message are taken out.
LEMMA ShowCore ==
    ASSUME Core, died = "no", n > 0, NEW o \in DOMAIN objs, Show(o),
           NEW to \in {"loop", "calls"}, Goes(to), to = "calls" => ~Test,
           UNCHANGED <<recs, objs, asked>>
    PROVE  Core'
<1>1. UNCHANGED <<trace, n>>
  BY DEF Goes
<1>2. /\ recs' \in Seq(Rec) /\ RecsOK'
      /\ objs' \in Seq(Obj(trace)) /\ ObjsOK'
      /\ asked' \subseteq DOMAIN objs' /\ AskedOK'
  BY <1>1, RecsKept, ObjsKept, AskedKept
<1> QED BY <1>2, ShowTypes, GoesKeeps DEF TestPlaces

\* The next packet: nothing is made.
LEMMA OnCore ==
    ASSUME Core, died = "no", n > 0, Goes("loop"),
           UNCHANGED <<recs, objs, asked, shown>>
    PROVE  Core'
<1>1. UNCHANGED <<trace, n>>
  BY DEF Goes
<1>2. /\ recs' \in Seq(Rec) /\ RecsOK'
      /\ objs' \in Seq(Obj(trace)) /\ ObjsOK'
      /\ asked' \subseteq DOMAIN objs' /\ AskedOK'
  BY <1>1, RecsKept, ObjsKept, AskedKept
<1>3. shown' \in Seq(Shown(trace))
  BY DEF Core, Typed
<1> QED BY <1>2, <1>3, GoesKeeps DEF TestPlaces

-----------------------------------------------------------------------------
(* Steps *)

\* A test program at work has what its place needs.
LEMMA TestCore ==
    ASSUME Core, Test => InHand,
           TestPayload \/ TestLdns \/ TestCheck \/ TestShow
    PROVE  Core'
<1>1. /\ pc \in TestPlaces /\ n > 0 /\ died = "no" /\ Test /\ InHand
      /\ recs \in Seq(Rec) /\ objs \in Seq(Obj(trace))
  BY AtPacket DEF TestPayload, TestLdns, TestCheck, TestShow, TestPlaces, Core, Typed
<1>2. CASE TestPayload
  <2>1. CASE Goes("loop") /\ UNCHANGED <<recs, objs, asked, shown>>
    BY <1>1, <2>1, OnCore
  <2>2. CASE Dies("AttributeError") /\ UNCHANGED <<recs, objs>>
    BY <1>1, <2>2, DiesKeeps
  <2>3. CASE Payload /\ Goes("ldns") /\ UNCHANGED <<objs, asked, shown>>
    BY <1>1, <2>3, PayloadCore
  <2> QED BY <1>2, <2>1, <2>2, <2>3 DEF TestPayload
<1>3. CASE TestLdns
  <2>1. 1 \in DOMAIN recs
    BY <1>1, <1>3 DEF TestLdns, InHand
  <2>2. CASE Strays(1) /\ Dies("strayed") /\ UNCHANGED <<recs, objs>>
    BY <1>1, <2>1, <2>2, StraysCore
  <2>3. CASE Ldns(1) /\ Goes("check") /\ UNCHANGED <<asked, shown>>
    BY <1>1, <2>1, <2>3, LdnsCore
  <2> QED BY <1>3, <2>2, <2>3 DEF TestLdns
<1>4. CASE TestCheck
  <2>1. Len(objs) \in DOMAIN objs
    BY <1>1, <1>4 DEF TestCheck, InHand
  <2>2. CASE /\ IsOk(Len(objs)) /\ asked' = asked \cup {Len(objs)}
             /\ Goes("show") /\ UNCHANGED <<recs, objs, shown>>
    BY <1>1, <2>1, <2>2, IsOkCore
  <2>3. CASE Dies("AttributeError") /\ UNCHANGED <<recs, objs>>
    BY <1>1, <2>3, DiesKeeps
  <2> QED BY <1>4, <2>2, <2>3 DEF TestCheck
<1>5. CASE TestShow
  <2>1. Len(objs) \in DOMAIN objs /\ HasMessage(Len(objs))
    BY <1>1, <1>5 DEF TestShow, InHand
  <2>2. Show(Len(objs)) /\ Goes("loop") /\ UNCHANGED <<recs, objs, asked>>
    BY <1>5, <2>1 DEF TestShow
  <2> QED BY <1>1, <2>1, <2>2, ShowCore
<1> QED BY <1>2, <1>3, <1>4, <1>5

\* Any program may be given a NULL only for an object it did not ask.
LEMMA AnyCore ==
    ASSUME Core,
           \/ AnyPayload \/ AnyWrong \/ AnyNext
           \/ \E r \in DOMAIN recs : AnyLdns(r)
           \/ \E o \in DOMAIN objs : AnyIsOk(o) \/ AnyShow(o)
    PROVE  Core' /\ ~Test
<1>1. pc = "calls" /\ n > 0 /\ died = "no" /\ ~Test
  BY AtPacket DEF AnyPayload, AnyWrong, AnyNext, AnyLdns, AnyIsOk, AnyShow
<1>2. CASE AnyPayload
  BY <1>1, <1>2, PayloadCore DEF AnyPayload
<1>3. CASE AnyWrong
  BY <1>1, <1>3, DiesKeeps DEF AnyWrong
<1>4. CASE AnyNext
  BY <1>1, <1>4, OnCore DEF AnyNext
<1>5. ASSUME NEW r \in DOMAIN recs, AnyLdns(r) PROVE Core'
  BY <1>1, <1>5, StraysCore, LdnsCore DEF AnyLdns
<1>6. ASSUME NEW o \in DOMAIN objs, AnyIsOk(o) PROVE Core'
  BY <1>1, <1>6, IsOkCore DEF AnyIsOk
<1>7. ASSUME NEW o \in DOMAIN objs, AnyShow(o) PROVE Core'
  <2>1. CASE HasMessage(o)
    BY <1>1, <1>7, <2>1, ShowCore DEF AnyShow
  <2>2. CASE ~HasMessage(o)
    <3>1. Dies("NULL") /\ UNCHANGED <<recs, objs>>
      BY <1>7, <2>2 DEF AnyShow
    <3>2. o \in DOMAIN objs \ asked
      BY <2>2 DEF Core, AskedOK
    <3> QED BY <1>1, <3>1, <3>2, DiesKeeps
  <2> QED BY <2>1, <2>2
<1> QED BY <1>1, <1>2, <1>3, <1>4, <1>5, <1>6, <1>7

\* A step that changes nothing.
LEMMA StutterInv ==
    ASSUME LInv, UNCHANGED vars
    PROVE  LInv'
<1>1. UNCHANGED <<program, trace, pc, n, recs, objs, asked, shown, died>>
  BY DEF vars
<1>2. Core'
  <2>1. RecsOK' /\ ObjsOK' /\ AskedOK'
    BY <1>1, RecsKept, ObjsKept, AskedKept DEF LInv
  <2>2. Typed' /\ Placed'
    BY <1>1 DEF LInv, Core, Typed, Placed, Test
  <2>3. NullUnasked' /\ StraysAtLength'
    BY <1>1 DEF LInv, Core, NullUnasked, StraysAtLength, Test, Prefix, Pkt
  <2> QED BY <2>1, <2>2, <2>3 DEF Core
<1>3. Test' => Test /\ InHand /\ DiedOK /\ ShownOK
  BY <1>1 DEF LInv, Test
<1>4. InHand /\ DiedOK => InHand' /\ DiedOK'
  BY <1>1 DEF InHand, DiedOK, Pkt, Suits, NoPayload, Proto, HasMessage, OneOctet
<1>5. ShownOK => ShownOK'
  BY <1>1 DEF ShownOK, ShownPackets, Wanted, Passed, Suits, NoPayload, Proto, OneOctet
<1> QED BY <1>2, <1>3, <1>4, <1>5 DEF LInv

-----------------------------------------------------------------------------
(* The test programs *)

\* What a step of a test program leaves of the packets it showed.
LEMMA ShownKept ==
    ASSUME ShownOK, UNCHANGED <<program, trace, shown>>
    PROVE  /\ ShownPackets' = {i \in Wanted : i <= Passed} /\ Wanted' = Wanted
           /\ \A i \in 1 .. Passed : ~trace'[i].ip6
           /\ \A i, j \in DOMAIN shown' :
                i < j => shown'[i].packet < shown'[j].packet
           /\ \A i \in DOMAIN shown' :
                LET p == trace'[shown'[i].packet]
                IN p.message = (IF shown'[i].lists THEN "question" ELSE "bare")
                     \/ OneOctet(p)
  BY DEF ShownOK, ShownPackets, Wanted, Suits, NoPayload, Proto

\* Packets are shown or passed over one at a time.
LEMMA WantedNat ==
    ASSUME Typed
    PROVE  /\ Wanted \subseteq Nat /\ n \in Nat
           /\ \A i \in Wanted : i <= n <=> i <= n - 1 \/ i = n
<1>1. trace \in Seq(Packet)
  BY LdnsReadAssumption DEF Typed
<1>2. Wanted \subseteq Nat /\ n \in Nat
  BY <1>1 DEF Wanted, Typed
<1> QED BY <1>2

\* A program that dies at a packet has shown those before it.
LEMMA DiesShown ==
    ASSUME ShownOK, UNCHANGED <<program, trace, shown, n>>,
           died' # "no", pc' = "end", pc # "loop", pc # "end"
    PROVE  ShownOK'
<1>1. Passed = n - 1 /\ Passed' = n - 1
  BY DEF Passed
<1> QED BY <1>1, ShownKept DEF ShownOK

\* The next packet is read into an empty hand.
LEMMA NextPacketTest ==
    ASSUME LInv, NextPacket, Test
    PROVE  InHand' /\ DiedOK' /\ ShownOK'
<1>1. /\ UNCHANGED <<program, trace, objs, asked, shown, died>>
      /\ pc = "loop" /\ died = "no" /\ Typed /\ ShownOK /\ Passed = n
  BY DEF NextPacket, LInv, Core, Placed, Passed
<1>2. DiedOK'
  BY <1>1 DEF DiedOK
<1>3. CASE n = Len(trace)
  <2>1. pc' = "end" /\ n' = n
    BY <1>3 DEF NextPacket
  <2>2. InHand'
    BY <2>1 DEF InHand
  <2>3. Passed' = n
    BY <1>1, <2>1 DEF Passed
  <2> QED BY <1>1, <1>2, <1>3, <2>1, <2>2, <2>3, ShownKept DEF ShownOK
<1>4. CASE n # Len(trace)
  <2>1. n' = n + 1 /\ pc' = "payload" /\ recs' = <<>>
    BY <1>4 DEF NextPacket
  <2>2. InHand'
    BY <2>1 DEF InHand
  <2>3. n \in Nat
    BY <1>1, WantedNat
  <2>4. Passed' = n
    BY <2>1, <2>3 DEF Passed
  <2> QED BY <1>1, <1>2, <2>1, <2>2, <2>4, ShownKept DEF ShownOK
<1> QED BY <1>3, <1>4

\* A packet is passed over, has no payload, or gives one.
LEMMA TestPayloadTest ==
    ASSUME LInv, TestPayload, Test
    PROVE  InHand' /\ DiedOK' /\ ShownOK'
<1>1. /\ pc = "payload" /\ Typed /\ InHand /\ DiedOK /\ ShownOK
      /\ Passed = n - 1 /\ n > 0 /\ died = "no" /\ recs = <<>>
  BY AtPacket DEF TestPayload, LInv, Core, TestPlaces, Passed, InHand
<1>2. CASE /\ ~Pkt.ip6 /\ ~Suits(Pkt)
           /\ Goes("loop") /\ UNCHANGED <<recs, objs, asked, shown>>
  <2>1. UNCHANGED <<program, trace, n, died, shown>> /\ pc' = "loop"
    BY <1>2 DEF Goes
  <2>2. n \notin Wanted
    BY <1>2 DEF Wanted, Pkt
  <2>3. Passed' = n
    BY <2>1 DEF Passed
  <2>4. {i \in Wanted : i <= n} = {i \in Wanted : i <= n - 1}
    BY <1>1, <2>2, WantedNat
  <2>5. InHand' /\ DiedOK'
    BY <1>1, <2>1 DEF InHand, DiedOK
  <2>6. \A i \in 1 .. n : ~trace'[i].ip6
    <3> SUFFICES ASSUME NEW i \in 1 .. n PROVE ~trace[i].ip6
      BY <2>1
    <3>1. CASE i = n
      BY <1>2, <3>1 DEF Pkt
    <3>2. CASE i # n
      <4>1. i \in 1 .. Passed
        BY <1>1, <3>2, WantedNat
      <4> QED BY <1>1, <4>1 DEF ShownOK
    <3> QED BY <3>1, <3>2
  <2> QED BY <1>1, <2>1, <2>3, <2>4, <2>5, <2>6, ShownKept DEF ShownOK
<1>5. CASE Pkt.ip6 /\ Dies("AttributeError") /\ UNCHANGED <<recs, objs>>
  <2>1. /\ UNCHANGED <<program, trace, n, shown>>
        /\ pc' = "end" /\ died' = "AttributeError"
    BY <1>5 DEF Dies
  <2>2. InHand' /\ DiedOK'
    BY <1>5, <2>1 DEF InHand, DiedOK, Pkt
  <2> QED BY <1>1, <2>1, <2>2, DiesShown
<1>3. CASE /\ Suits(Pkt) /\ NoPayload(Pkt)
           /\ Dies("AttributeError") /\ UNCHANGED <<recs, objs>>
  <2>1. /\ UNCHANGED <<program, trace, n, shown>>
        /\ pc' = "end" /\ died' = "AttributeError"
    BY <1>3 DEF Dies
  <2>2. Pkt.message = "none"
    <3>1. Pkt.proto # "tcp" /\ Pkt.cap < 0
      BY <1>3 DEF Suits, NoPayload
    <3>2. Prefix(Pkt) = 0
      BY <3>1 DEF Prefix
    <3> QED BY <1>1, <3>1, <3>2, Here, PacketTypes
  <2>3. InHand' /\ DiedOK'
    BY <2>1, <2>2 DEF InHand, DiedOK, Pkt
  <2> QED BY <1>1, <2>1, <2>3, DiesShown
<1>4. CASE /\ Suits(Pkt) /\ ~NoPayload(Pkt)
           /\ Payload /\ Goes("ldns") /\ UNCHANGED <<objs, asked, shown>>
  <2>1. UNCHANGED <<program, trace, n, died, shown>> /\ pc' = "ldns"
    BY <1>4 DEF Goes
  <2>2. Len(recs) = 0 /\ Len(recs') = 1 /\ recs'[1].reads = 0
    BY <1>1, <1>4, <2>1, PayloadMakes DEF LInv, Core
  <2>3. InHand'
    BY <1>4, <2>1, <2>2 DEF InHand, Pkt, Suits, NoPayload, Proto
  <2>4. DiedOK' /\ Passed' = n - 1
    BY <1>1, <2>1 DEF DiedOK, Passed
  <2> QED BY <1>1, <2>1, <2>3, <2>4, ShownKept DEF ShownOK
<1> QED BY <1>2, <1>3, <1>4, <1>5 DEF TestPayload

\* The payload is not read before: one reading, or one octet.
LEMMA TestLdnsTest ==
    ASSUME LInv, TestLdns, Test
    PROVE  InHand' /\ DiedOK' /\ ShownOK'
<1>1. /\ pc = "ldns" /\ Typed /\ DiedOK /\ ShownOK
      /\ Passed = n - 1 /\ n > 0 /\ died = "no"
      /\ Suits(Pkt) /\ ~NoPayload(Pkt) /\ Len(recs) = 1 /\ recs[1].reads = 0
  BY AtPacket DEF TestLdns, LInv, Core, TestPlaces, Passed, InHand
<1>2. 1 \in DOMAIN recs /\ Pkt.cap \in Int
  BY <1>1, Here DEF Typed
<1>3. CASE Strays(1) /\ Dies("strayed") /\ UNCHANGED <<recs, objs>>
  <2>1. /\ UNCHANGED <<program, trace, n, shown>>
        /\ pc' = "end" /\ died' = "strayed"
    BY <1>3 DEF Dies
  <2>2. Pkt.cap < (0 + 1) * Prefix(Pkt)
    BY <1>1, <1>2, <1>3, StraysShort DEF LInv
  <2>3. OneOctet(Pkt)
    <3>1. Pkt.cap < Prefix(Pkt)
      <4>1. Prefix(Pkt) \in {0, 2}
        BY DEF Prefix
      <4> QED BY <2>2, <4>1
    <3> QED BY <1>1, <1>2, <3>1, ShortIsOneOctet
  <2>4. InHand' /\ DiedOK'
    BY <2>1, <2>3 DEF InHand, DiedOK, OneOctet, Pkt
  <2> QED BY <1>1, <2>1, <2>4, DiesShown
<1>4. CASE Ldns(1) /\ Goes("check") /\ UNCHANGED <<asked, shown>>
  <2>1. UNCHANGED <<program, trace, n, died, shown>> /\ pc' = "check"
    BY <1>4 DEF Goes
  <2>2. /\ Len(recs') = 1 /\ Len(objs') = Len(objs) + 1
        /\ objs'[Len(objs) + 1].packet = n
        /\ objs'[Len(objs) + 1].reads = 0 + 1
    BY <1>1, <1>2, <1>4, <2>1, LdnsMakes DEF LInv, Core
  <2>3. Len(objs) \in Nat
    BY <1>1 DEF Typed
  <2>4. InHand'
    BY <1>1, <2>1, <2>2, <2>3 DEF InHand, Pkt, Suits, NoPayload, Proto
  <2>5. DiedOK' /\ Passed' = n - 1
    BY <1>1, <2>1 DEF DiedOK, Passed
  <2> QED BY <1>1, <2>1, <2>4, <2>5, ShownKept DEF ShownOK
<1> QED BY <1>3, <1>4 DEF TestLdns

\* is_ok() lets messages through; without one the packet had none.
LEMMA TestCheckTest ==
    ASSUME LInv, TestCheck, Test
    PROVE  InHand' /\ DiedOK' /\ ShownOK'
<1> DEFINE o == Len(objs)
<1>1. /\ pc = "check" /\ Typed /\ DiedOK /\ ShownOK /\ InHand
      /\ Passed = n - 1 /\ n > 0 /\ died = "no"
      /\ o > 0 /\ objs[o].packet = n /\ objs[o].reads = 1
  BY AtPacket DEF TestCheck, LInv, Core, TestPlaces, Passed, InHand
<1>2. CASE /\ IsOk(o) /\ asked' = asked \cup {o}
           /\ Goes("show") /\ UNCHANGED <<recs, objs, shown>>
  <2>1. UNCHANGED <<program, trace, n, died, shown>> /\ pc' = "show"
    BY <1>2 DEF Goes
  <2>2. HasMessage(o)'
    BY <1>2 DEF IsOk, HasMessage
  <2>3. InHand'
    BY <1>1, <1>2, <2>1, <2>2 DEF InHand, Pkt, Suits, NoPayload, Proto
  <2>4. DiedOK' /\ Passed' = n - 1
    BY <1>1, <2>1 DEF DiedOK, Passed
  <2> QED BY <1>1, <2>1, <2>3, <2>4, ShownKept DEF ShownOK
<1>3. CASE ~IsOk(o) /\ Dies("AttributeError") /\ UNCHANGED <<recs, objs>>
  <2>1. /\ UNCHANGED <<program, trace, n, shown>>
        /\ pc' = "end" /\ died' = "AttributeError"
    BY <1>3 DEF Dies
  <2>2. Pkt.message = "none"
    <3>1. /\ o \in DOMAIN objs /\ objs[o] \in Obj(trace)
          /\ n \in DOMAIN trace /\ Pkt = trace[n]
      BY <1>1, Here DEF Typed
    <3>2. /\ objs[o].at = 1 * Prefix(Pkt)
          /\ objs[o].at + objs[o].size = Pkt.cap
          /\ objs[o].size >= 0 => objs[o].message = Pkt.message
      BY <1>1, <3>1 DEF LInv, Core, ObjsOK
    <3>3. objs[o].size \in Int /\ Prefix(Pkt) \in {0, 2}
      BY <3>1 DEF Obj, Prefix
    <3>4. CASE objs[o].size >= 0
      BY <1>3, <3>2, <3>4 DEF IsOk
    <3>5. CASE objs[o].size < 0
      <4>1. Pkt.cap < Prefix(Pkt)
        BY <3>2, <3>3, <3>5
      <4> QED BY <1>1, <3>1, <3>3, <4>1, PacketTypes
    <3> QED BY <3>3, <3>4, <3>5
  <2>3. InHand' /\ DiedOK'
    BY <2>1, <2>2 DEF InHand, DiedOK, Pkt
  <2> QED BY <1>1, <2>1, <2>3, DiesShown
<1> QED BY <1>2, <1>3 DEF TestCheck

\* The object in hand is of the packet in hand: what it shows is its message.
LEMMA HandIsMessage ==
    ASSUME LInv, Test, pc = "show"
    PROVE  LET o == Len(objs)
           IN /\ o \in DOMAIN objs /\ objs[o].packet = n
              /\ n \in Wanted /\ n \in DOMAIN trace
              /\ \/ Pkt.message = IF objs[o].message = "question"
                                    THEN "question" ELSE "bare"
                 \/ OneOctet(Pkt)
<1> DEFINE o == Len(objs)
<1>1. /\ Typed /\ n > 0 /\ Suits(Pkt) /\ ~NoPayload(Pkt)
      /\ o > 0 /\ objs[o].packet = n /\ objs[o].reads = 1 /\ HasMessage(o)
  BY AtPacket DEF LInv, Core, TestPlaces, InHand
<1>2. /\ o \in DOMAIN objs /\ objs[o] \in Obj(trace)
      /\ n \in DOMAIN trace /\ Pkt = trace[n] /\ Pkt.cap \in Int
  BY <1>1, Here DEF Typed
<1>3. n \in Wanted
  BY <1>1, <1>2 DEF Wanted
<1>4. /\ objs[o].at = 1 * Prefix(Pkt)
      /\ objs[o].at + objs[o].size = Pkt.cap
      /\ objs[o].size >= 0 => objs[o].message = Pkt.message
  BY <1>1, <1>2 DEF LInv, Core, ObjsOK
<1>5. /\ objs[o].size \in Int /\ Prefix(Pkt) \in {0, 2}
      /\ objs[o].message \in {"question", "bare"}
  BY <1>1, <1>2 DEF Obj, Prefix, HasMessage, Messages
<1>6. CASE objs[o].size >= 0
  BY <1>1, <1>2, <1>3, <1>4, <1>5, <1>6
<1>7. CASE objs[o].size < 0
  <2>1. Pkt.cap < Prefix(Pkt)
    BY <1>4, <1>5, <1>7
  <2>2. OneOctet(Pkt)
    BY <1>1, <1>2, <2>1, ShortIsOneOctet
  <2> QED BY <1>1, <1>2, <1>3, <2>2
<1> QED BY <1>5, <1>6, <1>7

\* The records of the packet are the next ones shown.
LEMMA TestShowTest ==
    ASSUME LInv, TestShow, Test
    PROVE  InHand' /\ DiedOK' /\ ShownOK'
<1> DEFINE o == Len(objs)
           row == [packet |-> objs[o].packet, lists |-> objs[o].message = "question"]
<1>1. /\ pc = "show" /\ Typed /\ DiedOK /\ ShownOK
      /\ Passed = n - 1 /\ died = "no" /\ HasMessage(o)
  BY AtPacket DEF TestShow, LInv, Core, TestPlaces, Passed, InHand
<1>2. /\ UNCHANGED <<program, trace, n, died>> /\ pc' = "loop"
      /\ shown' = Append(shown, row)
  BY <1>1 DEF TestShow, Goes, Show
<1>3. /\ o \in DOMAIN objs /\ row.packet = n /\ n \in Wanted /\ n \in DOMAIN trace
      /\ Pkt.message = (IF row.lists THEN "question" ELSE "bare") \/ OneOctet(Pkt)
  BY <1>1, HandIsMessage
<1>4. InHand' /\ DiedOK' /\ Passed' = n
  BY <1>1, <1>2 DEF InHand, DiedOK, Passed
<1> HIDE DEF row
<1>5. /\ Len(shown) \in Nat /\ DOMAIN shown = 1 .. Len(shown)
      /\ DOMAIN shown' = DOMAIN shown \cup {Len(shown) + 1}
      /\ shown'[Len(shown) + 1] = row
      /\ \A i \in DOMAIN shown : shown'[i] = shown[i]
  BY <1>1, <1>2 DEF Typed
<1>6. ShownPackets' = ShownPackets \cup {n}
  BY <1>3, <1>5 DEF ShownPackets
<1>7. Wanted' = Wanted
  BY <1>2 DEF Wanted, Suits, NoPayload, Proto
<1>8. ShownPackets' = {i \in Wanted' : i <= Passed'}
  BY <1>1, <1>3, <1>4, <1>6, <1>7, WantedNat DEF ShownOK
<1>12. \A i \in 1 .. Passed' : ~trace'[i].ip6
  <2> SUFFICES ASSUME NEW i \in 1 .. n PROVE ~trace[i].ip6
    BY <1>2, <1>4
  <2>1. CASE i = n
    BY <1>3, <2>1 DEF Wanted, Suits
  <2>2. CASE i # n
    <3>1. i \in 1 .. Passed
      BY <1>1, <2>2, WantedNat
    <3> QED BY <1>1, <3>1 DEF ShownOK
  <2> QED BY <2>1, <2>2
<1>9. \A i \in DOMAIN shown : shown[i].packet < n
  <2>1. ASSUME NEW i \in DOMAIN shown PROVE shown[i].packet \in ShownPackets
    BY DEF ShownPackets
  <2>2. \A q \in ShownPackets : q \in Nat /\ q <= n - 1
    BY <1>1, WantedNat DEF ShownOK
  <2>3. n \in Nat
    BY <1>1, WantedNat
  <2> QED BY <2>1, <2>2, <2>3
<1>10. \A i, j \in DOMAIN shown' : i < j => shown'[i].packet < shown'[j].packet
  <2> SUFFICES ASSUME NEW i \in DOMAIN shown', NEW j \in DOMAIN shown', i < j
               PROVE  shown'[i].packet < shown'[j].packet
    OBVIOUS
  <2>1. i \in DOMAIN shown
    BY <1>5
  <2>2. CASE j \in DOMAIN shown
    BY <1>1, <1>5, <2>1, <2>2 DEF ShownOK
  <2>3. CASE j = Len(shown) + 1
    BY <1>3, <1>5, <1>9, <2>1, <2>3
  <2> QED BY <1>5, <2>2, <2>3
<1>11. ASSUME NEW i \in DOMAIN shown'
       PROVE  LET p == trace'[shown'[i].packet]
              IN p.message = (IF shown'[i].lists THEN "question" ELSE "bare")
                   \/ OneOctet(p)
  <2>1. CASE i \in DOMAIN shown
    BY <1>1, <1>2, <1>5, <2>1 DEF ShownOK
  <2>2. CASE i = Len(shown) + 1
    BY <1>2, <1>3, <1>5, <2>2 DEF Pkt
  <2> QED BY <1>5, <2>1, <2>2
<1> QED BY <1>2, <1>4, <1>8, <1>10, <1>11, <1>12 DEF ShownOK, OneOctet

-----------------------------------------------------------------------------

\* Initially a test program has passed nothing.
LEMMA InitInv == Init => LInv
<1> SUFFICES ASSUME Init PROVE LInv
  OBVIOUS
<1>1. Core
  BY InitCore
<1>2. InHand /\ DiedOK
  BY DEF Init, InHand, DiedOK
<1>3. trace \in Seq(Packet) /\ DOMAIN shown = {} /\ Passed = 0
  BY LdnsReadAssumption DEF Init, Passed
<1>4. ShownPackets = {} /\ {i \in Wanted : i <= Passed} = {}
  BY <1>3 DEF ShownPackets, Wanted
<1>5. ShownOK
  BY <1>3, <1>4 DEF ShownOK, Init
<1> QED BY <1>1, <1>2, <1>5 DEF LInv

\* LInv is inductive.
LEMMA StepInv == LInv /\ [Next]_vars => LInv'
<1> SUFFICES ASSUME LInv, [Next]_vars PROVE LInv'
  OBVIOUS
<1>1. CASE NextPacket
  <2>1. Core' /\ Test' = Test
    BY <1>1, NextPacketCore DEF LInv, NextPacket, Test
  <2> QED BY <1>1, <2>1, NextPacketTest DEF LInv
<1>2. CASE TestPayload \/ TestLdns \/ TestCheck \/ TestShow
  <2>1. Core
    BY DEF LInv
  <2>2. Test
    BY <1>2, <2>1, AtPacket
    DEF TestPayload, TestLdns, TestCheck, TestShow, TestPlaces
  <2>3. Core'
    BY <1>2, TestCore DEF LInv
  <2>4. InHand' /\ DiedOK' /\ ShownOK'
    BY <1>2, <2>2, TestPayloadTest, TestLdnsTest, TestCheckTest, TestShowTest
  <2> QED BY <2>3, <2>4 DEF LInv
<1>3. CASE \/ AnyPayload \/ AnyWrong \/ AnyNext
           \/ \E r \in DOMAIN recs : AnyLdns(r)
           \/ \E o \in DOMAIN objs : AnyIsOk(o) \/ AnyShow(o)
  <2>1. Core' /\ ~Test
    BY <1>3, AnyCore DEF LInv
  <2>2. program' = program
    BY <1>3 DEF AnyPayload, AnyWrong, AnyNext, AnyLdns, AnyIsOk, AnyShow, Goes, Dies
  <2> QED BY <2>1, <2>2 DEF LInv, Test
<1>4. CASE UNCHANGED vars
  BY <1>4, StutterInv
<1> QED BY <1>1, <1>2, <1>3, <1>4 DEF Next

\* The strengthened invariant holds in every reachable state.
LEMMA AlwaysInv == Spec => []LInv
  BY InitInv, StepInv, PTL DEF Spec

\* Every state of a program that reads DNS messages has its form: the objects
\* are of packets of the trace, and only those made were asked.
THEOREM TypeCorrect == Spec => []Typed
<1>1. LInv => Typed
  BY DEF LInv, Core
<1> QED BY <1>1, AlwaysInv, PTL

\* The first ldns() on a payload reads the message and to the end of what was
\* captured, however often the payloads of the packet were read.
THEOREM ReadsWhole == Spec => []ReadsMessage
<1>1. LInv => ReadsMessage
  <2> SUFFICES ASSUME LInv, NEW o \in DOMAIN objs
               PROVE  LET p == trace[objs[o].packet]
                      IN /\ objs[o].reads = 1 =>
                              /\ objs[o].at = Prefix(p)
                              /\ objs[o].size >= 0 => objs[o].message = p.message
                         /\ objs[o].at + objs[o].size = p.cap
                         /\ objs[o].size < 0 => p.cap < objs[o].reads * Prefix(p)
    BY DEF ReadsMessage
  <2> DEFINE p == trace[objs[o].packet]
  <2>1. /\ objs[o].at = objs[o].reads * Prefix(p)
        /\ objs[o].at + objs[o].size = p.cap
        /\ objs[o].reads = 1 /\ objs[o].size >= 0
             => objs[o].message = p.message
    BY DEF LInv, Core, ObjsOK
  <2>2. objs[o].at \in Nat /\ objs[o].size \in Int
    <3>1. objs[o] \in Obj(trace)
      BY DEF LInv, Core, Typed
    <3> QED BY <3>1 DEF Obj
  <2>3. 1 * Prefix(p) = Prefix(p)
    BY PrefixTimes
  <2>4. objs[o].size < 0 => p.cap < objs[o].at
    BY <2>1, <2>2
  <2> HIDE DEF p
  <2>5. objs[o].reads = 1 => objs[o].at = Prefix(p)
    BY <2>1, <2>3
  <2>6. objs[o].size < 0 => p.cap < objs[o].reads * Prefix(p)
    BY <2>1, <2>4
  <2> QED BY <2>1, <2>5, <2>6 DEF p
<1> QED BY <1>1, AlwaysInv, PTL

\* A program that asks is_ok() first gives libldns no NULL and strays only
\* behind payloads too short for a length; and for traces of any length the
\* test programs show each packet they are after once, in order, up to a
\* message that is not whole or a packet of IPv6.
THEOREM CheckedPrograms == Spec => []CheckedSurvives
<1>1. LInv => CheckedSurvives
  <2> SUFFICES ASSUME LInv PROVE CheckedSurvives
    OBVIOUS
  <2>1. NullUnasked /\ StraysAtLength
    BY DEF LInv, Core
  <2>2. ASSUME Test PROVE ShowsWanted
    <3>1. ShownOK /\ Typed
      BY <2>2 DEF LInv, Core
    <3>2. trace \in Seq(Packet) /\ n \in Nat
      BY <3>1, LdnsReadAssumption, WantedNat DEF Typed
    <3>3. Wanted \subseteq DOMAIN trace /\ Wanted \subseteq Nat
      BY <3>1, WantedNat DEF Wanted
    <3>4. ShownPackets \subseteq Wanted
      BY <3>1 DEF ShownOK
    <3>5. Passed \in Int
      BY <3>2 DEF Passed
    <3>6. \A v \in Wanted, w \in ShownPackets : v <= w => v \in ShownPackets
      BY <3>1, <3>3, <3>5 DEF ShownOK
    <3>7. died = "no" /\ pc = "end" => Wanted \subseteq ShownPackets
      <4> SUFFICES ASSUME died = "no", pc = "end" PROVE Wanted \subseteq ShownPackets
        OBVIOUS
      <4>1. Passed = Len(trace)
        BY <3>1 DEF ShownOK, Passed
      <4>2. \A i \in DOMAIN trace : i <= Len(trace)
        BY <3>2
      <4> QED BY <3>1, <3>3, <4>1, <4>2 DEF ShownOK
    <3> QED BY <3>1, <3>4, <3>6, <3>7 DEF ShowsWanted, ShownOK
  <2>3. Test => DiedOK
    BY DEF LInv
  <2>4. ASSUME Test, NEW w \in ShownPackets, NEW i \in 1 .. w
        PROVE  ~trace[i].ip6
    <3>1. ShownOK /\ Typed
      BY <2>4 DEF LInv, Core
    <3>2. w \in Wanted /\ w <= Passed /\ w \in Nat /\ n \in Nat
      BY <2>4, <3>1, WantedNat DEF ShownOK
    <3>3. Passed \in Int
      BY <3>2 DEF Passed
    <3> QED BY <3>1, <3>2, <3>3 DEF ShownOK
  <2> QED BY <2>1, <2>2, <2>3, <2>4 DEF CheckedSurvives, DiedOK
<1> QED BY <1>1, AlwaysInv, PTL

=============================================================================
