------------------------------- MODULE LdnsRead -------------------------------
(***************************************************************************)
(* pldns: DNS messages read from the payloads of UDP and TCP packets.  The  *)
(* two test programs go over a trace; any other program makes the calls of  *)
(* the module in any order.  The reading of a trace and the getters of its  *)
(* packets are those of TraceRead and PacketViews.                          *)
(***************************************************************************)
EXTENDS Integers, Sequences, FiniteSets

CONSTANTS
    Traces,     \* the traces, sequences of packets
    MaxRecords, \* bound: payload objects that a program asks for
    MaxObjects  \* bound: calls of ldns() that a program makes

Programs == {"test-udp", "test-tcp", "any"}

\* The octets captured behind the transport header, -1 when not all of that
\* was, and what they hold: no whole message that libldns can read, one with a
\* question, one without (an answer in multicast DNS).  A fragment is one that
\* is not the first, or an IPv4 header cut in front of its offset; other is also
\* a packet without IP.
Messages == {"none", "question", "bare"}
Packet == [ip6 : BOOLEAN, proto : {"udp", "tcp", "other"}, fragment : BOOLEAN,
           cap : Nat \cup {-1}, message : Messages]

ASSUME LdnsReadAssumption ==
    /\ Traces \subseteq Seq(Packet)
    /\ \A t \in Traces : \A i \in DOMAIN t :
         t[i].message # "none" => t[i].cap > IF t[i].proto = "tcp" THEN 2 ELSE 0
    /\ MaxRecords \in Nat /\ MaxObjects \in Nat

VARIABLES
    program, trace, \* fixed once chosen
    pc, n,          \* where the program is; the number of its packet
    recs,           \* the pi of each payload object of that packet
    objs,           \* the _ldns_objects it made of them
    asked,          \* those whose is_ok() answered True
    shown,          \* the packets whose records were taken out
    died

vars == <<program, trace, pc, n, recs, objs, asked, shown, died>>

Pkt == trace[n]
Test == program # "any"
Proto == IF program = "test-tcp" THEN "tcp" ELSE "udp"

\* The octets in front of the message of a TCP packet, which hold its length.
Prefix(p) == IF p.proto = "tcp" THEN 2 ELSE 0

\* The payload getters give None: a TCP payload of no octets, a cut header.
NoPayload(p) == p.cap < IF p.proto = "tcp" THEN 1 ELSE 0

\* A test program's guards; test-pldns-tcp goes on at a packet without payload.
Suits(p) ==
    /\ ~p.ip6 /\ ~p.fragment /\ p.proto = Proto
    /\ p.proto = "tcp" => ~NoPayload(p)

-----------------------------------------------------------------------------

Dies(why) ==
    /\ died' = why /\ pc' = "end"
    /\ UNCHANGED <<program, trace, n, asked, shown>>

Goes(to) == pc' = to /\ UNCHANGED <<program, trace, n, died>>

NextPacket ==
    /\ pc = "loop"
    /\ IF n = Len(trace) THEN pc' = "end" /\ UNCHANGED <<n, recs>>
       ELSE /\ n' = n + 1 /\ recs' = <<>>
            /\ pc' = IF Test THEN "payload" ELSE "calls"
    /\ UNCHANGED <<program, trace, objs, asked, shown, died>>

\* Mutant: the payload is made once, and asked for again is the same object.
PayloadKept ==
    recs' = Append(recs, IF recs = <<>>
                           THEN [at |-> 0, rem |-> Pkt.cap, reads |-> 0]
                           ELSE [recs[Len(recs)] EXCEPT !.reads = 0])

\* Each time a new struct pi, at the first octet behind the header.
Payload == recs' = Append(recs, [at |-> 0, rem |-> Pkt.cap, reads |-> 0])

\* What libldns makes of so many octets: the message where it starts with it,
\* anything elsewhere.  A number below zero is a very large one to it.
Parses(at, size) ==
    IF at = Prefix(Pkt) /\ size >= 0 THEN {Pkt.message} ELSE Messages

\* ldns(): the length of a TCP message is skipped in the payload object itself,
\* whatever is left of it, and is not compared with what is read.
Ldns(r) ==
    LET at == recs[r].at + Prefix(Pkt)
        rem == recs[r].rem - Prefix(Pkt)
    IN /\ recs' = [recs EXCEPT ![r] =
                     [at |-> at, rem |-> rem, reads |-> @.reads + 1]]
       /\ \E m \in Parses(at, rem) :
            objs' = Append(objs, [packet |-> n, at |-> at, size |-> rem,
                                  reads |-> recs'[r].reads, message |-> m])

\* Octets that were not captured are read.
Strays(r) == recs[r].rem < Prefix(Pkt)

\* Mutant: the status is taken for the answer; LDNS_STATUS_OK is zero.
IsOkStatus(o) == objs[o].message = "none"

\* is_ok()
IsOk(o) == objs[o].message # "none"

\* Without a message the pointer is NULL, and the accessors give it to libldns.
HasMessage(o) == objs[o].message # "none"

\* The lists of records are there only when the message has a question.
Show(o) ==
    shown' = Append(shown, [packet |-> objs[o].packet,
                            lists |-> objs[o].message = "question"])

-----------------------------------------------------------------------------
(* The test programs *)

\* Of the IP objects only those of IPv4 have the frag_offset asked for first.
TestPayload ==
    /\ pc = "payload"
    /\ \/ Pkt.ip6 /\ Dies("AttributeError") /\ UNCHANGED <<recs, objs>>
       \/ ~Pkt.ip6 /\ ~Suits(Pkt)
            /\ Goes("loop") /\ UNCHANGED <<recs, objs, asked, shown>>
       \/ Suits(Pkt) /\ NoPayload(Pkt)
            /\ Dies("AttributeError") /\ UNCHANGED <<recs, objs>>
       \/ Suits(Pkt) /\ ~NoPayload(Pkt)
            /\ Payload /\ Goes("ldns") /\ UNCHANGED <<objs, asked, shown>>

TestLdns ==
    /\ pc = "ldns"
    /\ \/ Strays(1) /\ Dies("strayed") /\ UNCHANGED <<recs, objs>>
       \/ Ldns(1) /\ Goes("check") /\ UNCHANGED <<asked, shown>>

\* An object has no errorstr(): the message about a bad one cannot be made.
TestCheck ==
    /\ pc = "check"
    /\ LET o == Len(objs)
       IN \/ IsOk(o) /\ asked' = asked \cup {o}
               /\ Goes("show") /\ UNCHANGED <<recs, objs, shown>>
          \/ ~IsOk(o) /\ Dies("AttributeError") /\ UNCHANGED <<recs, objs>>

TestShow ==
    /\ pc = "show"
    /\ IF HasMessage(Len(objs))
         THEN Show(Len(objs)) /\ Goes("loop")
                /\ UNCHANGED <<recs, objs, asked>>
         ELSE Dies("NULL") /\ UNCHANGED <<recs, objs>>

-----------------------------------------------------------------------------
(* Any program, with the packet in hand *)

AnyPayload ==
    /\ pc = "calls" /\ Pkt.proto # "other" /\ Len(recs) < MaxRecords
    /\ ~NoPayload(Pkt) /\ Payload
    /\ Goes("calls") /\ UNCHANGED <<objs, asked, shown>>

AnyLdns(r) ==
    /\ pc = "calls" /\ Len(objs) < MaxObjects
    /\ \/ Strays(r) /\ Dies("strayed") /\ UNCHANGED <<recs, objs>>
       \/ Ldns(r) /\ Goes("calls") /\ UNCHANGED <<asked, shown>>

\* An object that is no payload, and None.
AnyWrong ==
    /\ pc = "calls"
    /\ \E why \in {"PltError", "AttributeError"} : Dies(why)
    /\ UNCHANGED <<recs, objs>>

AnyIsOk(o) ==
    /\ pc = "calls" /\ IsOk(o) /\ asked' = asked \cup {o}
    /\ Goes("calls") /\ UNCHANGED <<recs, objs, shown>>

\* Objects keep their message when the packet is gone.
AnyShow(o) ==
    /\ pc = "calls"
    /\ IF HasMessage(o)
         THEN Len(shown) < MaxObjects /\ Show(o) /\ Goes("calls")
                /\ UNCHANGED <<recs, objs, asked>>
         ELSE Dies("NULL") /\ UNCHANGED <<recs, objs>>

AnyNext ==
    /\ pc = "calls"
    /\ Goes("loop") /\ UNCHANGED <<recs, objs, asked, shown>>

-----------------------------------------------------------------------------

Init ==
    /\ program \in Programs /\ trace \in Traces
    /\ pc = "loop" /\ n = 0 /\ recs = <<>> /\ objs = <<>>
    /\ asked = {} /\ shown = <<>> /\ died = "no"

Next ==
    \/ NextPacket \/ TestPayload \/ TestLdns \/ TestCheck \/ TestShow
    \/ AnyPayload \/ AnyWrong \/ AnyNext
    \/ \E r \in DOMAIN recs : AnyLdns(r)
    \/ \E o \in DOMAIN objs : AnyIsOk(o) \/ AnyShow(o)

Spec == Init /\ [][Next]_vars

-----------------------------------------------------------------------------
(* Properties *)

\* However often the payloads of a packet were read, ldns() on one that was not
\* read before starts at the message, reads to the end of what was captured and
\* finds the message if it is whole; and another call on it ends there too, but
\* for one that finds less than the two octets to skip.
ReadsMessage ==
    \A o \in DOMAIN objs :
        LET p == trace[objs[o].packet]
        IN /\ objs[o].reads = 1 =>
                /\ objs[o].at = Prefix(p)
                /\ objs[o].size >= 0 => objs[o].message = p.message
           /\ objs[o].at + objs[o].size = p.cap
           /\ objs[o].size < 0 => p.cap < objs[o].reads * Prefix(p)

\* The packets that a test program is after, and those it showed.
Wanted == {i \in DOMAIN trace : Suits(trace[i])}
ShownPackets == {shown[i].packet : i \in DOMAIN shown}

\* A TCP payload that ends within the length in front of its message.
OneOctet(p) == p.proto = "tcp" /\ p.cap = 1

\* libldns is given a NULL only for an object that was not asked.
NullUnasked == died = "NULL" => ~Test /\ DOMAIN objs \ asked # {}

\* What was not captured is read only where a TCP payload, less the octets the
\* calls on it have skipped, is shorter than a length.
StraysAtLength ==
    died = "strayed" =>
        \E r \in DOMAIN recs : recs[r].rem < Prefix(Pkt)
                                 /\ Pkt.cap < (recs[r].reads + 1) * Prefix(Pkt)

\* A test program shows what it is after, up to the first that is not whole, in
\* order and once each; their records where they have a question.
ShowsWanted ==
    /\ \A i, j \in DOMAIN shown : i < j => shown[i].packet < shown[j].packet
    /\ ShownPackets \subseteq Wanted
    /\ \A v \in Wanted, w \in ShownPackets : v <= w => v \in ShownPackets
    /\ \A i \in DOMAIN shown :
         LET p == trace[shown[i].packet]
         IN p.message = (IF shown[i].lists THEN "question" ELSE "bare")
              \/ OneOctet(p)
    /\ died = "no" /\ pc = "end" => Wanted \subseteq ShownPackets

\* A program that lets is_ok() answer first never gives libldns a NULL, and
\* strays only behind a payload too short for a length.  So the test programs
\* show what they are after, up to a message that is not whole or to a packet
\* of IPv6, of whatever protocol: there they end with an AttributeError.
CheckedSurvives ==
    /\ NullUnasked
    /\ StraysAtLength
    /\ Test =>
         /\ ShowsWanted
         /\ died = "strayed" => OneOctet(Pkt)
         /\ died = "AttributeError" => Pkt.ip6 \/ Pkt.message = "none"
         /\ \A w \in ShownPackets : \A i \in 1 .. w : ~trace[i].ip6

=============================================================================
