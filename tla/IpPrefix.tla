------------------------------- MODULE IpPrefix -------------------------------
(***************************************************************************)
(* ipp.py's IPprefix objects, and a program that makes them, masks them and  *)
(* counts them in dictionaries as test-ipp-hash.py does.  Objects are        *)
(* mutable and are keys: network() writes to the octets of the object it is  *)
(* called on, which may be those of other objects, or of a packet.           *)
(* An address is its bits, bit 0 the leftmost, eight to an octet.            *)
(***************************************************************************)
EXTENDS Integers, Sequences

CONSTANTS
    Strings,      \* what a program hands to from_s
    Arrays,       \* and to the constructor; what is in packets
    Lengths,      \* the lengths it asks for
    MaxObjects,   \* bound: prefixes a program makes
    MaxCalls      \* bound: calls it makes

NoLength == -1    \* a length of None

Bits(ver) == IF ver = 4 THEN 32 ELSE 128
Addr(ver) == [0 .. Bits(ver) - 1 -> {0, 1}]
WithLengths(ver, lengths) == [ver : {ver}, addr : Addr(ver), len : lengths]
Prefix == WithLengths(4, {NoLength} \cup 0 .. 32)
            \cup WithLengths(6, {NoLength} \cup 0 .. 128)

ASSUME IpPrefixAssumption ==
    /\ Strings \cup Arrays \subseteq
         WithLengths(4, Int) \cup WithLengths(6, Int)
    /\ Lengths \subseteq Int
    /\ MaxObjects \in Nat /\ MaxCalls \in Nat

VARIABLES
    objs,      \* the IPprefix objects, in the order they were made
    octets,    \* of each, the first object whose i_addr are the octets it has
    packet,    \* those of which that is in a packet
    table,     \* the dictionaries: keys, with the hash they were filed under
    added,     \* how often each value was added
    changed,   \* the keys that were changed after they were filed
    alive,     \* FALSE once the process wrote past an address
    calls      \* how many there were

vars == <<objs, octets, packet, table, added, changed, alive, calls>>

-----------------------------------------------------------------------------
(* Comparing *)

\* Truthiness: neither None nor zero.
Sized(p) == p.len > 0

Differ(a, b) == {i \in DOMAIN a : a[i] # b[i]}
Least(S) == CHOOSE i \in S : \A j \in S : i <= j

\* Mutant: the bits of the octet are not looked at.
CFbdOctet(p, q) ==
    IF Differ(p.addr, q.addr) = {} THEN Bits(p.ver)
    ELSE 8 * (Least(Differ(p.addr, q.addr)) \div 8)

\* c_fbd: the width if the addresses are the same.
CFbd(p, q) ==
    IF Differ(p.addr, q.addr) = {} THEN Bits(p.ver)
    ELSE Least(Differ(p.addr, q.addr))

Lesser(m, n) == IF m <= n THEN m ELSE n

\* Mutant: the lengths do not bound the answer.
FirstBitDifferentUncapped(p, q) == CFbd(p, q)

FirstBitDifferent(p, q) ==
    IF Sized(p) /\ Sized(q)
    THEN Lesser(Lesser(p.len, q.len), CFbd(p, q))
    ELSE CFbd(p, q)

\* Raises for a prefix of no length, or for one of another version.
IsPrefix(p, q) ==
    p.len # NoLength /\ p.ver = q.ver /\ FirstBitDifferent(p, q) >= p.len

\* A bit before the first is set, one past the last is not.
HasBitSet(p, n) == n < 0 \/ (n < Bits(p.ver) /\ p.addr[n] = 1)

\* memcmp of the addresses, by the first octet that differs.
CmpAddr(p, q) ==
    IF Differ(p.addr, q.addr) = {} THEN 0
    ELSE IF p.addr[CFbd(p, q)] = 1 THEN 1 ELSE -1

\* Mutant: prefixes are compared by address.
CmpNoLength(p, q) == CmpAddr(p, q)

\* Lengths count only when both are there.
Cmp(p, q) ==
    IF CmpAddr(p, q) # 0 \/ ~Sized(p) \/ ~Sized(q) \/ p.len = q.len
    THEN CmpAddr(p, q)
    ELSE IF p.len > q.len THEN 1 ELSE -1

\* Mutant: the length is not hashed.
HashNoLength(p) == [ver |-> p.ver, addr |-> p.addr, len |-> 129]

\* ipp_hash: two prefixes of one address and different lengths never get the
\* same; what else may is told apart by ==.
Hash(p) ==
    [ver |-> p.ver, addr |-> p.addr, len |-> IF Sized(p) THEN p.len ELSE 129]

\* The global constants 10/8, 172.16/12 and 192.168/16.
Private(bits, len) ==
    [ver |-> 4, len |-> len,
     addr |-> [i \in 0 .. 31 |-> IF i \in bits THEN 1 ELSE 0]]

Rfc1918 == {Private({4, 6}, 8), Private({0, 2, 4, 5, 11}, 12),
            Private({0, 1, 8, 10, 12}, 16)}

IsRfc1918(p) == \E r \in Rfc1918 : IsPrefix(r, p)

-----------------------------------------------------------------------------
(* Making and changing prefixes *)

\* A new object has the octets of object o, which is itself or an older one.
Made(p, o) ==
    /\ Len(objs) < MaxObjects
    /\ objs' = Append(objs, p) /\ octets' = Append(octets, o)

Itself == Len(objs) + 1

Raises == UNCHANGED <<objs, octets, changed, alive>>
NoDict == UNCHANGED <<table, added>>

\* The constructor takes a length of zero; without one the length is None.
IPprefix(g, o) ==
    /\ NoDict
    /\ \/ /\ g.len \in {NoLength} \cup 0 .. Bits(g.ver)
          /\ Made(g, o) /\ UNCHANGED <<changed, alive>>
       \/ g.len \notin {NoLength} \cup 0 .. Bits(g.ver) /\ Raises

\* It copies a bytearray, but keeps a cdata: octets of a packet, as src_prefix
\* hands them over, or those that another object of this version has, as it is
\* with its addr and with the same src_prefix once more.
OfBytearray(g) == IPprefix(g, Itself) /\ packet' = packet

OfPacket(g) ==
    IPprefix(g, Itself) /\ packet' = packet \cup (DOMAIN objs' \ DOMAIN objs)

OfAddr(i, n) ==
    IPprefix([objs[i] EXCEPT !.len = n], octets[i]) /\ packet' = packet

\* In from_s a length of zero counts as none.
FromS(g) ==
    /\ NoDict /\ packet' = packet
    /\ \/ /\ g.len \in {NoLength, 0}
          /\ Made([g EXCEPT !.len = NoLength], Itself)
          /\ UNCHANGED <<changed, alive>>
       \/ /\ g.len \in 1 .. Bits(g.ver)
          /\ Made(g, Itself) /\ UNCHANGED <<changed, alive>>
       \/ g.len \notin {NoLength} \cup 0 .. Bits(g.ver) /\ Raises

\* What happens to an object happens to it as a key.
Changes(S) == changed' = changed \cup (S \cap {e.key : e \in table})

\* What is written to the octets of one object is the address of all that have
\* them.
Sharers(i) == {j \in DOMAIN objs : octets[j] = octets[i]}

Written(i, a) ==
    [j \in DOMAIN objs |->
       IF j \in Sharers(i) THEN [objs[j] EXCEPT !.addr = a] ELSE objs[j]]

\* c_mask_network: the copy loses the bits after the boundary up to the end of
\* its octet; the octets after that one are cleared in the source.
Octet(n) == IF n < 0 THEN 0 ELSE n \div 8

Masked(a, n) ==
    [i \in DOMAIN a |-> IF i >= n /\ i \div 8 = Octet(n) THEN 0 ELSE a[i]]

\* Mutant: the octet of the boundary is cleared as well.
SpoiledOctet(a, n) ==
    [i \in DOMAIN a |-> IF i \div 8 >= Octet(n) THEN 0 ELSE a[i]]

Spoiled(a, n) ==
    [i \in DOMAIN a |-> IF i \div 8 > Octet(n) THEN 0 ELSE a[i]]

\* What the masking leaves of the source, which comes before the constructor.
AfterNetwork(i, n) == Written(i, Spoiled(objs[i].addr, n))

\* For a negative length the constructor raises; at the full width and beyond
\* (and at minus eight) C runs off the address.
Network(i, n) ==
    /\ NoDict /\ packet' = packet
    /\ \/ /\ n \in 0 .. Bits(objs[i].ver) - 1 /\ Len(objs) < MaxObjects
          /\ objs' = Append(AfterNetwork(i, n),
                            [objs[i] EXCEPT !.addr = Masked(@, n), !.len = n])
          /\ octets' = Append(octets, Itself)
          /\ Changes(Sharers(i)) /\ alive' = alive
       \/ /\ n \in -7 .. -1
          /\ objs' = AfterNetwork(i, n) /\ octets' = octets
          /\ Changes(Sharers(i)) /\ alive' = alive
       \/ /\ n <= -8 \/ n >= Bits(objs[i].ver)
          /\ alive' = FALSE /\ UNCHANGED <<objs, octets, changed>>

\* Mutant: any integer will do.
SetLengthUnchecked(i, n) ==
    /\ NoDict /\ UNCHANGED <<octets, packet, alive>>
    /\ objs' = [objs EXCEPT ![i].len = n] /\ Changes({i})

SetLength(i, n) ==
    /\ NoDict /\ packet' = packet
    /\ \/ /\ n \in 1 .. Bits(objs[i].ver)
          /\ objs' = [objs EXCEPT ![i].len = n] /\ octets' = octets
          /\ Changes({i}) /\ alive' = alive
       \/ n \notin 1 .. Bits(objs[i].ver) /\ Raises

\* Raises for a prefix without a length.
Complement(i) ==
    /\ NoDict /\ packet' = packet
    /\ \/ /\ objs[i].len # NoLength
          /\ Made([objs[i] EXCEPT !.addr = [j \in DOMAIN @ |-> 1 - @[j]]],
                  Itself)
          /\ UNCHANGED <<changed, alive>>
       \/ objs[i].len = NoLength /\ Raises

\* An address is assigned to src_prefix or dst_prefix of the packet, or the
\* next packet is read to where it was.
PacketWritten(i, g) ==
    /\ NoDict /\ UNCHANGED <<octets, packet, alive>>
    /\ octets[i] \in packet /\ g.ver = objs[i].ver
    /\ objs' = Written(i, g.addr) /\ Changes(Sharers(i))

-----------------------------------------------------------------------------
(* add_to_iph.  Each version has its dictionary. *)

\* A lookup finds a key by the hash it was filed under, and by ==.
Finds(e, i) ==
    /\ e.hash = Hash(objs[i])
    /\ e.key = i \/ Cmp(objs[e.key], objs[i]) = 0

AddsOf(h) == IF h \in DOMAIN added THEN added[h] ELSE 0

AddToIph(i) ==
    /\ \/ \E e \in table :
            /\ Finds(e, i)
            /\ table' = (table \ {e}) \cup {[e EXCEPT !.count = @ + 1]}
       \/ /\ \A e \in table : ~Finds(e, i)
          /\ table' = table
               \cup {[key |-> i, hash |-> Hash(objs[i]), count |-> 1]}
    /\ added' = [h \in DOMAIN added \cup {Hash(objs[i])} |->
                   AddsOf(h) + IF h = Hash(objs[i]) THEN 1 ELSE 0]
    /\ UNCHANGED <<objs, octets, packet, changed, alive>>

-----------------------------------------------------------------------------

Objects == DOMAIN objs

Init ==
    /\ objs = <<>> /\ octets = <<>> /\ packet = {}
    /\ table = {} /\ changed = {} /\ alive = TRUE
    /\ added = [h \in {} |-> 0] /\ calls = 0

Next ==
    /\ alive /\ calls < MaxCalls /\ calls' = calls + 1
    /\ \/ \E g \in Arrays : OfBytearray(g) \/ OfPacket(g)
       \/ \E g \in Strings : FromS(g)
       \/ \E i \in Objects :
            \/ \E n \in Lengths :
                 Network(i, n) \/ SetLength(i, n) \/ OfAddr(i, n)
            \/ OfAddr(i, NoLength) \/ Complement(i) \/ AddToIph(i)
            \/ \E g \in Arrays : PacketWritten(i, g)

Spec == Init /\ [][Next]_vars

-----------------------------------------------------------------------------
(* Properties *)

Key == [ver : {4, 6}, addr : Addr(4) \cup Addr(6), len : 1 .. 129]

\* Who has the same octets has the same address, of the same version.
Shared ==
    \A i, j \in Objects :
        octets[i] = octets[j] =>
            objs[i].ver = objs[j].ver /\ objs[i].addr = objs[j].addr

\* Prefixes keep the form of their version; keys are objects.
TypeOK ==
    /\ objs \in Seq(Prefix)
    /\ octets \in [Objects -> Objects] /\ packet \subseteq Objects /\ Shared
    /\ \A e \in table : e \in [key : Objects, hash : Key, count : Nat \ {0}]
    /\ DOMAIN added \subseteq Key /\ added \in [DOMAIN added -> Nat]
    /\ changed \subseteq Objects
    /\ alive \in BOOLEAN /\ calls \in Nat

\* Every value that was added has one entry with the number of its additions,
\* although equality ignores lengths that are None and the hash does not; but
\* for values filed under a key that has changed since: by length=, by
\* network() of it or of an object that has the same octets, or with a packet.
CountedOnce ==
    \A h \in DOMAIN added :
        (\A e \in table : e.hash = h => e.key \notin changed) =>
            \E e \in table :
                /\ e.hash = h /\ e.count = added[h]
                /\ \A f \in table : f.hash = h => f = e

\* sorted() can rely on <, and a dictionary on ==: < is transitive, > is its
\* converse, and prefixes with lengths are == just when their hashes are the
\* same (without a length they are == to any length, and hash differently).
Ordered(p, q) ==
    /\ Cmp(p, q) = -Cmp(q, p)
    /\ Hash(p) = Hash(q) => Cmp(p, q) = 0
    /\ Sized(p) /\ Sized(q) /\ Cmp(p, q) = 0 => Hash(p) = Hash(q)

OrderTotal ==
    \A i, j \in Objects :
        objs[i].ver = objs[j].ver =>
            /\ Ordered(objs[i], objs[j])
            /\ \A k \in Objects :
                 /\ objs[k].ver = objs[j].ver
                 /\ Cmp(objs[i], objs[j]) < 0 /\ Cmp(objs[j], objs[k]) < 0
                 => Cmp(objs[i], objs[k]) < 0

\* A prefix of a prefix is a prefix; two that are prefixes of each other have
\* one length; what begins with a private prefix is private.
PrefixesNest ==
    \A i, j \in Objects :
        Sized(objs[i]) /\ Sized(objs[j]) /\ IsPrefix(objs[i], objs[j]) =>
            /\ IsPrefix(objs[j], objs[i]) => objs[i].len = objs[j].len
            /\ IsRfc1918(objs[i]) => IsRfc1918(objs[j])
            /\ \A k \in Objects :
                 IsPrefix(objs[j], objs[k]) => IsPrefix(objs[i], objs[k])

\* first_bit_different is the first bit in which has_bit_set differs, or where
\* the shorter prefix ends.
IsFirstDifferent(p, q, f) ==
    /\ \A n \in 0 .. f - 1 : HasBitSet(p, n) = HasBitSet(q, n)
    /\ \/ HasBitSet(p, f) # HasBitSet(q, f)
       \/ f = Bits(p.ver)
       \/ Sized(p) /\ Sized(q) /\ f \in {p.len, q.len}

FirstBitIsFirst ==
    \A i, j \in Objects :
        objs[i].ver = objs[j].ver =>
            IsFirstDifferent(objs[i], objs[j],
                             FirstBitDifferent(objs[i], objs[j]))

\* network(n) gives a prefix of what it is called on and of all that have the
\* same octets, which it changes, but not in the bits that the new prefix has;
\* prefixes with other octets are left alone, and the new one has its own.
NetworkOf(i, n) ==
    Network(i, n) /\ Len(objs') > Len(objs) =>
        LET new == objs'[Len(objs')]
        IN /\ \A j \in Sharers(i) : \A k \in {objs[j], objs'[j]} :
                ~Sized(k) \/ k.len >= n => IsPrefix(new, k)
           /\ \A j \in Objects \ Sharers(i) : objs'[j] = objs[j]
           /\ octets'[Len(objs')] \notin {octets[j] : j \in Objects}

NetworkContains ==
    [][\A i \in Objects : \A n \in Lengths : NetworkOf(i, n)]_vars

=============================================================================
