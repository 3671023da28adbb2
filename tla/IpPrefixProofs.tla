---------------------------- MODULE IpPrefixProofs ----------------------------
(***************************************************************************)
(* Proofs of IpPrefix's properties, for every address and length.  Bits are  *)
(* compared through CFbd, the least place where two addresses differ: what   *)
(* the order and is_prefix need of it is in FbdFacts and AddrOrder.          *)
(***************************************************************************)
EXTENDS IpPrefix, TLAPS, WellFoundedInduction

-----------------------------------------------------------------------------
(* Prefixes and the first bit in which they differ *)

LEMMA BitsType == ASSUME NEW v PROVE Bits(v) \in Nat /\ Bits(v) <= 128
  BY DEF Bits

LEMMA PrefixType ==
    ASSUME NEW p \in Prefix
    PROVE  /\ p.ver \in {4, 6} /\ p.addr \in Addr(p.ver)
           /\ p.len \in Int /\ p.len >= -1 /\ p.len <= Bits(p.ver)
  BY DEF Prefix, WithLengths, NoLength, Bits

LEMMA LeastIsLeast ==
    ASSUME NEW S \in SUBSET Nat, S # {}
    PROVE  Least(S) \in S /\ \A j \in S : Least(S) <= j
  <1> DEFINE R == OpToRel(<, Nat)
  <1>0. IsWellFoundedOn(R, Nat)
    BY NatLessThanWellFounded
  <1>2. \A j, m \in Nat : ~(<<j, m>> \in R) => m <= j
    BY DEF OpToRel
  <1> HIDE DEF R
  <1>1. \E m \in S : \A j \in S : ~(<<j, m>> \in R)
    BY <1>0, WFMin
  <1>3. \E m \in S : \A j \in S : m <= j
    <2>1. PICK m \in S : \A j \in S : ~(<<j, m>> \in R)
      BY <1>1
    <2> QED
      BY <2>1, <1>2
  <1> QED
    BY <1>3 DEF Least

LEMMA FbdFacts ==
    ASSUME NEW p \in Prefix, NEW q \in Prefix, p.ver = q.ver
    PROVE  /\ CFbd(p, q) \in 0 .. Bits(p.ver)
           /\ \A n \in 0 .. Bits(p.ver) - 1 :
                n < CFbd(p, q) => p.addr[n] = q.addr[n]
           /\ CFbd(p, q) = Bits(p.ver) <=> p.addr = q.addr
           /\ CFbd(p, q) # Bits(p.ver) =>
                p.addr[CFbd(p, q)] # q.addr[CFbd(p, q)]
           /\ Differ(p.addr, q.addr) = {} <=> p.addr = q.addr
  <1> DEFINE N == Bits(p.ver)
             D == Differ(p.addr, q.addr)
  <1>1. /\ N \in Nat
        /\ p.addr \in [0 .. N - 1 -> {0, 1}] /\ q.addr \in [0 .. N - 1 -> {0, 1}]
    BY BitsType, PrefixType DEF Addr
  <1>2. D = {i \in 0 .. N - 1 : p.addr[i] # q.addr[i]}
    BY <1>1 DEF Differ
  <1>3. D = {} <=> p.addr = q.addr
    BY <1>1, <1>2
  <1>4. CASE D = {}
    <2>1. CFbd(p, q) = N
      BY <1>4 DEF CFbd
    <2> QED
      BY <2>1, <1>1, <1>3, <1>4
  <1>5. CASE D # {}
    <2>1. CFbd(p, q) = Least(D)
      BY <1>5 DEF CFbd
    <2>2. Least(D) \in D /\ \A j \in D : Least(D) <= j
      <3>1. D \in SUBSET Nat
        BY <1>1, <1>2
      <3> QED
        BY <3>1, <1>5, LeastIsLeast
    <2> DEFINE f == Least(D)
    <2>3. /\ f \in 0 .. N - 1 /\ p.addr[f] # q.addr[f]
          /\ \A n \in 0 .. N - 1 : n < f => n \notin D
      <3>1. \A n \in 0 .. N - 1 : f \in 0 .. N - 1 /\ n < f => ~(f <= n)
        BY <1>1
      <3> QED
        BY <3>1, <2>2, <1>2
    <2> HIDE DEF f, N
    <2> QED
      BY <2>1, <2>3, <1>1, <1>2, <1>3, <1>5 DEF N, f
  <1> QED
    BY <1>4, <1>5

\* memcmp, without saying how the first difference is found.
Above(a, b, N) ==
    \E n \in 0 .. N - 1 :
        a[n] = 1 /\ b[n] = 0 /\ \A m \in 0 .. N - 1 : m < n => a[m] = b[m]

LEMMA AddrOrder ==
    ASSUME NEW p \in Prefix, NEW q \in Prefix, p.ver = q.ver
    PROVE  /\ CmpAddr(p, q) \in {-1, 0, 1}
           /\ CmpAddr(p, q) = 0 <=> p.addr = q.addr
           /\ CmpAddr(p, q) = 1 <=> Above(p.addr, q.addr, Bits(p.ver))
           /\ CmpAddr(p, q) = -1 <=> Above(q.addr, p.addr, Bits(p.ver))
  <1> DEFINE N == Bits(p.ver)
             f == CFbd(p, q)
  <1>1. /\ N \in Nat
        /\ p.addr \in [0 .. N - 1 -> {0, 1}] /\ q.addr \in [0 .. N - 1 -> {0, 1}]
    BY BitsType, PrefixType DEF Addr
  <1>2. /\ f \in 0 .. N
        /\ \A n \in 0 .. N - 1 : n < f => p.addr[n] = q.addr[n]
        /\ f = N <=> p.addr = q.addr
        /\ f # N => p.addr[f] # q.addr[f]
        /\ Differ(p.addr, q.addr) = {} <=> p.addr = q.addr
    BY FbdFacts
  <1>3. CmpAddr(p, q) = IF p.addr = q.addr THEN 0
                        ELSE IF p.addr[f] = 1 THEN 1 ELSE -1
    BY <1>2 DEF CmpAddr
  <1> HIDE DEF f, N
  <1>4. CASE p.addr = q.addr
    BY <1>3, <1>4, <1>1 DEF Above, N
  <1>5. CASE p.addr # q.addr
    <2>1. f \in 0 .. N - 1 /\ p.addr[f] # q.addr[f]
      BY <1>1, <1>2, <1>5
    <2>2. p.addr[f] \in {0, 1} /\ q.addr[f] \in {0, 1}
      BY <2>1, <1>1
    <2>3. ASSUME NEW n \in 0 .. N - 1, p.addr[n] # q.addr[n],
                 \A m \in 0 .. N - 1 : m < n => p.addr[m] = q.addr[m]
          PROVE  n = f
      <3>1. ~(n < f) /\ ~(f < n)
        BY <2>3, <2>1, <1>2
      <3> QED
        BY <3>1, <2>1, <1>1
    <2>4. Above(p.addr, q.addr, N) <=> p.addr[f] = 1
      <3>1. Above(p.addr, q.addr, N) => p.addr[f] = 1
        BY <2>3 DEF Above
      <3>2. p.addr[f] = 1 => Above(p.addr, q.addr, N)
        BY <2>1, <2>2, <1>2 DEF Above
      <3> QED
        BY <3>1, <3>2
    <2>5. Above(q.addr, p.addr, N) <=> p.addr[f] # 1
      <3>1. Above(q.addr, p.addr, N) => p.addr[f] = 0
        BY <2>3 DEF Above
      <3>2. p.addr[f] # 1 => Above(q.addr, p.addr, N)
        BY <2>1, <2>2, <1>2 DEF Above
      <3> QED
        BY <3>1, <3>2
    <2> QED
      BY <2>4, <2>5, <1>3, <1>5 DEF N
  <1> QED
    BY <1>4, <1>5

LEMMA AboveTransitive ==
    ASSUME NEW N \in Nat, NEW a \in [0 .. N - 1 -> {0, 1}],
           NEW b \in [0 .. N - 1 -> {0, 1}], NEW c \in [0 .. N - 1 -> {0, 1}],
           Above(b, a, N), Above(c, b, N)
    PROVE  Above(c, a, N)
  <1>1. PICK m \in 0 .. N - 1 :
          b[m] = 1 /\ a[m] = 0 /\ \A i \in 0 .. N - 1 : i < m => b[i] = a[i]
    BY DEF Above
  <1>2. PICK n \in 0 .. N - 1 :
          c[n] = 1 /\ b[n] = 0 /\ \A i \in 0 .. N - 1 : i < n => c[i] = b[i]
    BY DEF Above
  <1>3. CASE m < n
    BY <1>1, <1>2, <1>3 DEF Above
  <1>4. CASE n < m
    BY <1>1, <1>2, <1>4 DEF Above
  <1> QED
    BY <1>1, <1>2, <1>3, <1>4

-----------------------------------------------------------------------------
(* What holds of any prefixes *)

LEMMA CmpFacts ==
    ASSUME NEW p \in Prefix, NEW q \in Prefix, p.ver = q.ver
    PROVE  /\ Cmp(p, q) < 0 => CmpAddr(p, q) = -1 \/ p.addr = q.addr
           /\ CmpAddr(p, q) = -1 => Cmp(p, q) < 0
           /\ p.addr = q.addr =>
                /\ Cmp(p, q) < 0 <=> Sized(p) /\ Sized(q) /\ p.len < q.len
                /\ Cmp(p, q) = 0 <=> (Sized(p) /\ Sized(q) => p.len = q.len)
           /\ Cmp(p, q) = 0 => p.addr = q.addr
  BY AddrOrder, PrefixType DEF Cmp, Sized

LEMMA AllOrdered ==
    ASSUME NEW p \in Prefix, NEW q \in Prefix, p.ver = q.ver
    PROVE  Ordered(p, q)
  <1>1. CmpAddr(q, p) = -CmpAddr(p, q)
    BY AddrOrder
  <1>2. Cmp(p, q) = -Cmp(q, p)
    BY <1>1, AddrOrder, PrefixType DEF Cmp, Sized
  <1>3. Hash(p) = Hash(q) => Cmp(p, q) = 0
    <2>1. ASSUME Hash(p) = Hash(q) PROVE p.addr = q.addr
      BY <2>1 DEF Hash
    <2>2. ASSUME Hash(p) = Hash(q), Sized(p), Sized(q) PROVE p.len = q.len
      BY <2>2 DEF Hash
    <2> QED
      BY <2>1, <2>2, CmpFacts
  <1>4. Sized(p) /\ Sized(q) /\ Cmp(p, q) = 0 => Hash(p) = Hash(q)
    BY CmpFacts DEF Hash
  <1> QED
    BY <1>2, <1>3, <1>4 DEF Ordered

LEMMA LessTransitive ==
    ASSUME NEW p \in Prefix, NEW q \in Prefix, NEW r \in Prefix,
           p.ver = q.ver, q.ver = r.ver, Cmp(p, q) < 0, Cmp(q, r) < 0
    PROVE  Cmp(p, r) < 0
  <1> DEFINE N == Bits(p.ver)
  <1>1. CASE p.addr = q.addr /\ q.addr = r.addr
    BY <1>1, CmpFacts, PrefixType
  <1>2. CASE p.addr = q.addr /\ q.addr # r.addr
    <2>1. Above(r.addr, p.addr, N)
      BY <1>2, CmpFacts, AddrOrder
    <2> QED
      BY <2>1, CmpFacts, AddrOrder
  <1>3. CASE p.addr # q.addr /\ q.addr = r.addr
    <2>1. Above(r.addr, p.addr, N)
      BY <1>3, CmpFacts, AddrOrder
    <2> QED
      BY <2>1, CmpFacts, AddrOrder
  <1>4. CASE p.addr # q.addr /\ q.addr # r.addr
    <2>1. Above(q.addr, p.addr, N) /\ Above(r.addr, q.addr, N)
      BY <1>4, CmpFacts, AddrOrder
    <2>2. Above(r.addr, p.addr, N)
      BY <2>1, AboveTransitive, BitsType, PrefixType DEF Addr
    <2> QED
      BY <2>2, CmpFacts, AddrOrder
  <1> QED
    BY <1>1, <1>2, <1>3, <1>4

\* The bits that make p a prefix of q.
LEMMA IsPrefixBits ==
    ASSUME NEW p \in Prefix, NEW q \in Prefix
    PROVE  IsPrefix(p, q) <=>
             /\ p.len # NoLength /\ p.ver = q.ver
             /\ Sized(p) /\ Sized(q) => p.len <= q.len
             /\ \A n \in 0 .. Bits(p.ver) - 1 :
                  n < p.len => p.addr[n] = q.addr[n]
  <1> DEFINE N == Bits(p.ver)
             f == CFbd(p, q)
  <1>1. SUFFICES ASSUME p.len # NoLength, p.ver = q.ver
                 PROVE  FirstBitDifferent(p, q) >= p.len <=>
                          /\ Sized(p) /\ Sized(q) => p.len <= q.len
                          /\ \A n \in 0 .. N - 1 :
                               n < p.len => p.addr[n] = q.addr[n]
    BY DEF IsPrefix
  <1>2. /\ N \in Nat /\ p.len \in 0 .. N /\ q.len \in Int /\ q.len <= N
    BY <1>1, BitsType, PrefixType DEF NoLength
  <1>3. /\ f \in 0 .. N
        /\ \A n \in 0 .. N - 1 : n < f => p.addr[n] = q.addr[n]
        /\ f # N => p.addr[f] # q.addr[f]
    BY <1>1, FbdFacts
  <1> HIDE DEF f, N
  <1>4. FirstBitDifferent(p, q) >= p.len <=>
          (Sized(p) /\ Sized(q) => p.len <= q.len) /\ f >= p.len
    BY <1>2, <1>3 DEF FirstBitDifferent, Lesser, Sized, f
  <1>5. f >= p.len <=> \A n \in 0 .. N - 1 : n < p.len => p.addr[n] = q.addr[n]
    BY <1>2, <1>3
  <1> QED
    BY <1>4, <1>5

LEMMA PrefixTransitive ==
    ASSUME NEW p \in Prefix, NEW q \in Prefix, NEW r \in Prefix,
           Sized(p), Sized(q), IsPrefix(p, q), IsPrefix(q, r)
    PROVE  IsPrefix(p, r)
  <1>1. p.len <= q.len /\ q.len <= Bits(p.ver) /\ p.ver = q.ver /\ q.ver = r.ver
    BY IsPrefixBits, PrefixType
  <1>2. Sized(r) => p.len <= r.len
    BY <1>1, IsPrefixBits, PrefixType
  <1>3. \A n \in 0 .. Bits(p.ver) - 1 : n < p.len => p.addr[n] = r.addr[n]
    <2> SUFFICES ASSUME NEW n \in 0 .. Bits(p.ver) - 1, n < p.len
                 PROVE  p.addr[n] = r.addr[n]
      OBVIOUS
    <2>1. n < q.len
      BY <1>1, PrefixType, BitsType
    <2> QED
      BY <2>1, <1>1, IsPrefixBits
  <1> QED
    BY <1>1, <1>2, <1>3, IsPrefixBits

LEMMA PrivateType == \A r \in Rfc1918 : r \in Prefix /\ Sized(r)
  <1>1. ASSUME NEW bits, NEW n \in 1 .. 32
        PROVE  Private(bits, n) \in Prefix /\ Sized(Private(bits, n))
    BY <1>1 DEF Private, Prefix, WithLengths, Addr, Bits, Sized
  <1> QED
    BY <1>1 DEF Rfc1918

LEMMA AllNest ==
    ASSUME NEW p \in Prefix, NEW q \in Prefix, Sized(p), Sized(q),
           IsPrefix(p, q)
    PROVE  /\ IsPrefix(q, p) => p.len = q.len
           /\ IsRfc1918(p) => IsRfc1918(q)
  <1>1. IsPrefix(q, p) => p.len = q.len
    BY IsPrefixBits, PrefixType
  <1>2. IsRfc1918(p) => IsRfc1918(q)
    BY PrivateType, PrefixTransitive DEF IsRfc1918
  <1> QED
    BY <1>1, <1>2

LEMMA AllFirst ==
    ASSUME NEW p \in Prefix, NEW q \in Prefix, p.ver = q.ver
    PROVE  IsFirstDifferent(p, q, FirstBitDifferent(p, q))
  <1> DEFINE N == Bits(p.ver)
             f == CFbd(p, q)
             g == FirstBitDifferent(p, q)
  <1>1. /\ N \in Nat /\ p.len \in Int /\ q.len \in Int
        /\ p.len <= N /\ q.len <= N
        /\ p.addr \in [0 .. N - 1 -> {0, 1}] /\ q.addr \in [0 .. N - 1 -> {0, 1}]
    BY BitsType, PrefixType DEF Addr
  <1>2. /\ f \in 0 .. N
        /\ \A n \in 0 .. N - 1 : n < f => p.addr[n] = q.addr[n]
        /\ f # N => p.addr[f] # q.addr[f]
    BY FbdFacts
  <1>3. /\ g \in Int /\ g >= 0 /\ g <= f
        /\ g = f \/ (Sized(p) /\ Sized(q) /\ g \in {p.len, q.len})
    BY <1>1, <1>2 DEF FirstBitDifferent, Lesser, Sized
  <1> HIDE DEF f, g
  <1>4. \A n \in 0 .. g - 1 : HasBitSet(p, n) = HasBitSet(q, n)
    <2> SUFFICES ASSUME NEW n \in 0 .. g - 1
                 PROVE  HasBitSet(p, n) = HasBitSet(q, n)
      OBVIOUS
    <2>1. n \in 0 .. N - 1 /\ p.addr[n] = q.addr[n]
      BY <1>1, <1>2, <1>3
    <2> QED
      BY <2>1 DEF HasBitSet
  <1>5. g = f /\ f # N => HasBitSet(p, g) # HasBitSet(q, g)
    <2> SUFFICES ASSUME g = f, f # N
                 PROVE  HasBitSet(p, g) # HasBitSet(q, g)
      OBVIOUS
    <2>1. /\ g \in 0 .. N - 1 /\ p.addr[g] # q.addr[g]
          /\ p.addr[g] \in {0, 1} /\ q.addr[g] \in {0, 1}
      BY <1>1, <1>2
    <2>2. HasBitSet(p, g) <=> p.addr[g] = 1
      BY <2>1, <1>1 DEF HasBitSet
    <2>3. HasBitSet(q, g) <=> q.addr[g] = 1
      BY <2>1, <1>1 DEF HasBitSet
    <2> QED
      BY <2>1, <2>2, <2>3 DEF HasBitSet
  <1> QED
    BY <1>3, <1>4, <1>5 DEF IsFirstDifferent, g

-----------------------------------------------------------------------------
(* Values that the actions store *)

LEMMA WithAddr ==
    ASSUME NEW p \in Prefix, NEW a \in Addr(p.ver)
    PROVE  /\ [p EXCEPT !.addr = a] \in Prefix
           /\ [p EXCEPT !.addr = a].ver = p.ver
           /\ [p EXCEPT !.addr = a].len = p.len
           /\ [p EXCEPT !.addr = a].addr = a
  BY DEF Prefix, WithLengths

LEMMA WithLen ==
    ASSUME NEW p \in Prefix, NEW n \in {NoLength} \cup 0 .. Bits(p.ver)
    PROVE  [p EXCEPT !.len = n] \in Prefix
  BY DEF Prefix, WithLengths, Bits

LEMMA GivenPrefix ==
    ASSUME NEW g \in Strings \cup Arrays
    PROVE  \A n \in {NoLength} \cup 0 .. Bits(g.ver) :
             [g EXCEPT !.len = n] \in Prefix /\ (g.len = n => g \in Prefix)
  <1>1. g \in WithLengths(4, Int) \cup WithLengths(6, Int)
    BY IpPrefixAssumption
  <1> QED
    BY <1>1 DEF Prefix, WithLengths, Bits

LEMMA MaskFacts ==
    ASSUME NEW v, NEW a \in Addr(v), NEW n \in Int
    PROVE  /\ Masked(a, n) \in Addr(v) /\ Spoiled(a, n) \in Addr(v)
           /\ \A b \in 0 .. Bits(v) - 1 :
                b < n => Masked(a, n)[b] = a[b] /\ Spoiled(a, n)[b] = a[b]
  <1>1. DOMAIN a = 0 .. Bits(v) - 1 /\ a \in [0 .. Bits(v) - 1 -> {0, 1}]
    BY DEF Addr
  <1>2. Masked(a, n) \in Addr(v) /\ Spoiled(a, n) \in Addr(v)
    BY <1>1 DEF Addr, Masked, Spoiled
  <1>3. ASSUME NEW b \in 0 .. Bits(v) - 1, b < n
        PROVE  Masked(a, n)[b] = a[b] /\ Spoiled(a, n)[b] = a[b]
    <2>1. b \in Nat /\ n > 0 /\ ~(b \div 8 > Octet(n))
      BY <1>3, BitsType DEF Octet
    <2> QED
      BY <2>1, <1>1, <1>3 DEF Masked, Spoiled
  <1> QED
    BY <1>2, <1>3

LEMMA PutFacts ==
    ASSUME NEW S, NEW s \in Seq(S), NEW i \in DOMAIN s, NEW e \in S
    PROVE  /\ [s EXCEPT ![i] = e] \in Seq(S)
           /\ DOMAIN [s EXCEPT ![i] = e] = DOMAIN s
           /\ Len([s EXCEPT ![i] = e]) = Len(s)
           /\ [s EXCEPT ![i] = e][i] = e
           /\ \A j \in DOMAIN s \ {i} : [s EXCEPT ![i] = e][j] = s[j]
  OBVIOUS

LEMMA AppendFacts ==
    ASSUME NEW S, NEW s \in Seq(S), NEW e \in S
    PROVE  /\ Append(s, e) \in Seq(S) /\ Len(Append(s, e)) = Len(s) + 1
           /\ DOMAIN s \subseteq DOMAIN Append(s, e)
           /\ Append(s, e)[Len(s) + 1] = e
           /\ \A j \in DOMAIN s : Append(s, e)[j] = s[j]
  OBVIOUS

\* What is written to the octets of object i.
LEMMA WrittenFacts ==
    ASSUME TypeOK, NEW i \in Objects, NEW a \in Addr(objs[i].ver)
    PROVE  /\ Written(i, a) \in Seq(Prefix)
           /\ DOMAIN Written(i, a) = Objects /\ Len(Written(i, a)) = Len(objs)
           /\ \A j \in Sharers(i) :
                /\ j \in Objects /\ objs[j] \in Prefix
                /\ objs[j].ver = objs[i].ver /\ objs[j].addr = objs[i].addr
                /\ Written(i, a)[j] \in Prefix
                /\ Written(i, a)[j].ver = objs[j].ver
                /\ Written(i, a)[j].len = objs[j].len
                /\ Written(i, a)[j].addr = a
           /\ \A j \in Objects \ Sharers(i) : Written(i, a)[j] = objs[j]
           /\ i \in Sharers(i) /\ Sharers(i) \subseteq Objects
  <1> DEFINE w == Written(i, a)
  <1>1. objs \in Seq(Prefix) /\ i \in DOMAIN objs
    BY DEF TypeOK, Objects
  <1>2. i \in Sharers(i) /\ Sharers(i) \subseteq Objects
    BY <1>1 DEF Sharers, Objects
  <1>3. \A j \in Sharers(i) :
          /\ j \in Objects /\ objs[j] \in Prefix
          /\ objs[j].ver = objs[i].ver /\ objs[j].addr = objs[i].addr
    BY <1>1, <1>2 DEF TypeOK, Shared, Sharers, Objects
  <1>4. DOMAIN w = Objects
    BY DEF Written, Objects
  <1>5. \A j \in Sharers(i) : w[j] = [objs[j] EXCEPT !.addr = a]
    BY <1>2 DEF Written, Objects
  <1>6. \A j \in Objects \ Sharers(i) : w[j] = objs[j]
    BY DEF Written, Objects
  <1> HIDE DEF w
  <1>7. \A j \in Sharers(i) :
          /\ w[j] \in Prefix /\ w[j].ver = objs[j].ver
          /\ w[j].len = objs[j].len /\ w[j].addr = a
    <2> SUFFICES ASSUME NEW j \in Sharers(i)
                 PROVE  /\ w[j] \in Prefix /\ w[j].ver = objs[j].ver
                        /\ w[j].len = objs[j].len /\ w[j].addr = a
      OBVIOUS
    <2>1. objs[j] \in Prefix /\ a \in Addr(objs[j].ver)
      BY <1>3
    <2>2. w[j] = [objs[j] EXCEPT !.addr = a]
      BY <1>5
    <2> QED
      BY <2>1, <2>2, WithAddr
  <1>8. \A j \in Objects : w[j] \in Prefix
    BY <1>1, <1>6, <1>7 DEF Objects
  <1>9. w \in Seq(Prefix) /\ Len(w) = Len(objs)
    <2>1. Len(objs) \in Nat /\ Objects = 1 .. Len(objs)
      BY <1>1 DEF Objects
    <2>2. w = [j \in 1 .. Len(objs) |-> w[j]]
      BY <2>1, <1>4 DEF w, Written
    <2>3. w \in [1 .. Len(objs) -> Prefix]
      BY <2>1, <2>2, <1>8
    <2> QED
      BY <2>1, <2>3
  <1> QED
    BY <1>2, <1>3, <1>4, <1>6, <1>7, <1>9 DEF w

-----------------------------------------------------------------------------
(* The steps on objects *)

\* What a step that is not an addition does to the keys.
ObjectStep ==
    /\ objs' \in Seq(Prefix) /\ Objects \subseteq Objects'
    /\ octets' \in [Objects' -> Objects'] /\ packet' \subseteq Objects'
    /\ Shared'
    /\ table' = table /\ added' = added
    /\ changed \subseteq changed' /\ changed' \subseteq Objects'
    /\ alive' \in BOOLEAN
    /\ \A e \in table : e.key \notin changed' => objs'[e.key] = objs[e.key]

\* Octets that are shared hold one address.
Alike(os) ==
    \A i, j \in Objects :
        octets[i] = octets[j] => os[i].ver = os[j].ver /\ os[i].addr = os[j].addr

\* What is written is written for all that have the octets.
LEMMA WrittenAlike ==
    ASSUME TypeOK, NEW i \in Objects, NEW a \in Addr(objs[i].ver)
    PROVE  Alike(Written(i, a))
  <1> SUFFICES ASSUME NEW j \in Objects, NEW k \in Objects,
                      octets[j] = octets[k]
               PROVE  /\ Written(i, a)[j].ver = Written(i, a)[k].ver
                      /\ Written(i, a)[j].addr = Written(i, a)[k].addr
    BY DEF Alike
  <1>1. j \in Sharers(i) <=> k \in Sharers(i)
    BY DEF Sharers, Objects
  <1>2. objs[j].ver = objs[k].ver /\ objs[j].addr = objs[k].addr
    BY DEF TypeOK, Shared
  <1>3. CASE j \in Sharers(i)
    <2>1. k \in Sharers(i)
      BY <1>1, <1>3
    <2> QED
      BY <1>2, <1>3, <2>1, WrittenFacts
  <1>4. CASE j \notin Sharers(i)
    <2>1. j \in Objects \ Sharers(i) /\ k \in Objects \ Sharers(i)
      BY <1>1, <1>4
    <2>2. Written(i, a)[j] = objs[j] /\ Written(i, a)[k] = objs[k]
      BY <2>1, WrittenFacts
    <2> QED
      BY <1>2, <2>2
  <1> QED
    BY <1>3, <1>4

LEMMA AppendedShares ==
    ASSUME TypeOK, NEW mid \in Seq(Prefix), DOMAIN mid = Objects, Alike(mid),
           NEW p \in Prefix, NEW o,
           \/ o = Itself
           \/ \E i \in Objects :
                o = octets[i] /\ p.ver = mid[i].ver /\ p.addr = mid[i].addr,
           objs' = Append(mid, p), octets' = Append(octets, o)
    PROVE  /\ objs' \in Seq(Prefix) /\ Objects' = Objects \cup {Itself}
           /\ Itself \notin Objects /\ Itself = Len(objs')
           /\ octets' \in [Objects' -> Objects'] /\ Shared'
           /\ \A j \in Objects : objs'[j] = mid[j] /\ octets'[j] = octets[j]
           /\ objs'[Itself] = p /\ octets'[Itself] = o
  <1>1. /\ objs \in Seq(Prefix) /\ octets \in [Objects -> Objects]
        /\ Len(objs) \in Nat /\ Objects = 1 .. Len(objs)
    BY DEF TypeOK, Objects
  <1>2. octets \in Seq(Objects) /\ Len(octets) = Len(objs) /\ Len(mid) = Len(objs)
    BY <1>1
  <1>3. /\ objs' \in Seq(Prefix) /\ Objects' = Objects \cup {Itself}
        /\ Itself = Len(objs') /\ Itself \notin Objects /\ Itself \in Nat
        /\ \A j \in Objects : objs'[j] = mid[j]
        /\ objs'[Itself] = p
    BY <1>1, <1>2, AppendFacts DEF Objects, Itself
  <1>4. o \in Objects'
    BY <1>1, <1>3
  <1>5. /\ \A j \in Objects : octets'[j] = octets[j]
        /\ octets'[Itself] = o /\ DOMAIN octets' = Objects'
        /\ octets' = [j \in Objects' |-> octets'[j]]
    <2>1. octets \in Seq(Objects') /\ DOMAIN octets = Objects
      <3>1. octets \in [1 .. Len(objs) -> Objects']
        BY <1>1, <1>3
      <3>2. ASSUME NEW n \in Nat, NEW S, NEW f \in [1 .. n -> S]
            PROVE  f \in Seq(S) /\ DOMAIN f = 1 .. n
        OBVIOUS
      <3> QED
        BY <3>1, <3>2, <1>1
    <2>2. /\ octets' \in Seq(Objects') /\ Len(octets') = Len(objs) + 1
          /\ octets'[Len(objs) + 1] = o
          /\ \A j \in Objects : octets'[j] = octets[j]
      BY <2>1, <1>2, <1>4, AppendFacts
    <2>3. DOMAIN octets' = 1 .. Len(objs) + 1
      BY <2>2
    <2>4. DOMAIN octets' = Objects'
      BY <2>3, <1>1, <1>3 DEF Itself
    <2>5. octets' = [j \in DOMAIN octets' |-> octets'[j]]
      <3>1. \A S : \A q \in Seq(S) : q = [j \in DOMAIN q |-> q[j]]
        OBVIOUS
      <3> QED
        BY <2>2, <3>1
    <2> QED
      BY <2>2, <2>4, <2>5 DEF Itself
  <1>6. octets' \in [Objects' -> Objects']
    BY <1>1, <1>3, <1>4, <1>5
  <1>7. ASSUME NEW i \in Objects', NEW j \in Objects', octets'[i] = octets'[j]
        PROVE  objs'[i].ver = objs'[j].ver /\ objs'[i].addr = objs'[j].addr
    BY <1>1, <1>3, <1>5, <1>7 DEF Alike
  <1> QED
    BY <1>3, <1>5, <1>6, <1>7 DEF Shared

LEMMA MadeStep ==
    ASSUME TypeOK, NEW p \in Prefix, NEW o, Made(p, o), NoDict,
           \/ o = Itself
           \/ \E i \in Objects :
                o = octets[i] /\ p.ver = objs[i].ver /\ p.addr = objs[i].addr,
           packet' \subseteq Objects', UNCHANGED <<changed, alive>>
    PROVE  ObjectStep
  <1>1. /\ objs \in Seq(Prefix) /\ DOMAIN objs = Objects /\ Alike(objs)
        /\ objs' = Append(objs, p) /\ octets' = Append(octets, o)
    BY DEF TypeOK, Made, Alike, Shared, Objects
  <1>2. /\ objs' \in Seq(Prefix) /\ Objects \subseteq Objects'
        /\ octets' \in [Objects' -> Objects'] /\ Shared'
        /\ \A j \in Objects : objs'[j] = objs[j]
    BY <1>1, AppendedShares
  <1>3. \A e \in table : e.key \in Objects
    BY DEF TypeOK
  <1> QED
    BY <1>2, <1>3 DEF TypeOK, ObjectStep, NoDict

LEMMA RaisesStep ==
    ASSUME TypeOK, Raises, NoDict, packet' = packet PROVE ObjectStep
  BY DEF TypeOK, Raises, NoDict, ObjectStep, Objects, Shared

\* The objects of S change, and perhaps one is appended.
LEMMA PutStep ==
    ASSUME TypeOK, NEW S \in SUBSET Objects, NEW mid \in Seq(Prefix),
           DOMAIN mid = Objects, Alike(mid),
           \A j \in Objects \ S : mid[j] = objs[j],
           Changes(S), NoDict, packet' = packet, alive' \in BOOLEAN,
           \/ objs' = mid /\ octets' = octets
           \/ \E q \in Prefix :
                objs' = Append(mid, q) /\ octets' = Append(octets, Itself)
    PROVE  ObjectStep
  <1>1. /\ objs' \in Seq(Prefix) /\ Objects \subseteq Objects'
        /\ octets' \in [Objects' -> Objects'] /\ Shared'
        /\ \A j \in Objects : objs'[j] = mid[j]
    <2>1. CASE objs' = mid /\ octets' = octets
      <3>1. Objects' = Objects
        BY <2>1 DEF Objects
      <3> QED
        BY <2>1, <3>1 DEF TypeOK, Shared, Alike
    <2>2. CASE \E q \in Prefix :
                 objs' = Append(mid, q) /\ octets' = Append(octets, Itself)
      BY <2>2, AppendedShares
    <2> QED
      BY <2>1, <2>2
  <1>2. /\ changed' = changed \cup (S \cap {e.key : e \in table})
        /\ changed \subseteq Objects /\ packet \subseteq Objects
        /\ \A e \in table : e.key \in Objects
    BY DEF TypeOK, Changes
  <1>3. /\ changed \subseteq changed' /\ changed' \subseteq Objects'
        /\ \A e \in table : e.key \notin changed' => objs'[e.key] = objs[e.key]
    BY <1>1, <1>2
  <1> QED
    BY <1>1, <1>2, <1>3 DEF ObjectStep, NoDict

\* The octets of object i are written, and perhaps one is appended.
LEMMA WrittenStep ==
    ASSUME TypeOK, NEW i \in Objects, NEW a \in Addr(objs[i].ver),
           Changes(Sharers(i)), NoDict, packet' = packet, alive' = alive,
           \/ objs' = Written(i, a) /\ octets' = octets
           \/ \E q \in Prefix : /\ objs' = Append(Written(i, a), q)
                                /\ octets' = Append(octets, Itself)
    PROVE  ObjectStep
  <1>1. /\ Written(i, a) \in Seq(Prefix) /\ DOMAIN Written(i, a) = Objects
        /\ \A j \in Objects \ Sharers(i) : Written(i, a)[j] = objs[j]
        /\ Sharers(i) \in SUBSET Objects
    BY WrittenFacts
  <1>2. Alike(Written(i, a))
    BY WrittenAlike
  <1>3. alive' \in BOOLEAN
    BY DEF TypeOK
  <1> HIDE DEF Sharers
  <1> QED
    BY <1>1, <1>2, <1>3, PutStep

LEMMA GivenStep ==
    ASSUME TypeOK, NEW g, NEW o, IPprefix(g, o),
           \A n \in {NoLength} \cup 0 .. Bits(g.ver) : g.len = n => g \in Prefix,
           \/ o = Itself
           \/ \E i \in Objects :
                o = octets[i] /\ g.ver = objs[i].ver /\ g.addr = objs[i].addr,
           packet' \subseteq packet \cup (Objects' \ Objects)
    PROVE  ObjectStep
  <1>1. packet \subseteq Objects
    BY DEF TypeOK
  <1>2. CASE g.len \in {NoLength} \cup 0 .. Bits(g.ver)
    <2>1. g \in Prefix /\ Made(g, o) /\ NoDict /\ UNCHANGED <<changed, alive>>
      BY <1>2 DEF IPprefix
    <2>2. Objects \subseteq Objects'
      BY <2>1, AppendFacts DEF Made, TypeOK, Objects
    <2>3. packet' \subseteq Objects'
      BY <2>2, <1>1
    <2> QED
      BY <2>1, <2>3, MadeStep
  <1>3. CASE g.len \notin {NoLength} \cup 0 .. Bits(g.ver)
    <2>1. Raises /\ NoDict
      BY <1>3 DEF IPprefix
    <2>2. packet' \subseteq Objects'
      BY <2>1, <1>1 DEF Raises, Objects
    <2> QED
      BY <2>1, <2>2 DEF TypeOK, Raises, NoDict, ObjectStep, Objects, Shared
  <1> QED
    BY <1>2, <1>3

LEMMA NewPrefixStep ==
    ASSUME TypeOK,
           \/ \E g \in Arrays : OfBytearray(g) \/ OfPacket(g)
           \/ \E g \in Strings : FromS(g)
    PROVE  ObjectStep
  <1>1. ASSUME NEW g \in Arrays, OfBytearray(g) \/ OfPacket(g) PROVE ObjectStep
    <2>1. /\ IPprefix(g, Itself)
          /\ packet' \subseteq packet \cup (Objects' \ Objects)
      BY <1>1 DEF OfBytearray, OfPacket, Objects
    <2>2. \A n \in {NoLength} \cup 0 .. Bits(g.ver) : g.len = n => g \in Prefix
      BY GivenPrefix
    <2> QED
      BY <2>1, <2>2, GivenStep
  <1>2. ASSUME NEW g \in Strings, FromS(g) PROVE ObjectStep
    <2>0. packet' = packet /\ packet \subseteq Objects
      BY <1>2 DEF FromS, TypeOK
    <2>1. ASSUME NEW p \in Prefix, Made(p, Itself), NoDict,
                 UNCHANGED <<changed, alive>>
          PROVE  ObjectStep
      <3>1. Objects \subseteq Objects'
        BY <2>1, AppendFacts DEF Made, TypeOK, Objects
      <3> QED
        BY <2>0, <2>1, <3>1, MadeStep
    <2>2. CASE g.len \in {NoLength, 0}
      <3>1. [g EXCEPT !.len = NoLength] \in Prefix
        BY GivenPrefix
      <3>2. Made([g EXCEPT !.len = NoLength], Itself) /\ NoDict
            /\ UNCHANGED <<changed, alive>>
        BY <2>2, <1>2, BitsType DEF FromS, NoLength
      <3> QED
        BY <2>1, <3>1, <3>2
    <2>3. CASE g.len \in 1 .. Bits(g.ver)
      <3>1. g.len \in {NoLength} \cup 0 .. Bits(g.ver)
        BY <2>3, BitsType
      <3>2. g \in Prefix
        BY <3>1, GivenPrefix
      <3>3. Made(g, Itself) /\ NoDict /\ UNCHANGED <<changed, alive>>
        BY <2>3, <1>2, BitsType DEF FromS, NoLength
      <3> QED
        BY <2>1, <3>2, <3>3
    <2>4. CASE g.len \notin {NoLength} \cup 0 .. Bits(g.ver)
      <3>1. Raises /\ NoDict
        BY <2>4, <1>2, BitsType DEF FromS, NoLength
      <3> QED
        BY <2>0, <3>1, RaisesStep
    <2> QED
      BY <2>2, <2>3, <2>4, <1>2 DEF FromS
  <1> QED
    BY <1>1, <1>2

\* Of the address of another object, of whose octets it has.
LEMMA OfAddrStep ==
    ASSUME TypeOK, NEW i \in Objects, NEW n \in Int, OfAddr(i, n)
    PROVE  ObjectStep
  <1> DEFINE g == [objs[i] EXCEPT !.len = n]
  <1>1. objs[i] \in Prefix
    BY DEF TypeOK, Objects
  <1>2. g.ver = objs[i].ver /\ g.addr = objs[i].addr /\ g.len = n
    BY <1>1 DEF Prefix, WithLengths
  <1>3. n \in {NoLength} \cup 0 .. Bits(objs[i].ver) => g \in Prefix
    BY <1>1, WithLen
  <1>4. IPprefix(g, octets[i]) /\ packet' = packet
    BY DEF OfAddr
  <1> HIDE DEF g
  <1>5. \A m \in {NoLength} \cup 0 .. Bits(g.ver) : g.len = m => g \in Prefix
    BY <1>2, <1>3
  <1> QED
    BY <1>2, <1>4, <1>5, GivenStep

\* The prefix that network() makes.
LEMMA MaskedPrefix ==
    ASSUME NEW p \in Prefix, NEW n \in 0 .. Bits(p.ver) - 1
    PROVE  LET new == [p EXCEPT !.addr = Masked(@, n), !.len = n]
           IN  /\ new \in Prefix /\ new.ver = p.ver /\ new.len = n
               /\ new.addr = Masked(p.addr, n)
  <1> DEFINE mid == [p EXCEPT !.addr = Masked(@, n)]
             new == [p EXCEPT !.addr = Masked(@, n), !.len = n]
  <1>1. p.addr \in Addr(p.ver) /\ n \in Int /\ n \in 0 .. Bits(p.ver)
    BY PrefixType, BitsType
  <1>2. mid \in Prefix /\ mid.ver = p.ver
    BY <1>1, MaskFacts, WithAddr
  <1>3. /\ new = [mid EXCEPT !.len = n]
        /\ new.ver = p.ver /\ new.len = n /\ new.addr = Masked(p.addr, n)
    BY DEF Prefix, WithLengths
  <1> HIDE DEF mid, new
  <1>4. new \in Prefix
    BY <1>1, <1>2, <1>3, WithLen
  <1> QED
    BY <1>3, <1>4 DEF new

LEMMA NetworkStep ==
    ASSUME TypeOK, NEW i \in Objects, NEW n \in Int, Network(i, n)
    PROVE  ObjectStep
  <1> DEFINE a == Spoiled(objs[i].addr, n)
             new == [objs[i] EXCEPT !.addr = Masked(@, n), !.len = n]
  <1>1. objs[i] \in Prefix /\ objs[i].addr \in Addr(objs[i].ver)
    BY PrefixType DEF TypeOK, Objects
  <1>2. a \in Addr(objs[i].ver) /\ NoDict /\ packet' = packet
    BY <1>1, MaskFacts DEF Network
  <1>3. AfterNetwork(i, n) = Written(i, a)
    BY DEF AfterNetwork
  <1>4. CASE n \in 0 .. Bits(objs[i].ver) - 1
    <2>1. new \in Prefix
      BY <1>1, <1>4, MaskedPrefix
    <2>2. /\ objs' = Append(Written(i, a), new)
          /\ octets' = Append(octets, Itself)
          /\ Changes(Sharers(i)) /\ alive' = alive
      BY <1>3, <1>4, BitsType DEF Network
    <2> HIDE DEF a, new
    <2> QED
      BY <2>1, <2>2, <1>2, WrittenStep
  <1>5. CASE n \in -7 .. -1
    <2>1. /\ objs' = Written(i, a) /\ octets' = octets
          /\ Changes(Sharers(i)) /\ alive' = alive
      BY <1>3, <1>5, BitsType DEF Network
    <2> HIDE DEF a
    <2> QED
      BY <2>1, <1>2, WrittenStep
  <1>6. CASE n <= -8 \/ n >= Bits(objs[i].ver)
    <2>1. /\ alive' = FALSE /\ UNCHANGED <<objs, octets, changed>> /\ NoDict
          /\ packet' = packet
      BY <1>6, BitsType DEF Network
    <2> QED
      BY <2>1 DEF TypeOK, ObjectStep, NoDict, Objects, Shared
  <1> QED
    BY <1>4, <1>5, <1>6, BitsType

LEMMA PacketWrittenStep ==
    ASSUME TypeOK, NEW i \in Objects, NEW g \in Arrays, PacketWritten(i, g)
    PROVE  ObjectStep
  <1>1. g.addr \in Addr(g.ver)
    BY IpPrefixAssumption DEF WithLengths
  <1>2. /\ g.ver = objs[i].ver /\ objs' = Written(i, g.addr)
        /\ Changes(Sharers(i)) /\ NoDict
        /\ UNCHANGED <<octets, packet, alive>>
    BY DEF PacketWritten
  <1> QED
    BY <1>1, <1>2, WrittenStep

LEMMA SetLengthStep ==
    ASSUME TypeOK, NEW i \in Objects, NEW n \in Int, SetLength(i, n)
    PROVE  ObjectStep
  <1> DEFINE p == [objs[i] EXCEPT !.len = n]
             put == [objs EXCEPT ![i] = p]
  <1>1. CASE n \in 1 .. Bits(objs[i].ver)
    <2>1. objs[i] \in Prefix /\ objs \in Seq(Prefix) /\ i \in DOMAIN objs
      BY DEF TypeOK, Objects
    <2>2. p \in Prefix /\ p.ver = objs[i].ver /\ p.addr = objs[i].addr
      <3>1. p.ver = objs[i].ver /\ p.addr = objs[i].addr
        BY <2>1 DEF Prefix, WithLengths
      <3> QED
        BY <1>1, <2>1, <3>1, WithLen, BitsType
    <2>3. /\ objs' = put /\ octets' = octets
          /\ Changes({i}) /\ NoDict /\ packet' = packet /\ alive' \in BOOLEAN
      BY <1>1 DEF SetLength, TypeOK
    <2> HIDE DEF p
    <2>4. /\ put \in Seq(Prefix) /\ DOMAIN put = Objects
          /\ \A j \in Objects \ {i} : put[j] = objs[j]
          /\ \A j \in Objects :
               put[j].ver = objs[j].ver /\ put[j].addr = objs[j].addr
      BY <2>1, <2>2, PutFacts DEF Objects
    <2> HIDE DEF put
    <2>5. Alike(put)
      BY <2>4 DEF Alike, TypeOK, Shared
    <2> QED
      BY <2>3, <2>4, <2>5, PutStep
  <1>2. CASE n \notin 1 .. Bits(objs[i].ver)
    BY <1>2, RaisesStep DEF SetLength
  <1> QED
    BY <1>1, <1>2

LEMMA ComplementStep ==
    ASSUME TypeOK, NEW i \in Objects, Complement(i)
    PROVE  ObjectStep
  <1> DEFINE a == [j \in DOMAIN objs[i].addr |-> 1 - objs[i].addr[j]]
             new == [objs[i] EXCEPT !.addr = a]
  <1>1. CASE objs[i].len # NoLength
    <2>1. objs[i] \in Prefix /\ objs[i].addr \in Addr(objs[i].ver)
      BY PrefixType DEF TypeOK, Objects
    <2>2. a \in Addr(objs[i].ver)
      <3>1. \A N : \A b \in [N -> {0, 1}] :
              [j \in DOMAIN b |-> 1 - b[j]] \in [N -> {0, 1}]
        OBVIOUS
      <3> QED
        BY <3>1, <2>1 DEF Addr
    <2>3. new \in Prefix
      BY <2>1, <2>2, WithAddr
    <2>4. /\ Made(new, Itself) /\ NoDict /\ UNCHANGED <<changed, alive>>
          /\ packet' = packet
      BY <1>1 DEF Complement
    <2> HIDE DEF new
    <2>5. packet' \subseteq Objects'
      BY <2>4, AppendFacts DEF Made, TypeOK, Objects
    <2> QED
      BY <2>3, <2>4, <2>5, MadeStep
  <1>2. CASE objs[i].len = NoLength
    BY <1>2, RaisesStep DEF Complement
  <1> QED
    BY <1>1, <1>2

-----------------------------------------------------------------------------
(* The dictionaries *)

\* Inductive: a key that was not changed is filed under the hash it has.
Filed ==
    /\ \A e \in table : e.hash \in DOMAIN added
    /\ \A e \in table : e.key \notin changed => e.hash = Hash(objs[e.key])

IInv == TypeOK /\ Filed /\ CountedOnce

LEMMA InitIInv == Init => IInv
  <1> SUFFICES ASSUME Init PROVE IInv
    OBVIOUS
  <1>1. objs \in Seq(Prefix) /\ DOMAIN added = {} /\ table = {} /\ changed = {}
    BY DEF Init
  <1>2. added \in [DOMAIN added -> Nat]
    BY DEF Init
  <1>3. Objects = {} /\ octets \in [Objects -> Objects]
    BY DEF Init, Objects
  <1> QED
    BY <1>1, <1>2, <1>3 DEF Init, IInv, Shared, TypeOK, Filed, CountedOnce

LEMMA ObjectStepIInv == IInv /\ ObjectStep /\ calls' \in Nat => IInv'
  <1> SUFFICES ASSUME IInv, ObjectStep, calls' \in Nat PROVE IInv'
    OBVIOUS
  <1>1. TypeOK'
    <2>1. \A e \in table' :
            e \in [key : Objects', hash : Key, count : Nat \ {0}]
      BY DEF IInv, TypeOK, ObjectStep
    <2> QED
      BY <2>1 DEF IInv, TypeOK, ObjectStep
  <1>2. Filed'
    <2>1. \A e \in table :
            e.key \notin changed' => e.hash = Hash(objs'[e.key])
      BY DEF IInv, Filed, ObjectStep
    <2> QED
      BY <2>1 DEF IInv, Filed, ObjectStep, Hash, Sized
  <1>3. CountedOnce'
    BY DEF IInv, CountedOnce, ObjectStep
  <1> QED
    BY <1>1, <1>2, <1>3 DEF IInv

LEMMA HashType == \A p \in Prefix : Hash(p) \in Key
  <1> SUFFICES ASSUME NEW p \in Prefix PROVE Hash(p) \in Key
    OBVIOUS
  <1>1. /\ p.addr \in Addr(4) \cup Addr(6) /\ p.ver \in {4, 6}
        /\ p.len \in Int /\ p.len <= 128
    BY PrefixType, BitsType
  <1> QED
    BY <1>1 DEF Hash, Key, Sized

\* An unchanged key with the hash of object i is found.
LEMMA LookupFinds ==
    ASSUME IInv, NEW i \in Objects, NEW e \in table, e.key \notin changed,
           e.hash = Hash(objs[i])
    PROVE  Finds(e, i)
  <1>1. Hash(objs[e.key]) = Hash(objs[i])
    BY DEF IInv, Filed
  <1>2. objs[e.key] \in Prefix /\ objs[i] \in Prefix
    BY DEF IInv, TypeOK, Objects
  <1>3. objs[e.key].ver = objs[i].ver
    BY <1>1 DEF Hash
  <1>4. Cmp(objs[e.key], objs[i]) = 0
    BY <1>1, <1>2, <1>3, AllOrdered DEF Ordered
  <1> QED
    BY <1>4 DEF Finds

LEMMA AddStep ==
    ASSUME IInv, NEW i \in Objects, AddToIph(i), calls' \in Nat
    PROVE  IInv'
  <1> DEFINE H == Hash(objs[i])
             new == [key |-> i, hash |-> H, count |-> 1]
             more(e) == [e EXCEPT !.count = @ + 1]
             E == [key : Objects, hash : Key, count : Nat \ {0}]
  <1>1. /\ objs' = objs /\ changed' = changed /\ alive' = alive
        /\ octets' = octets /\ packet' = packet
        /\ DOMAIN added' = DOMAIN added \cup {H}
        /\ \A h \in DOMAIN added \ {H} : added'[h] = added[h]
        /\ added'[H] = AddsOf(H) + 1
    <2>1. added' = [h \in DOMAIN added \cup {H} |->
                      AddsOf(h) + IF h = H THEN 1 ELSE 0]
      BY DEF AddToIph
    <2>2. \A h \in DOMAIN added \ {H} : added'[h] = AddsOf(h) + 0
      BY <2>1
    <2>3. \A h \in DOMAIN added : AddsOf(h) = added[h] /\ added[h] \in Nat
      BY DEF AddsOf, IInv, TypeOK
    <2> QED
      BY <2>1, <2>2, <2>3 DEF AddToIph
  <1>2. H \in Key /\ \A e \in table : e \in E
    BY HashType DEF IInv, TypeOK, Objects
  <1>3. AddsOf(H) \in Nat
    BY DEF AddsOf, IInv, TypeOK
  <1>4. added' \in [DOMAIN added' -> Nat] /\ DOMAIN added' \subseteq Key
    <2>1. \A h \in DOMAIN added' : added'[h] \in Nat
      BY <1>1, <1>3 DEF IInv, TypeOK
    <2>2. added' = [h \in DOMAIN added' |-> added'[h]]
      BY DEF AddToIph
    <2> QED
      BY <2>1, <2>2, <1>1, <1>2 DEF IInv, TypeOK
  <1>5. /\ Objects' = Objects /\ Shared'
        /\ octets' \in [Objects' -> Objects'] /\ packet' \subseteq Objects'
    BY <1>1 DEF Objects, Shared, IInv, TypeOK
  <1>6. CASE \E e \in table : Finds(e, i) /\
               table' = (table \ {e}) \cup {more(e)}
    <2>1. PICK e \in table : Finds(e, i) /\
                 table' = (table \ {e}) \cup {more(e)}
      BY <1>6
    <2>2. /\ more(e) \in E /\ more(e).key = e.key /\ more(e).hash = H
          /\ e.hash = H /\ more(e).count = e.count + 1
      BY <2>1, <1>2 DEF Finds
    <2> HIDE DEF more, H
    <2>3. \A f \in table' : f \in E
      BY <2>1, <2>2, <1>2
    <2>4. TypeOK'
      BY <2>3, <1>1, <1>4, <1>5 DEF IInv, TypeOK
    <2>5. \A f \in table' : \E g \in table : f.key = g.key /\ f.hash = g.hash
      BY <2>1, <2>2
    <2>6. Filed'
      <3>1. \A f \in table' : f.hash \in DOMAIN added'
        BY <2>5, <1>1 DEF IInv, Filed
      <3>2. \A f \in table' :
              f.key \notin changed' => f.hash = Hash(objs'[f.key])
        BY <2>5, <1>1 DEF IInv, Filed
      <3> QED
        BY <3>1, <3>2, <1>1 DEF Filed, Hash, Sized
    <2>7. \A g \in table :
            \E f \in table' : f.key = g.key /\ f.hash = g.hash
      BY <2>1, <2>2
    <2>8. CountedOnce'
      <3> SUFFICES ASSUME NEW h \in DOMAIN added',
                          \A f \in table' : f.hash = h => f.key \notin changed
                   PROVE  \E f \in table' :
                            /\ f.hash = h /\ f.count = added'[h]
                            /\ \A g \in table' : g.hash = h => g = f
        BY <1>1 DEF CountedOnce
      <3>1. \A g \in table : g.hash = h => g.key \notin changed
        BY <2>7
      <3>2. h \in DOMAIN added
        BY <2>1, <2>2, <1>1 DEF IInv, Filed
      <3>3. PICK f \in table : /\ f.hash = h /\ f.count = added[h]
                               /\ \A g \in table : g.hash = h => g = f
        BY <3>1, <3>2 DEF IInv, CountedOnce
      <3>4. CASE h = H
        <4>1. f = e
          BY <3>3, <3>4, <2>2
        <4>2. more(e).count = added'[h]
          BY <4>1, <3>2, <3>3, <3>4, <2>2, <1>1 DEF AddsOf
        <4>3. \A g \in table' : g.hash = h => g = more(e)
          BY <4>1, <3>3, <2>1
        <4> QED
          BY <4>2, <4>3, <3>4, <2>1, <2>2
      <3>5. CASE h # H
        <4>1. f \in table' /\ f.count = added'[h]
          BY <3>2, <3>3, <3>5, <2>1, <2>2, <1>1
        <4>2. \A g \in table' : g.hash = h => g = f
          BY <3>3, <3>5, <2>1, <2>2
        <4> QED
          BY <4>1, <4>2, <3>3
      <3> QED
        BY <3>4, <3>5
    <2> QED
      BY <2>4, <2>6, <2>8 DEF IInv
  <1>7. CASE (\A e \in table : ~Finds(e, i)) /\ table' = table \cup {new}
    <2>1. new \in E /\ new.key = i /\ new.hash = H /\ new.count = 1
      BY <1>2
    <2>2. table' = table \cup {new}
      BY <1>7
    <2>3. \A e \in table : e.key \notin changed => e.hash # H
      BY <1>7, LookupFinds
    <2> HIDE DEF new
    <2>4. TypeOK'
      <3>1. \A f \in table' : f \in E
        BY <2>1, <2>2, <1>2
      <3> QED
        BY <3>1, <1>1, <1>4, <1>5 DEF IInv, TypeOK
    <2>5. Filed'
      <3>1. \A f \in table' : f.hash \in DOMAIN added'
        BY <2>1, <2>2, <1>1 DEF IInv, Filed
      <3>2. \A f \in table' :
              f.key \notin changed' => f.hash = Hash(objs'[f.key])
        BY <2>1, <2>2, <1>1 DEF IInv, Filed
      <3> QED
        BY <3>1, <3>2, <1>1 DEF Filed, Hash, Sized
    <2> HIDE DEF H
    <2>6. CountedOnce'
      <3> SUFFICES ASSUME NEW h \in DOMAIN added',
                          \A f \in table' : f.hash = h => f.key \notin changed
                   PROVE  \E f \in table' :
                            /\ f.hash = h /\ f.count = added'[h]
                            /\ \A g \in table' : g.hash = h => g = f
        BY <1>1 DEF CountedOnce
      <3>1. \A g \in table : g.hash = h => g.key \notin changed
        BY <2>2
      <3>2. CASE h = H
        <4>1. \A g \in table : g.hash # H
          BY <3>1, <3>2, <2>3
        <4>2. H \notin DOMAIN added
          BY <4>1 DEF IInv, CountedOnce
        <4>3. new.count = added'[h]
          BY <4>2, <3>2, <2>1, <1>1 DEF AddsOf
        <4> QED
          BY <4>1, <4>3, <3>2, <2>1, <2>2
      <3>3. CASE h # H
        <4>1. h \in DOMAIN added /\ added'[h] = added[h]
          BY <3>3, <1>1
        <4> QED
          BY <4>1, <3>1, <3>3, <2>1, <2>2 DEF IInv, CountedOnce
      <3> QED
        BY <3>2, <3>3
    <2> QED
      BY <2>4, <2>5, <2>6 DEF IInv
  <1> QED
    BY <1>6, <1>7 DEF AddToIph

LEMMA NextIInv == IInv /\ [Next]_vars => IInv'
  <1> SUFFICES ASSUME IInv, [Next]_vars PROVE IInv'
    OBVIOUS
  <1>1. CASE Next
    <2>1. calls' \in Nat /\ TypeOK
      BY <1>1 DEF Next, IInv, TypeOK
    <2>2. CASE \/ \E g \in Arrays : OfBytearray(g) \/ OfPacket(g)
               \/ \E g \in Strings : FromS(g)
      BY <2>1, <2>2, NewPrefixStep, ObjectStepIInv
    <2>3. ASSUME NEW i \in Objects, NEW n \in Lengths,
                 Network(i, n) \/ SetLength(i, n) \/ OfAddr(i, n)
          PROVE  IInv'
      <3>1. n \in Int
        BY IpPrefixAssumption
      <3> QED
        BY <2>1, <2>3, <3>1, NetworkStep, SetLengthStep, OfAddrStep,
           ObjectStepIInv
    <2>4. ASSUME NEW i \in Objects, Complement(i) \/ OfAddr(i, NoLength)
          PROVE  IInv'
      <3>1. NoLength \in Int
        BY DEF NoLength
      <3> QED
        BY <2>1, <2>4, <3>1, ComplementStep, OfAddrStep, ObjectStepIInv
    <2>5. ASSUME NEW i \in Objects, AddToIph(i) PROVE IInv'
      BY <2>1, <2>5, AddStep
    <2>6. ASSUME NEW i \in Objects, NEW g \in Arrays, PacketWritten(i, g)
          PROVE  IInv'
      BY <2>1, <2>6, PacketWrittenStep, ObjectStepIInv
    <2> QED
      BY <2>2, <2>3, <2>4, <2>5, <2>6, <1>1 DEF Next
  <1>2. CASE UNCHANGED vars
    <2>1. ObjectStep /\ calls' \in Nat
      BY <1>2 DEF vars, IInv, TypeOK, ObjectStep, Objects, Shared
    <2> QED
      BY <2>1, ObjectStepIInv
  <1> QED
    BY <1>1, <1>2

-----------------------------------------------------------------------------
(* Theorems *)

THEOREM IInvHolds == Spec => []IInv
  BY InitIInv, NextIInv, PTL DEF Spec

\* Prefixes keep the form of their version through masking, complementing and
\* new lengths, and the dictionaries refer to prefixes there are.
THEOREM TypeCorrect == Spec => []TypeOK
  <1>1. IInv => TypeOK
    BY DEF IInv
  <1> QED
    BY <1>1, IInvHolds, PTL

\* Counting prefixes in a dictionary counts every value once, as long as its
\* key is not changed: by length=, by network() of it or of an object that has
\* the same octets, or with the packet that its octets are in.
THEOREM DictionariesCount == Spec => []CountedOnce
  <1>1. IInv => CountedOnce
    BY DEF IInv
  <1> QED
    BY <1>1, IInvHolds, PTL

\* <, > and == of IPprefix order prefixes of any addresses and lengths.
THEOREM OrderCorrect == Spec => []OrderTotal
  <1>1. IInv => OrderTotal
    <2> SUFFICES ASSUME IInv PROVE OrderTotal
      OBVIOUS
    <2>1. \A i \in Objects : objs[i] \in Prefix
      BY DEF IInv, TypeOK, Objects
    <2> QED
      BY <2>1, AllOrdered, LessTransitive DEF OrderTotal
  <1> QED
    BY <1>1, IInvHolds, PTL

\* is_prefix nests, and is_rfc1918 with it.
THEOREM NestingCorrect == Spec => []PrefixesNest
  <1>1. IInv => PrefixesNest
    <2> SUFFICES ASSUME IInv PROVE PrefixesNest
      OBVIOUS
    <2>1. \A i \in Objects : objs[i] \in Prefix
      BY DEF IInv, TypeOK, Objects
    <2> QED
      BY <2>1, AllNest, PrefixTransitive DEF PrefixesNest
  <1> QED
    BY <1>1, IInvHolds, PTL

\* first_bit_different is where has_bit_set first differs.
THEOREM FirstBitCorrect == Spec => []FirstBitIsFirst
  <1>1. IInv => FirstBitIsFirst
    <2> SUFFICES ASSUME IInv PROVE FirstBitIsFirst
      OBVIOUS
    <2>1. \A i \in Objects : objs[i] \in Prefix
      BY DEF IInv, TypeOK, Objects
    <2> QED
      BY <2>1, AllFirst DEF FirstBitIsFirst
  <1> QED
    BY <1>1, IInvHolds, PTL

\* Whatever network() clears in its source, the source, all that have its
\* octets and the result keep the bits of the new prefix.
LEMMA NetworkOfHolds ==
    ASSUME TypeOK, NEW i \in Objects, NEW n \in Int
    PROVE  NetworkOf(i, n)
  <1> SUFFICES ASSUME Network(i, n), Len(objs') > Len(objs)
               PROVE  /\ \A j \in Sharers(i) : \A k \in {objs[j], objs'[j]} :
                           ~Sized(k) \/ k.len >= n
                             => IsPrefix(objs'[Len(objs')], k)
                      /\ \A j \in Objects \ Sharers(i) : objs'[j] = objs[j]
                      /\ octets'[Len(objs')] \notin {octets[j] : j \in Objects}
    BY DEF NetworkOf
  <1> DEFINE old == objs[i]
             N == Bits(old.ver)
             a == Spoiled(old.addr, n)
             mid == Written(i, a)
             new == [old EXCEPT !.addr = Masked(@, n), !.len = n]
  <1>1. /\ objs \in Seq(Prefix) /\ i \in DOMAIN objs
        /\ old \in Prefix /\ old.addr \in Addr(old.ver)
    BY PrefixType DEF TypeOK, Objects
  <1>2. a \in Addr(old.ver) /\ AfterNetwork(i, n) = mid
    BY <1>1, MaskFacts DEF AfterNetwork
  <1>3. /\ mid \in Seq(Prefix) /\ DOMAIN mid = Objects /\ Len(mid) = Len(objs)
        /\ \A j \in Sharers(i) :
             /\ j \in Objects /\ objs[j] \in Prefix
             /\ objs[j].ver = old.ver /\ objs[j].addr = old.addr
             /\ mid[j] \in Prefix /\ mid[j].ver = objs[j].ver
             /\ mid[j].addr = a
        /\ \A j \in Objects \ Sharers(i) : mid[j] = objs[j]
        /\ Alike(mid)
    BY <1>2, WrittenFacts, WrittenAlike
  <1>4. \A b \in 0 .. N - 1 :
          b < n => Masked(old.addr, n)[b] = old.addr[b] /\ a[b] = old.addr[b]
    BY <1>1, MaskFacts
  <1> HIDE DEF mid, a
  <1>5. /\ n \in 0 .. N - 1 /\ objs' = Append(mid, new)
        /\ octets' = Append(octets, Itself)
    <2>1. Len(objs) \in Nat
      BY <1>1
    <2> HIDE DEF new
    <2> QED
      BY <2>1, <1>2, <1>3 DEF Network, new
  <1>6. /\ new \in Prefix /\ new.ver = old.ver /\ new.len = n
        /\ new.addr = Masked(old.addr, n)
    BY <1>1, <1>5, MaskedPrefix
  <1> HIDE DEF new
  <1>7. /\ objs'[Len(objs')] = new /\ octets'[Len(objs')] = Itself
        /\ Itself \notin Objects
        /\ \A j \in Objects : objs'[j] = mid[j]
    BY <1>3, <1>5, <1>6, AppendedShares
  <1>8. ASSUME NEW k \in Prefix, k.ver = old.ver,
               \A b \in 0 .. N - 1 : b < n => k.addr[b] = old.addr[b],
               ~Sized(k) \/ k.len >= n
        PROVE  IsPrefix(new, k)
    <2>1. /\ k.ver = new.ver /\ n # NoLength /\ n \in Int
          /\ \A b \in 0 .. N - 1 : b < n => new.addr[b] = k.addr[b]
      <3> HIDE DEF N
      <3> QED
        BY <1>4, <1>5, <1>6, <1>8 DEF NoLength
    <2>2. Sized(new) /\ Sized(k) => new.len <= k.len
      BY <1>6, <1>8, PrefixType
    <2> QED
      BY <2>1, <2>2, <1>6, <1>8, IsPrefixBits
  <1>9. ASSUME NEW j \in Sharers(i), NEW k \in {objs[j], objs'[j]},
               ~Sized(k) \/ k.len >= n
        PROVE  IsPrefix(new, k)
    <2>1. objs'[j] = mid[j]
      BY <1>3, <1>7
    <2>2. CASE k = objs[j]
      <3>1. k \in Prefix /\ k.ver = old.ver /\ k.addr = old.addr
        BY <2>2, <1>3
      <3> HIDE DEF N, old
      <3> QED
        BY <3>1, <1>8, <1>9
    <2>3. CASE k = mid[j]
      <3>1. k \in Prefix /\ k.ver = old.ver /\ k.addr = a
        BY <2>3, <1>3
      <3>2. \A b \in 0 .. N - 1 : b < n => k.addr[b] = old.addr[b]
        BY <3>1, <1>4
      <3> HIDE DEF N, old
      <3> QED
        BY <3>1, <3>2, <1>8, <1>9
    <2> QED
      BY <1>9, <2>1, <2>2, <2>3
  <1>10. Itself \notin {octets[j] : j \in Objects}
    BY <1>7 DEF TypeOK
  <1> QED
    BY <1>3, <1>7, <1>9, <1>10

\* network() gives a prefix of all that have the octets it is called on, and
\* touches no prefix that has others.
THEOREM NetworkCorrect == Spec => NetworkContains
  <1>1. IInv /\ [Next]_vars =>
          [\A i \in Objects : \A n \in Lengths : NetworkOf(i, n)]_vars
    <2> SUFFICES ASSUME IInv
                 PROVE  \A i \in Objects : \A n \in Lengths : NetworkOf(i, n)
      OBVIOUS
    <2>1. Lengths \subseteq Int /\ TypeOK
      BY IpPrefixAssumption DEF IInv
    <2> QED
      BY <2>1, NetworkOfHolds
  <1> QED
    BY <1>1, IInvHolds, PTL DEF Spec, NetworkContains

=============================================================================
