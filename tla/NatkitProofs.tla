----------------------------- MODULE NatkitProofs -----------------------------
(***************************************************************************)
(* Proofs about natkit.  FlowTable: for addresses of any width, any         *)
(* packets, any home prefixes and any calls of network().  SeqArith: for    *)
(* sequence numbers of any width and any steps.                             *)
(***************************************************************************)
EXTENDS FlowTable, SeqArith, TLAPS

-----------------------------------------------------------------------------
(* Lemmas on keys and addresses *)

\* Reversing twice gives the same key, and keys stay keys.
LEMMA RevTwice ==
    ASSUME NEW k \in Key
    PROVE  Rev(k) \in Key /\ Rev(Rev(k)) = k
  BY DEF Rev, Key

\* The keys of the packets and of their replies are closed under Rev.
LEMMA KeysClosed ==
    /\ Keys \subseteq Key
    /\ Packets \subseteq Keys
    /\ \A k \in Keys : Rev(k) \in Keys /\ Rev(Rev(k)) = k
  <1>1. Packets \subseteq Key
    BY FlowTableAssumption
  <1>2. ASSUME NEW k \in Keys
        PROVE  k \in Key /\ Rev(k) \in Keys /\ Rev(Rev(k)) = k
    <2>1. CASE k \in Packets
      BY <1>1, <2>1, RevTwice DEF Keys
    <2>2. CASE \E p \in Packets : k = Rev(p)
      <3>1. PICK p \in Packets : k = Rev(p)
        BY <2>2
      <3>2. p \in Key /\ Rev(k) = p
        BY <1>1, <3>1, RevTwice
      <3> QED
        BY <3>1, <3>2, RevTwice DEF Keys
    <2> QED
      BY <2>1, <2>2 DEF Keys
  <1> QED
    BY <1>2 DEF Keys

LEMMA NetworkTypes ==
    ASSUME NEW v \in Addr, NEW n
    PROVE  AfterNetwork(v, n) \in Addr
  BY DEF AfterNetwork, Addr

\* The home key is one of the flow's two keys.
LEMMA HomeKeyIsKey ==
    ASSUME NEW ps, NEW k \in Keys
    PROVE  HomeKey(ps, k) \in Keys
  BY KeysClosed DEF HomeKey

-----------------------------------------------------------------------------
(* The dictionary *)

IInv == TypeOK /\ OneEntryPerFlow

LEMMA InitIInv == Init => IInv
  BY FlowTableAssumption
  DEF Init, IInv, TypeOK, OneEntryPerFlow, NoEntries, Entry

\* A changed entry is an entry.
LEMMA SetEntry ==
    ASSUME TypeOK, NEW k \in DOMAIN table, NEW e \in Entry
    PROVE  /\ [table EXCEPT ![k] = e] \in [DOMAIN table -> Entry]
           /\ DOMAIN [table EXCEPT ![k] = e] = DOMAIN table
  BY DEF TypeOK

\* What one packet does to the dictionary: it adds one to the count of its
\* own direction, in the entry of its flow.
LEMMA LookupKeeps ==
    ASSUME IInv, NEW k \in Packets, Lookup(k)
    PROVE  /\ DOMAIN table' \subseteq Keys
           /\ table' \in [DOMAIN table' -> Entry]
           /\ OneEntryPerFlow'
  <1>0. k \in Keys /\ Rev(k) \in Keys /\ Rev(Rev(k)) = k /\ k \in Key
    BY KeysClosed
  <1>1. CASE Has(k) /\ CountFwd(k)
    <2>1. DOMAIN table' = DOMAIN table
      BY <1>1 DEF CountFwd
    <2>2. table[k] \in Entry
      BY <1>1 DEF IInv, TypeOK, Has
    <2>3. table' = [table EXCEPT ![k] = [table[k] EXCEPT !.fwd = @ + 1]]
      BY <1>1, <2>2 DEF CountFwd, Has, Entry
    <2>4. [table[k] EXCEPT !.fwd = @ + 1] \in Entry
      BY <2>2 DEF Entry
    <2> QED
      BY <1>1, <2>1, <2>3, <2>4, SetEntry
      DEF IInv, TypeOK, OneEntryPerFlow, Has
  <1>2. CASE ~Has(k) /\ Has(Rev(k)) /\ CountRev(Rev(k))
    <2>1. DOMAIN table' = DOMAIN table
      BY <1>2 DEF CountRev
    <2>2. table[Rev(k)] \in Entry
      BY <1>2 DEF IInv, TypeOK, Has
    <2>3. table' = [table EXCEPT ![Rev(k)] =
                      [table[Rev(k)] EXCEPT !.rev = @ + 1]]
      BY <1>2, <2>2 DEF CountRev, Has, Entry
    <2>4. [table[Rev(k)] EXCEPT !.rev = @ + 1] \in Entry
      BY <2>2 DEF Entry
    <2> QED
      BY <1>2, <2>1, <2>3, <2>4, SetEntry
      DEF IInv, TypeOK, OneEntryPerFlow, Has
  <1>3. CASE ~Has(k) /\ ~Has(Rev(k)) /\ Insert(k)
    <2>1. DOMAIN table' = DOMAIN table \cup {k}
      BY <1>3 DEF Insert
    <2>2. NewEntry(k) \in Entry
      BY <1>0 DEF NewEntry, Entry
    <2>3. table' \in [DOMAIN table' -> Entry] /\ DOMAIN table' \subseteq Keys
      BY <1>0, <1>3, <2>1, <2>2 DEF Insert, IInv, TypeOK
    <2>4. ASSUME NEW x \in DOMAIN table', Rev(x) \in DOMAIN table'
          PROVE  Rev(x) = x
      <3>1. x \in Keys /\ Rev(Rev(x)) = x
        BY <2>3, KeysClosed
      <3>2. CASE x = k
        BY <1>3, <2>1, <2>4, <3>2 DEF Has
      <3>3. CASE Rev(x) = k
        BY <1>3, <2>1, <2>4, <3>1, <3>3 DEF Has
      <3> QED
        BY <2>1, <2>4, <3>2, <3>3 DEF IInv, OneEntryPerFlow
    <2> QED
      BY <2>3, <2>4 DEF OneEntryPerFlow
  <1> QED
    BY <1>1, <1>2, <1>3 DEF Lookup

\* network() writes to one address of one stored flow.
LEMMA NetworkOfFlowKeeps ==
    ASSUME IInv, NEW k \in Keys, NEW end \in {"saddr", "daddr"}, NEW n,
           NetworkOfFlow(k, end, n)
    PROVE  /\ DOMAIN table' = DOMAIN table
           /\ table' \in [DOMAIN table -> Entry]
           /\ \A x \in DOMAIN table : /\ table'[x].fwd = table[x].fwd
                                      /\ table'[x].rev = table[x].rev
  <1>1. k \in DOMAIN table /\ table[k] \in Entry
    BY DEF NetworkOfFlow, Has, IInv, TypeOK
  <1> DEFINE fkey == [table[k].ipf EXCEPT ![end] = AfterNetwork(@, n)]
             e == [table[k] EXCEPT !.ipf = fkey]
  <1>2. table' = [table EXCEPT ![k] = e]
    BY <1>1 DEF NetworkOfFlow, Entry
  <1>3. table[k].ipf \in Key /\ table[k].ipf[end] \in Addr
    BY <1>1 DEF Entry, Key
  <1>4. fkey \in Key
    BY <1>3, NetworkTypes DEF Key
  <1> HIDE DEF fkey
  <1>5. e \in Entry /\ e.fwd = table[k].fwd /\ e.rev = table[k].rev
    BY <1>1, <1>4 DEF Entry
  <1> HIDE DEF e
  <1> QED
    BY <1>1, <1>2, <1>5, SetEntry DEF IInv, TypeOK

LEMMA NetworkOfHomeKeeps ==
    ASSUME TypeOK, NEW h \in Homes, NEW n, NetworkOfHome(h, n)
    PROVE  home' \in [Homes -> Prefix]
  <1>1. home[h] \in Prefix
    BY DEF TypeOK
  <1> DEFINE p == [home[h] EXCEPT !.addr = AfterNetwork(home[h].addr, n)]
  <1>2. p \in Prefix
    BY <1>1, NetworkTypes DEF Prefix
  <1>3. home' = [home EXCEPT ![h] = p]
    BY <1>1 DEF NetworkOfHome, Prefix, TypeOK
  <1> HIDE DEF p
  <1> QED
    BY <1>2, <1>3 DEF TypeOK

LEMMA NextKeeps == IInv /\ [Next]_vars => IInv'
  <1> SUFFICES ASSUME IInv, [Next]_vars PROVE IInv'
    OBVIOUS
  <1>1. ASSUME NEW k \in Packets, CountPacket(k) PROVE IInv'
    <2>1. /\ Lookup(k) /\ nip' \in Nat /\ last' \subseteq Packets
          /\ UNCHANGED <<home, filed>>
      BY <1>1 DEF CountPacket, IInv, TypeOK
    <2> QED
      BY <2>1, LookupKeeps DEF IInv, TypeOK
  <1>2. ASSUME NEW k \in Packets, FilePacket(k) PROVE IInv'
    <2>1. [key |-> k, under |-> HomeKey(HomeNow, k)]
            \in [key : Packets, under : Keys]
      BY KeysClosed, HomeKeyIsKey
    <2> QED
      BY <1>2, <2>1 DEF FilePacket, IInv, TypeOK, OneEntryPerFlow
  <1>3. ASSUME NEW k \in Keys, NEW end \in {"saddr", "daddr"},
               NEW n \in FlowLengths, NetworkOfFlow(k, end, n)
        PROVE  IInv'
    <2>1. UNCHANGED <<nip, last, home, filed>>
      BY <1>3 DEF NetworkOfFlow
    <2> QED
      BY <1>3, <2>1, NetworkOfFlowKeeps DEF IInv, TypeOK, OneEntryPerFlow
  <1>4. ASSUME NEW h \in Homes, NEW n \in HomeLengths, NetworkOfHome(h, n)
        PROVE  IInv'
    <2>1. home' \in [Homes -> Prefix]
      BY <1>4, NetworkOfHomeKeeps DEF IInv
    <2> QED
      BY <1>4, <2>1 DEF NetworkOfHome, IInv, TypeOK, OneEntryPerFlow
  <1>5. CASE UNCHANGED vars
    BY <1>5 DEF vars, IInv, TypeOK, OneEntryPerFlow
  <1> QED
    BY <1>1, <1>2, <1>3, <1>4, <1>5 DEF Next

\* The dictionary is well typed and no flow has two entries in it.
THEOREM Invariance == Spec => []IInv
  BY InitIInv, NextKeeps, PTL DEF Spec

\* Every entry of the dictionary and every home prefix keeps its form,
\* whatever network() writes through the prefixes that point into them.
THEOREM TypeCorrect == Spec => []TypeOK
  <1>1. IInv => TypeOK
    BY DEF IInv
  <1> QED
    BY <1>1, Invariance, PTL

\* The lookup under fwd_key, then rev_key, keeps the two directions of every
\* flow in one entry.
THEOREM OneEntry == Spec => []OneEntryPerFlow
  <1>1. IInv => OneEntryPerFlow
    BY DEF IInv
  <1> QED
    BY <1>1, Invariance, PTL

-----------------------------------------------------------------------------
(* The dictionary implements PacketCounts *)

\* The count of the packet's direction goes up by one and no other changes.
LEMMA LookupCounts ==
    ASSUME IInv, NEW k \in Packets, Lookup(k)
    PROVE  /\ Counted(k)' = Counted(k) + 1
           /\ \A x \in Keys \ {k} : Counted(x)' = Counted(x)
           /\ DOMAIN table' = IF Has(k) \/ Has(Rev(k))
                              THEN DOMAIN table ELSE DOMAIN table \cup {k}
  <1>0. k \in Keys /\ \A x \in Keys : Rev(x) \in Keys /\ Rev(Rev(x)) = x
    BY KeysClosed
  <1>1. \A x \in DOMAIN table : table[x] \in Entry
    BY DEF IInv, TypeOK
  <1>2. CASE Has(k) /\ CountFwd(k)
    <2>1. /\ DOMAIN table' = DOMAIN table
          /\ table'[k].fwd = table[k].fwd + 1 /\ table'[k].rev = table[k].rev
          /\ \A x \in DOMAIN table \ {k} : table'[x] = table[x]
      BY <1>1, <1>2 DEF CountFwd, Has, Entry
    <2> QED
      BY <1>0, <1>2, <2>1 DEF Counted, Has
  <1>3. CASE ~Has(k) /\ Has(Rev(k)) /\ CountRev(Rev(k))
    <2>1. /\ DOMAIN table' = DOMAIN table
          /\ table'[Rev(k)].fwd = table[Rev(k)].fwd
          /\ table'[Rev(k)].rev = table[Rev(k)].rev + 1
          /\ \A x \in DOMAIN table \ {Rev(k)} : table'[x] = table[x]
      BY <1>1, <1>3 DEF CountRev, Has, Entry
    <2>2. ASSUME NEW x \in Keys \ {k} PROVE Rev(x) # Rev(k)
      BY <1>0, <2>2
    <2> QED
      BY <1>0, <1>3, <2>1, <2>2 DEF Counted, Has
  <1>4. CASE ~Has(k) /\ ~Has(Rev(k)) /\ Insert(k)
    <2>1. /\ DOMAIN table' = DOMAIN table \cup {k}
          /\ table'[k].fwd = 1 /\ table'[k].rev = 0
          /\ \A x \in DOMAIN table : table'[x] = table[x]
      BY <1>4 DEF Insert, NewEntry, Has
    <2>2. ASSUME NEW x \in Keys \ {k}, Rev(x) = k PROVE ~Has(x)
      BY <1>0, <1>4, <2>2
    <2> QED
      BY <1>0, <1>4, <2>1, <2>2 DEF Counted, Has
  <1> QED
    BY <1>2, <1>3, <1>4 DEF Lookup

LEMMA CountsInit == Init => Counts!Init
  BY DEF Init, Counts!Init, Counts!Keys, Counts!Rev, Keys, Rev, NoEntries,
         Counted, Has

\* Each step of the program is a step of PacketCounts or changes nothing.
LEMMA CountsNext ==
    ASSUME IInv, [Next]_vars
    PROVE  Counts!Next \/ UNCHANGED <<[k \in Keys |-> Counted(k)],
                                      DOMAIN table, last>>
  <1>0. Counts!Keys = Keys /\ \A k : Counts!Rev(k) = Rev(k)
    BY DEF Counts!Keys, Counts!Rev, Keys, Rev
  <1>1. ASSUME NEW k \in Packets, CountPacket(k) PROVE Counts!Next
    <2>1. Lookup(k) /\ k \in Keys /\ last' = {k}
      BY <1>1, KeysClosed DEF CountPacket
    <2>2. [x \in Keys |-> Counted(x)]' =
            [[x \in Keys |-> Counted(x)] EXCEPT ![k] = @ + 1]
      BY <2>1, LookupCounts
    <2> QED
      BY <1>0, <2>1, <2>2, LookupCounts DEF Counts!Next, Counts!See, Has
  <1>2. ASSUME DOMAIN table' = DOMAIN table,
               \A x \in DOMAIN table : /\ table'[x].fwd = table[x].fwd
                                       /\ table'[x].rev = table[x].rev
        PROVE  UNCHANGED <<[k \in Keys |-> Counted(k)], DOMAIN table>>
    BY <1>2 DEF Counted, Has
  <1>3. ASSUME NEW k \in Packets, FilePacket(k) PROVE UNCHANGED <<table, last>>
    BY <1>3 DEF FilePacket
  <1>4. ASSUME NEW k \in Keys, NEW end \in {"saddr", "daddr"},
               NEW n \in FlowLengths, NetworkOfFlow(k, end, n)
        PROVE  /\ DOMAIN table' = DOMAIN table /\ UNCHANGED last
               /\ \A x \in DOMAIN table : /\ table'[x].fwd = table[x].fwd
                                          /\ table'[x].rev = table[x].rev
    BY <1>4, NetworkOfFlowKeeps DEF NetworkOfFlow
  <1>5. ASSUME NEW h \in Homes, NEW n \in HomeLengths, NetworkOfHome(h, n)
        PROVE  UNCHANGED <<table, last>>
    BY <1>5 DEF NetworkOfHome
  <1> QED
    BY <1>1, <1>2, <1>3, <1>4, <1>5 DEF Next, vars

\* test-IPflowDict's dictionary implements PacketCounts: each direction of
\* each flow has the right count and the first packet seen is forward.
THEOREM Implements == Spec => ImplementsCounts
  <1>1. IInv /\ [Next]_vars
          => [Counts!Next]_<<last, [k \in Keys |-> Counted(k)], DOMAIN table>>
    BY CountsNext
  <1> QED
    BY <1>1, CountsInit, Invariance, PTL
    DEF Spec, ImplementsCounts, Counts!Spec

-----------------------------------------------------------------------------
(* Home keys *)

\* network() only ever clears bits of a home prefix.
HomeOnlyCleared ==
    \A h \in Homes :
        /\ home[h].version = HomePrefix[h].version
        /\ home[h].length = HomePrefix[h].length
        /\ \A i \in 0 .. Bits - 1 :
              home[h].addr[i] \in {0, HomePrefix[h].addr[i]}

FiledByFirst ==
    HomeKept => \A f \in filed : f.under = HomeKey(HomeAtFirst, f.key)

HInv == TypeOK /\ HomeOnlyCleared /\ FiledByFirst

\* While the bits that count are intact, home is where it was.
LEMMA SameHome ==
    ASSUME TypeOK, HomeOnlyCleared, HomeKept, NEW k
    PROVE  HomeKey(HomeNow, k) = HomeKey(HomeAtFirst, k)
  <1>1. ASSUME NEW h \in Homes, NEW x
        PROVE  IsPrefix(home[h], x) <=> IsPrefix(HomePrefix[h], x)
    BY DEF HomeOnlyCleared, HomeKept, IsPrefix
  <1>2. \A v, x : InHome(HomeNow, v, x) <=> InHome(HomeAtFirst, v, x)
    BY <1>1 DEF InHome, HomeNow, HomeAtFirst, HomeOnlyCleared
  <1> QED
    BY <1>2 DEF HomeKey

\* A flow with one end at home has one home key.
LEMMA OneHomeKey ==
    ASSUME NEW ps, NEW k \in Key, IsInward(ps, k)
    PROVE  HomeKey(ps, Rev(k)) = HomeKey(ps, k)
  <1>1. /\ Rev(k).version = k.version /\ Rev(k).daddr = k.saddr
        /\ Rev(Rev(k)) = k
    BY DEF Rev, Key
  <1>2. CASE InHome(ps, k.version, k.daddr) /\ ~InHome(ps, k.version, k.saddr)
    BY <1>1, <1>2 DEF HomeKey
  <1>3. CASE ~InHome(ps, k.version, k.daddr) /\ InHome(ps, k.version, k.saddr)
    BY <1>1, <1>3 DEF HomeKey
  <1> QED
    BY <1>2, <1>3, Zenon DEF IsInward

LEMMA InitHInv == Init => HInv
  <1> SUFFICES ASSUME Init PROVE HInv
    OBVIOUS
  <1>1. TypeOK
    BY InitIInv DEF IInv
  <1>2. HomeOnlyCleared
    BY DEF Init, HomeOnlyCleared
  <1>3. FiledByFirst
    BY DEF Init, FiledByFirst
  <1> QED
    BY <1>1, <1>2, <1>3 DEF HInv

\* A packet is filed under the key that the first home prefixes give it.
LEMMA FileKeeps ==
    ASSUME HInv, NEW k \in Packets, FilePacket(k)
    PROVE  HomeOnlyCleared' /\ FiledByFirst'
  <1>1. UNCHANGED home
    BY DEF FilePacket
  <1>2. HomeKept => HomeKey(HomeNow, k) = HomeKey(HomeAtFirst, k)
    BY SameHome DEF HInv
  <1> QED
    BY <1>1, <1>2
    DEF FilePacket, HInv, HomeOnlyCleared, FiledByFirst, HomeKept

\* Once a bit that counts is cleared it stays cleared.
LEMMA NetworkOfHomeClears ==
    ASSUME HInv, NEW h \in Homes, NEW n, NetworkOfHome(h, n)
    PROVE  HomeOnlyCleared' /\ FiledByFirst'
  <1>1. /\ filed' = filed /\ home[h] \in Prefix
        /\ \A g \in Homes \ {h} : home'[g] = home[g]
    BY DEF NetworkOfHome, HInv, TypeOK
  <1>2. /\ home'[h].version = home[h].version
        /\ home'[h].length = home[h].length
        /\ \A i \in 0 .. Bits - 1 : home'[h].addr[i] \in {0, home[h].addr[i]}
    BY <1>1 DEF NetworkOfHome, HInv, TypeOK, Prefix, AfterNetwork
  <1>3. HomeOnlyCleared'
    BY <1>1, <1>2 DEF HInv, HomeOnlyCleared
  <1>4. HomeKept' => HomeKept
    <2> SUFFICES ASSUME HomeKept', NEW g \in Homes,
                        NEW i \in 0 .. HomePrefix[g].length - 1
                 PROVE  HomePrefix[g].addr[i] = home[g].addr[i]
      BY DEF HomeKept, IsPrefix
    <2>1. HomePrefix[g].addr[i] = home'[g].addr[i]
      BY DEF HomeKept, IsPrefix
    <2>2. i \in 0 .. Bits - 1
      <3>1. HomePrefix[g].length \in 0 .. Bits /\ Bits \in Nat
        BY FlowTableAssumption, FlowKeysAssumption DEF Prefix, Bits
      <3> QED
        BY <3>1
    <2>3. CASE g = h
      BY <1>1, <1>2, <2>1, <2>2, <2>3 DEF HInv, HomeOnlyCleared
    <2>4. CASE g # h
      BY <1>1, <2>1, <2>4
    <2> QED
      BY <2>3, <2>4
  <1> QED
    BY <1>1, <1>3, <1>4 DEF HInv, FiledByFirst

LEMMA NextKeepsHome == HInv /\ IInv /\ [Next]_vars => HInv'
  <1> SUFFICES ASSUME HInv, IInv, [Next]_vars
               PROVE  HomeOnlyCleared' /\ FiledByFirst'
    BY NextKeeps DEF HInv, IInv
  <1> USE DEF HInv, HomeOnlyCleared, FiledByFirst, HomeKept
  <1>1. ASSUME NEW k \in Packets, CountPacket(k)
        PROVE  HomeOnlyCleared' /\ FiledByFirst'
    BY <1>1 DEF CountPacket
  <1>2. ASSUME NEW k \in Keys, NEW end \in {"saddr", "daddr"},
               NEW n \in FlowLengths, NetworkOfFlow(k, end, n)
        PROVE  HomeOnlyCleared' /\ FiledByFirst'
    BY <1>2 DEF NetworkOfFlow
  <1>3. CASE UNCHANGED vars
    BY <1>3 DEF vars
  <1> QED
    BY <1>1, <1>2, <1>3, FileKeeps, NetworkOfHomeClears DEF Next

\* A flow with one end at home is filed under one key in both directions, as
\* long as network() left the bits alone that the home prefixes compare.
THEOREM OneHome == Spec => []OneHomeEntry
  <1>1. HInv => OneHomeEntry
    <2> SUFFICES ASSUME HInv, HomeKept, NEW f \in filed, NEW g \in filed,
                        g.key \in {f.key, Rev(f.key)},
                        IsInward(HomeAtFirst, f.key)
                 PROVE  f.under = g.under
      BY DEF OneHomeEntry
    <2>1. /\ f.under = HomeKey(HomeAtFirst, f.key)
          /\ g.under = HomeKey(HomeAtFirst, g.key)
      BY DEF HInv, FiledByFirst
    <2>2. f.key \in Key
      BY FlowTableAssumption DEF HInv, TypeOK
    <2> QED
      BY <2>1, <2>2, OneHomeKey
  <1> QED
    BY <1>1, InitHInv, NextKeepsHome, Invariance, PTL DEF Spec

\* network() is harmless to a FlowHome if it is never asked for a network
\* larger than the home prefix it is called on.
THEOREM SubnetsKeepHome ==
    ASSUME \A h \in Homes, n \in HomeLengths : n >= HomePrefix[h].length
    PROVE  Spec => []HomeKept
  <1>1. Init => HomeKept
    BY DEF Init, HomeKept, IsPrefix
  <1>2. ASSUME HomeKept, HInv, NEW h \in Homes, NEW n \in HomeLengths,
               NetworkOfHome(h, n)
        PROVE  HomeKept'
    <2>1. n \in Nat /\ OctetBits \in Nat \ {0} /\ HomePrefix[h] \in Prefix
          /\ Bits \in Nat
      BY FlowTableAssumption, FlowKeysAssumption DEF Bits
    <2>2. ASSUME NEW i \in 0 .. HomePrefix[h].length - 1
          PROVE  home'[h].addr[i] = home[h].addr[i]
      <3>1. i \in Nat /\ i <= n /\ i \in 0 .. Bits - 1
        BY <2>1, <2>2 DEF Prefix
      <3>2. ~(i \div OctetBits > n \div OctetBits)
        BY <2>1, <3>1, SMTT(30)
      <3>3. home'[h].addr = AfterNetwork(home[h].addr, n)
        BY <1>2 DEF NetworkOfHome, HInv, TypeOK, Prefix
      <3> QED
        BY <3>1, <3>2, <3>3 DEF AfterNetwork
    <2>3. \A g \in Homes \ {h} : home'[g] = home[g]
      BY <1>2 DEF NetworkOfHome, HInv, TypeOK
    <2> QED
      BY <1>2, <2>2, <2>3 DEF HomeKept, IsPrefix
  <1>3. HomeKept /\ HInv /\ [Next]_vars => HomeKept'
    <2> SUFFICES ASSUME HomeKept, HInv, [Next]_vars PROVE HomeKept'
      OBVIOUS
    <2>1. CASE UNCHANGED home
      BY <2>1 DEF HomeKept
    <2>2. CASE \E h \in Homes, n \in HomeLengths : NetworkOfHome(h, n)
      BY <1>2, <2>2
    <2> QED
      BY <2>1, <2>2 DEF Next, vars, CountPacket, FilePacket, NetworkOfFlow
  <1>4. Spec => []HInv
    BY InitHInv, NextKeepsHome, Invariance, PTL DEF Spec
  <1> QED
    BY <1>1, <1>3, <1>4, PTL DEF Spec

-----------------------------------------------------------------------------
(* Sequence numbers *)

\* The last answer is that of a difference of the numbers as they are now.
SignOK ==
    asked.fn # "none" =>
        \E d \in Differences(a, b) : asked.yes = Says(asked.fn, d)

SeqIInv == SeqTypeOK /\ SignOK

-----------------------------------------------------------------------------

\* Half is a positive integer and so is the range.
LEMMA HalfType == Half \in Nat /\ Half >= 1 /\ Range \in Nat /\ Range = 2 * Half
  BY SeqArithAssumption DEF Range

\* seq_add and seq_sub stay in the range and are congruent to sum and difference.
LEMMA SumsWrap ==
    ASSUME NEW u \in U32, NEW n \in Steps
    PROVE  /\ SeqAdd(u, n) \in U32 /\ SeqAdd(u, n) - u - n \in {-Range, 0}
           /\ SeqSub(u, n) \in U32 /\ SeqSub(u, n) - u + n \in {0, Range}
<1>1. n \in U32
  BY SeqArithAssumption
<1>2. /\ u \in Int /\ 0 <= u /\ u <= Range - 1
      /\ n \in Int /\ 0 <= n /\ n <= Range - 1
  BY <1>1, HalfType DEF U32
<1>3. SeqAdd(u, n) \in U32 /\ SeqAdd(u, n) - u - n \in {-Range, 0}
  <2>1. CASE u + n >= Range
    <3>1. SeqAdd(u, n) = u + n - Range
      BY <2>1 DEF SeqAdd
    <3> QED BY <1>2, <2>1, <3>1, HalfType DEF U32
  <2>2. CASE ~(u + n >= Range)
    <3>1. SeqAdd(u, n) = u + n
      BY <2>2 DEF SeqAdd
    <3> QED BY <1>2, <2>2, <3>1, HalfType DEF U32
  <2> QED BY <2>1, <2>2
<1>4. SeqSub(u, n) \in U32 /\ SeqSub(u, n) - u + n \in {0, Range}
  <2>1. CASE u < n
    <3>1. SeqSub(u, n) = u - n + Range
      BY <2>1 DEF SeqSub
    <3> QED BY <1>2, <2>1, <3>1, HalfType DEF U32
  <2>2. CASE ~(u < n)
    <3>1. SeqSub(u, n) = u - n
      BY <2>2 DEF SeqSub
    <3> QED BY <1>2, <2>2, <3>1, HalfType DEF U32
  <2> QED BY <2>1, <2>2
<1> QED BY <1>3, <1>4

\* Numbers less than the range apart whose difference is the true one but for
\* multiples of the range are off by none or one of them.
LEMMA OneRange ==
    ASSUME NEW u \in U32, NEW v \in U32, NEW w \in Int,
           -Range < w, w < Range, NEW k \in {-Range, 0, Range},
           NEW s \in {-Range, 0, Range}, v - u - w = k + s
    PROVE  v - u - w \in {-Range, 0, Range}
  BY HalfType DEF U32

\* Initially both numbers are the same.
LEMMA SeqInitInv == SeqInit => SeqIInv
<1> SUFFICES ASSUME SeqInit PROVE SeqIInv
  OBVIOUS
<1>1. a \in Int /\ b = a /\ apart = 0 /\ a \in U32
  BY DEF SeqInit, U32
<1>2. apart \in -Range + 1 .. Range - 1 /\ b - a - apart \in {-Range, 0, Range}
  BY <1>1, HalfType
<1>3. asked \in [fn : Fns \cup {"none"}, yes : BOOLEAN] /\ asked.fn = "none"
  BY DEF SeqInit, Unasked
<1> QED BY <1>1, <1>2, <1>3 DEF SeqIInv, SeqTypeOK, SignOK

-----------------------------------------------------------------------------

\* A move keeps the numbers congruent to the true ones.
LEMMA MoveInv ==
    ASSUME SeqIInv, NEW n \in Steps, Move(n)
    PROVE  SeqIInv'
<1>1. /\ a \in U32 /\ b \in U32 /\ a \in Int /\ b \in Int
      /\ apart \in Int /\ b - a - apart \in {-Range, 0, Range}
  BY HalfType DEF SeqIInv, SeqTypeOK, U32
<1>2. n \in Int
  BY SeqArithAssumption, HalfType DEF U32
<1>3. -Range < apart' /\ apart' < Range
  BY DEF Move
<1>4. /\ asked' \in [fn : Fns \cup {"none"}, yes : BOOLEAN]
      /\ asked'.fn = "none"
  BY DEF Move, Unasked
<1>5. /\ a' \in U32 /\ b' \in U32 /\ apart' \in Int
      /\ b' - a' - apart' \in {-Range, 0, Range}
  <2>1. CASE MoveA(n)
    <3>1. CASE a' = SeqAdd(a, n) /\ apart' = apart - n
      <4>1. a' \in U32 /\ a' - a - n \in {-Range, 0} /\ b' = b
        BY <1>1, <2>1, <3>1, SumsWrap DEF MoveA
      <4>2. a' \in Int
        BY <4>1, HalfType DEF U32
      <4>3. b' - a' - apart' = (b - a - apart) + (0 - (a' - a - n))
        BY <1>1, <1>2, <3>1, <4>1, <4>2
      <4>4. 0 - (a' - a - n) \in {-Range, 0, Range}
        BY <4>1, HalfType
      <4> QED BY <1>1, <1>2, <1>3, <3>1, <4>1, <4>3, <4>4, OneRange
    <3>2. CASE a' = SeqSub(a, n) /\ apart' = apart + n
      <4>1. a' \in U32 /\ a' - a + n \in {0, Range} /\ b' = b
        BY <1>1, <2>1, <3>2, SumsWrap DEF MoveA
      <4>2. a' \in Int
        BY <4>1, HalfType DEF U32
      <4>3. b' - a' - apart' = (b - a - apart) + (0 - (a' - a + n))
        BY <1>1, <1>2, <3>2, <4>1, <4>2
      <4>4. 0 - (a' - a + n) \in {-Range, 0, Range}
        BY <4>1, HalfType
      <4> QED BY <1>1, <1>2, <1>3, <3>2, <4>1, <4>3, <4>4, OneRange
    <3> QED BY <2>1, <3>1, <3>2 DEF MoveA
  <2>2. CASE MoveB(n)
    <3>1. CASE b' = SeqAdd(b, n) /\ apart' = apart + n
      <4>1. b' \in U32 /\ b' - b - n \in {-Range, 0} /\ a' = a
        BY <1>1, <2>2, <3>1, SumsWrap DEF MoveB
      <4>2. b' \in Int
        BY <4>1, HalfType DEF U32
      <4>3. b' - a' - apart' = (b - a - apart) + (b' - b - n)
        BY <1>1, <1>2, <3>1, <4>1, <4>2
      <4> QED BY <1>1, <1>2, <1>3, <3>1, <4>1, <4>3, OneRange
    <3>2. CASE b' = SeqSub(b, n) /\ apart' = apart - n
      <4>1. b' \in U32 /\ b' - b + n \in {0, Range} /\ a' = a
        BY <1>1, <2>2, <3>2, SumsWrap DEF MoveB
      <4>2. b' \in Int
        BY <4>1, HalfType DEF U32
      <4>3. b' - a' - apart' = (b - a - apart) + (b' - b + n)
        BY <1>1, <1>2, <3>2, <4>1, <4>2
      <4> QED BY <1>1, <1>2, <1>3, <3>2, <4>1, <4>3, OneRange
    <3> QED BY <2>2, <3>1, <3>2 DEF MoveB
  <2> QED BY <2>1, <2>2 DEF Move
<1>6. apart' \in -Range + 1 .. Range - 1
  BY <1>3, <1>5, HalfType
<1> QED BY <1>4, <1>5, <1>6 DEF SeqIInv, SeqTypeOK, SignOK

\* A comparison answers by one of the differences a build may compute.
LEMMA CompareInv ==
    ASSUME SeqIInv, NEW fn \in Fns, Compare(fn)
    PROVE  SeqIInv'
<1>1. PICK d \in Differences(a, b) : asked' = [fn |-> fn, yes |-> Says(fn, d)]
  BY DEF Compare
<1>2. UNCHANGED <<a, b, apart>>
  BY DEF Compare
<1>3. Says(fn, d) \in BOOLEAN
  <2>1. (d < 0) \in BOOLEAN /\ (d >= 0) \in BOOLEAN /\ (d > 0) \in BOOLEAN
    OBVIOUS
  <2>2. CASE fn = "seq_lt"
    BY <2>1, <2>2 DEF Says
  <2>3. CASE fn = "seq_ge"
    BY <2>1, <2>3 DEF Says
  <2>4. CASE fn = "seq_gt"
    BY <2>1, <2>4 DEF Says
  <2> QED BY <2>2, <2>3, <2>4 DEF Fns
<1>4. asked' \in [fn : Fns \cup {"none"}, yes : BOOLEAN]
  BY <1>1, <1>3
<1>5. asked'.fn = fn /\ asked'.yes = Says(fn, d)
  BY <1>1
<1>6. Differences(a, b)' = Differences(a, b)
  BY <1>2 DEF Differences, AsI32
<1> QED BY <1>2, <1>4, <1>5, <1>6 DEF SeqIInv, SeqTypeOK, SignOK

\* SeqIInv is inductive.
LEMMA SeqStepInv == SeqIInv /\ [SeqNext]_seqVars => SeqIInv'
<1> SUFFICES ASSUME SeqIInv, [SeqNext]_seqVars PROVE SeqIInv'
  OBVIOUS
<1>1. ASSUME NEW n \in Steps, Move(n) PROVE SeqIInv'
  BY <1>1, MoveInv
<1>2. ASSUME NEW fn \in Fns, Compare(fn) PROVE SeqIInv'
  BY <1>2, CompareInv
<1>3. CASE UNCHANGED seqVars
  BY <1>3 DEF seqVars, SeqIInv, SeqTypeOK, SignOK, Differences, AsI32
<1> QED BY <1>1, <1>2, <1>3 DEF SeqNext

\* The strengthened invariant holds in every reachable state.
LEMMA SeqAlwaysInv == SeqSpec => []SeqIInv
  BY SeqInitInv, SeqStepInv, PTL DEF SeqSpec

-----------------------------------------------------------------------------

\* Without overflow both builds compute the same difference, whose sign is the
\* opposite of `apart' where that is small enough.
LEMMA DifferenceIsTrue ==
    ASSUME SeqTypeOK, ~Overflows, -Half < apart, apart <= Half,
           NEW d \in Differences(a, b)
    PROVE  d = -apart
<1> DEFINE e == AsI32(a) - AsI32(b)
<1>1. /\ a \in Int /\ 0 <= a /\ a <= Range - 1
      /\ b \in Int /\ 0 <= b /\ b <= Range - 1
      /\ apart \in Int /\ b - a - apart \in {-Range, 0, Range}
  BY HalfType DEF SeqTypeOK, U32
<1>2. /\ AsI32(a) = a \/ AsI32(a) = a - Range
      /\ AsI32(b) = b \/ AsI32(b) = b - Range
  BY DEF AsI32
<1>3. e \in Int
  BY <1>1, <1>2, HalfType
<1>4. -Half <= e /\ e <= Half - 1
  BY <1>3, HalfType DEF Overflows, I32
<1>5. d = e
  BY <1>3, <1>4, HalfType DEF Differences
<1>6. e = -apart
  BY <1>1, <1>2, <1>4, HalfType
<1> QED BY <1>5, <1>6

\* The numbers keep to their range and to the true difference but for a
\* multiple of it.
THEOREM SeqTypeCorrect == SeqSpec => []SeqTypeOK
  BY SeqAlwaysInv, PTL DEF SeqIInv

\* seq_lt, seq_ge and seq_gt find the order of numbers up to half the range
\* apart, whatever their width, where the subtraction does not overflow.
THEOREM ComparisonsAgree == SeqSpec => []OrderAgrees
<1>1. SeqIInv => OrderAgrees
  <2> SUFFICES ASSUME SeqIInv, -Half < apart, apart <= Half, ~Overflows,
                      asked.fn # "none"
               PROVE  asked.yes = Says(asked.fn, -apart)
    BY DEF OrderAgrees
  <2>1. PICK d \in Differences(a, b) : asked.yes = Says(asked.fn, d)
    BY DEF SeqIInv, SignOK
  <2>2. d = -apart
    BY DifferenceIsTrue DEF SeqIInv
  <2> QED BY <2>1, <2>2
<1> QED BY <1>1, SeqAlwaysInv, PTL


\* Where the subtraction overflows, what a build computes decides each of the
\* comparisons, and one of the two answers is wrong: the exception that
\* OrderAgrees makes is as wide as it has to be.
OverflowSplits ==
    Overflows =>
        \A fn \in Fns : {Says(fn, d) : d \in Differences(a, b)} = BOOLEAN

THEOREM OverflowsGoEitherWay == SeqSpec => []OverflowSplits
<1>1. SeqTypeOK => OverflowSplits
  <2> SUFFICES ASSUME SeqTypeOK, Overflows, NEW fn \in Fns
               PROVE  {Says(fn, d) : d \in Differences(a, b)} = BOOLEAN
    BY DEF OverflowSplits
  <2> DEFINE d == AsI32(a) - AsI32(b)
             w == IF d < -Half THEN d + Range
                  ELSE IF d >= Half THEN d - Range ELSE d
  <2>1. AsI32(a) \in I32 /\ AsI32(b) \in I32
    BY HalfType DEF SeqTypeOK, U32, AsI32, I32
  <2>2. d \in Int /\ -Range < d /\ d < Range /\ (d < -Half \/ d >= Half)
    BY <2>1, HalfType DEF Overflows, I32
  <2>3. Differences(a, b) = {d, w}
    BY DEF Differences
  <2> HIDE DEF d
  <2>4. w \in Int /\ \/ d < 0 /\ w > 0
                     \/ d > 0 /\ w < 0
    BY <2>2, HalfType
  <2> HIDE DEF w
  <2>5. Says(fn, d) \in BOOLEAN /\ Says(fn, w) = ~Says(fn, d)
    <3>1. CASE fn = "seq_lt"
      BY <2>2, <2>4, <3>1 DEF Says
    <3>2. CASE fn = "seq_ge"
      BY <2>2, <2>4, <3>2 DEF Says
    <3>3. CASE fn = "seq_gt"
      BY <2>2, <2>4, <3>3 DEF Says
    <3> QED BY <3>1, <3>2, <3>3 DEF Fns
  <2>6. {Says(fn, e) : e \in {d, w}} = {Says(fn, d), Says(fn, w)}
    OBVIOUS
  <2> QED BY <2>3, <2>5, <2>6, Zenon
<1> QED BY <1>1, SeqAlwaysInv, PTL DEF SeqIInv

=============================================================================
