------------------------------ MODULE FlowTable ------------------------------
(***************************************************************************)
(* Programs on natkit's flow keys.  test-IPflowDict.py counts the packets   *)
(* of each flow in a dictionary on fwd_key and rev_key; a FlowHome program   *)
(* files packets under home_key.  Keys are strings, so a dictionary owns    *)
(* them; the addresses are not: src_prefix and dst_prefix point into the    *)
(* flow's own fkey, and network() writes to the address it masks.           *)
(***************************************************************************)
EXTENDS FlowKeys

CONSTANTS
    Packets,       \* fkeys that make_fkey may return
    Homes,         \* the prefixes given to FlowHome, by name
    HomePrefix,    \* what they are at first
    FlowLengths,   \* lengths asked of network() for a flow's addresses
    HomeLengths,   \* and for a home prefix
    MaxPackets     \* the program stops after so many IP packets

ASSUME FlowTableAssumption ==
    /\ Packets \subseteq Key
    /\ HomePrefix \in [Homes -> Prefix]
    /\ FlowLengths \cup HomeLengths \subseteq 0 .. Bits - 1
    /\ MaxPackets \in Nat

VARIABLES
    table,   \* test_dict: fwd_key -> flow(ipf, ..)
    nip,     \* IP packets counted
    last,    \* the fkey of the last of them, in a set; empty before the first
    home,    \* the address bytes behind each home prefix
    filed    \* the home_key each packet was filed under

vars == <<table, nip, last, home, filed>>

Keys == Packets \cup {Rev(k) : k \in Packets}

\* An entry: the fkey of the IPflow kept with it, and its two counts.
Entry == [ipf : Key, fwd : Nat, rev : Nat]

HomeNow == {home[h] : h \in Homes}
HomeAtFirst == {HomePrefix[h] : h \in Homes}

-----------------------------------------------------------------------------
(* test-IPflowDict.py *)

NewEntry(k) == [ipf |-> k, fwd |-> 1, rev |-> 0]

Has(k) == k \in DOMAIN table

Insert(k) ==
    table' = [x \in DOMAIN table \cup {k} |->
                IF x = k THEN NewEntry(k) ELSE table[x]]

CountFwd(k) == table' = [table EXCEPT ![k].fwd = @ + 1]

\* Mutant: a reverse packet is counted as forward.
CountRevAsFwd(k) == table' = [table EXCEPT ![k].fwd = @ + 1]

CountRev(k) == table' = [table EXCEPT ![k].rev = @ + 1]

\* Mutant: the reverse key is not looked up.
LookupFwdOnly(k) ==
    \/ Has(k) /\ CountFwd(k)
    \/ ~Has(k) /\ Insert(k)

Lookup(k) ==
    \/ Has(k) /\ CountFwd(k)
    \/ ~Has(k) /\ Has(Rev(k)) /\ CountRev(Rev(k))
    \/ ~Has(k) /\ ~Has(Rev(k)) /\ Insert(k)

CountPacket(k) ==
    /\ nip < MaxPackets
    /\ nip' = nip + 1
    /\ last' = {k}
    /\ Lookup(k)
    /\ UNCHANGED <<home, filed>>

-----------------------------------------------------------------------------
(* A FlowHome program *)

FilePacket(k) ==
    /\ filed' = filed \cup {[key |-> k, under |-> HomeKey(HomeNow, k)]}
    /\ UNCHANGED <<table, nip, last, home>>

-----------------------------------------------------------------------------
(* network(n) of a stored flow's src_prefix or dst_prefix, or of a home     *)
(* prefix                                                                   *)

NetworkOfFlow(k, end, n) ==
    /\ Has(k)
    /\ table' = [table EXCEPT ![k].ipf[end] = AfterNetwork(@, n)]
    /\ UNCHANGED <<nip, last, home, filed>>

NetworkOfHome(h, n) ==
    /\ home' = [home EXCEPT ![h].addr = AfterNetwork(@, n)]
    /\ UNCHANGED <<table, nip, last, filed>>

-----------------------------------------------------------------------------

NoEntries == [k \in {} |-> NewEntry(k)]

Init ==
    /\ table = NoEntries
    /\ nip = 0
    /\ last = {}
    /\ home = HomePrefix
    /\ filed = {}

Next ==
    \/ \E k \in Packets : CountPacket(k) \/ FilePacket(k)
    \/ \E k \in Keys, end \in {"saddr", "daddr"}, n \in FlowLengths :
         NetworkOfFlow(k, end, n)
    \/ \E h \in Homes, n \in HomeLengths : NetworkOfHome(h, n)

Spec == Init /\ [][Next]_vars

-----------------------------------------------------------------------------
(* Properties *)

\* Entries and prefixes keep their form.
TypeOK ==
    /\ DOMAIN table \subseteq Keys
    /\ table \in [DOMAIN table -> Entry]
    /\ nip \in Nat
    /\ last \subseteq Packets
    /\ home \in [Homes -> Prefix]
    /\ filed \subseteq [key : Packets, under : Keys]

\* The two directions of a flow never get an entry each, whatever order their
\* packets come in and whatever network() did to the flows in the table.
OneEntryPerFlow ==
    \A k \in DOMAIN table : Rev(k) \in DOMAIN table => Rev(k) = k

\* Packets counted for a key: in its own entry if it is the forward key.
Counted(k) ==
    IF Has(k) THEN table[k].fwd
    ELSE IF Has(Rev(k)) THEN table[Rev(k)].rev ELSE 0

\* The dictionary is a table of packet counts for each direction, in which
\* the first packet of a flow is forward (doc/natkit.html): each packet adds
\* one to the count of its own direction, wherever that is kept.
Counts == INSTANCE PacketCounts
            WITH counts <- [k \in Keys |-> Counted(k)],
                 forward <- DOMAIN table

ImplementsCounts == Counts!Spec

\* network() has not cleared a bit that a home prefix compares.
HomeKept == \A h \in Homes : IsPrefix(HomePrefix[h], home[h].addr)

\* Both directions of a flow with one end at home are filed under one key,
\* although network() may be writing to the home prefixes, as long as it
\* leaves alone the bits that they compare.
OneHomeEntry ==
    HomeKept =>
        \A f, g \in filed :
            g.key \in {f.key, Rev(f.key)} /\ IsInward(HomeAtFirst, f.key)
                => f.under = g.under

=============================================================================
