------------------------------- MODULE FlowKeys -------------------------------
(***************************************************************************)
(* Values of natkit and ipp: addresses, prefixes, and the fkey4 / fkey6     *)
(* structs that name a flow.  An address is its bits, bit 0 the leftmost;   *)
(* IPv4 and IPv6 addresses differ in version and not in width.              *)
(***************************************************************************)
EXTENDS Integers

CONSTANTS
    Octets,      \* in an address
    OctetBits    \* in an octet

ASSUME FlowKeysAssumption == Octets \in Nat \ {0} /\ OctetBits \in Nat \ {0}

Bits == Octets * OctetBits
Addr == [0 .. Bits - 1 -> {0, 1}]
Prefix == [version : {4, 6}, addr : Addr, length : 0 .. Bits]

Key == [version : {4, 6}, proto : Nat, sport : Nat, dport : Nat,
        saddr : Addr, daddr : Addr]

-----------------------------------------------------------------------------
(* ipp *)

\* IPprefix.is_prefix, for an address that was given no length.
IsPrefix(p, a) == \A i \in 0 .. p.length - 1 : p.addr[i] = a[i]

\* Mutant: one octet too many is cleared, past the end of the address.
AfterNetworkPastEnd(a, n) ==
    [i \in 0 .. Bits + OctetBits - 1 |->
        IF i \div OctetBits > n \div OctetBits THEN 0 ELSE a[i]]

\* What c_mask_network leaves in the address it is asked to mask: it clears
\* the octets after the boundary there, and not in the copy it returns.
AfterNetwork(a, n) ==
    [i \in 0 .. Bits - 1 |->
        IF i \div OctetBits > n \div OctetBits THEN 0 ELSE a[i]]

-----------------------------------------------------------------------------
(* natkit *)

\* rev_key
Rev(k) == [k EXCEPT !.sport = k.dport, !.dport = k.sport,
                    !.saddr = k.daddr, !.daddr = k.saddr]

\* addr_in_home
InHome(ps, v, a) == \E p \in ps : p.version = v /\ IsPrefix(p, a)

\* Mutant: the addresses change places and the ports do not.
HomeKeyPortsKept(ps, k) ==
    IF InHome(ps, k.version, k.daddr) THEN k
    ELSE [k EXCEPT !.saddr = k.daddr, !.daddr = k.saddr]

\* home_key
HomeKey(ps, k) == IF InHome(ps, k.version, k.daddr) THEN k ELSE Rev(k)

\* is_inward: one end is at home, whichever it is.
IsInward(ps, k) ==
    InHome(ps, k.version, k.daddr) <=> ~InHome(ps, k.version, k.saddr)

=============================================================================
