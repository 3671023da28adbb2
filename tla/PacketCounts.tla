----------------------------- MODULE PacketCounts -----------------------------
(***************************************************************************)
(* What a table of flows promises, whatever its layout: how many packets    *)
(* were seen with each key, the two directions of a flow told apart, and    *)
(* which direction came first.                                              *)
(***************************************************************************)
EXTENDS FlowKeys

CONSTANT Packets    \* the keys of the packets that may be seen

VARIABLES
    last,       \* the packet just seen: no key before the first, else one
    counts,     \* packets seen with each key
    forward     \* the keys in forward order, one for each flow seen

Keys == Packets \cup {Rev(k) : k \in Packets}

Init == last = {} /\ counts = [k \in Keys |-> 0] /\ forward = {}

See(k) ==
    /\ last' = {k}
    /\ counts' = [counts EXCEPT ![k] = @ + 1]
    /\ forward' = IF k \in forward \/ Rev(k) \in forward
                  THEN forward ELSE forward \cup {k}

Next == \E k \in Packets : See(k)

Spec == Init /\ [][Next]_<<last, counts, forward>>

=============================================================================
