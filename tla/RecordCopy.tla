------------------------------ MODULE RecordCopy ------------------------------
(***************************************************************************)
(* What a program that copies records promises: of the records of a trace   *)
(* it copies the wanted ones, each once, in their order, and gives them the *)
(* form that it is to give them.                                            *)
(***************************************************************************)
EXTENDS Naturals, Sequences

VARIABLES
    wanted,   \* the numbers of the records to copy
    changed,  \* those of them to be changed
    copied    \* the copies: their records' numbers, and whether changed

vars == <<wanted, changed, copied>>

-----------------------------------------------------------------------------

Numbers == {copied[i].rec : i \in DOMAIN copied}

Init ==
    /\ wanted \subseteq Nat
    /\ changed \subseteq wanted
    /\ copied = <<>>

Copy(r) ==
    /\ r \in wanted \ Numbers
    /\ \A q \in wanted : q < r => q \in Numbers
    /\ copied' = Append(copied, [rec |-> r, changed |-> r \in changed])
    /\ UNCHANGED <<wanted, changed>>

Next == \E r \in wanted : Copy(r)

Spec == Init /\ [][Next]_vars

=============================================================================
