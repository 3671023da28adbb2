----------------------------- MODULE PayloadWalks -----------------------------
(***************************************************************************)
(* The loops of plt.py that walk over what a packet says about its own      *)
(* lengths: _tcp_obj.option_numbers and option(n) over the options of a TCP *)
(* header, _sctp_obj.chunks over the chunks of an SCTP packet.  One action  *)
(* is one turn of a loop.                                                   *)
(***************************************************************************)
EXTENDS Integers, Sequences

CONSTANTS
    Packets,    \* the TCP and SCTP objects a program may have
    Wanted,     \* the option numbers it asks for
    MaxChunks   \* bound: chunks in a list, which may grow for ever

Octet == 0 .. 255

\* A TCP object has the options' length by the header's own length, how much
\* was captured after the fixed header, and the options' octets; an SCTP object
\* has what was captured after the common header.
ASSUME PayloadWalksAssumption ==
    /\ \A p \in Packets :
         /\ p.proto \in {"tcp", "sctp"} /\ p.o_len \in Int /\ p.left \in Int
         /\ p.octs \in [0 .. (IF p.proto = "tcp" THEN p.o_len ELSE p.left) - 1
                          -> Octet]
    /\ Wanted \subseteq 2 .. 255
    /\ MaxChunks \in Nat

VARIABLES
    pkt,      \* the object, fixed once chosen
    call,     \* the property being read
    x,        \* the loop's cursor, from the first option or chunk
    out,      \* o_nbrs or chunk_list, with the place of each element
    listed,   \* what option_numbers or chunks gave last
    option    \* what option(n) gave last

vars == <<pkt, call, x, out, listed, option>>

-----------------------------------------------------------------------------
(* TCP options: what is at octet y of them *)

\* The header is longer than its fixed part, and all of it was captured.
HasOptions == pkt.proto = "tcp" /\ pkt.o_len > 0 /\ pkt.left >= pkt.o_len

Kind(y) == pkt.octs[y]
TLen(y) == pkt.octs[y + 1]

EndsAt(y) == y < pkt.o_len => Kind(y) = 0
NopAt(y) == ~EndsAt(y) /\ Kind(y) = 1
OptionAt(y) == ~EndsAt(y) /\ Kind(y) # 1
NoLengthAt(y) == OptionAt(y) /\ y + 1 >= pkt.o_len
TooLongAt(y) == OptionAt(y) /\ y + 1 < pkt.o_len /\ y + TLen(y) > pkt.o_len
WholeAt(y) == OptionAt(y) /\ y + 1 < pkt.o_len /\ y + TLen(y) <= pkt.o_len

TcpOption(y) == [at |-> y, kind |-> Kind(y), len |-> TLen(y)]

-----------------------------------------------------------------------------
(* The calls *)

Begin(c) == call' = c /\ x' = 0 /\ out' = <<>>
Gave(ans) == listed' = [ans |-> ans, list |-> out']

\* The loop goes on; it returns.
GoOn(y) == x' = y /\ UNCHANGED <<call, listed>>
Return(ans) == call' = "idle" /\ x' = x /\ Gave(ans)

\* Without options the answer is None, at once.
AskNumbers ==
    /\ pkt.proto = "tcp" /\ call = "idle"
    /\ \/ HasOptions /\ Begin("option_numbers") /\ UNCHANGED listed
       \/ ~HasOptions /\ Begin("idle") /\ Gave("None")
    /\ UNCHANGED <<pkt, option>>

\* Mutants: a kind in the last octet ends the list; a length that says more
\* than there is is believed; an option is listed before its length is looked at.
NumbersStepNoIndexError ==
    /\ call = "option_numbers"
    /\ \/ /\ EndsAt(x) \/ TooLongAt(x) \/ NoLengthAt(x)
          /\ out' = out /\ Return("list")
       \/ NopAt(x) /\ out' = out /\ GoOn(x + 1)
       \/ /\ WholeAt(x) /\ out' = Append(out, TcpOption(x))
          /\ IF TLen(x) # 0 THEN GoOn(x + TLen(x)) ELSE Return("list")
    /\ UNCHANGED <<pkt, option>>

NumbersStepBelieving ==
    /\ call = "option_numbers"
    /\ \/ EndsAt(x) /\ out' = out /\ Return("list")
       \/ NoLengthAt(x) /\ out' = out /\ Return("raised")
       \/ NopAt(x) /\ out' = out /\ GoOn(x + 1)
       \/ /\ (WholeAt(x) \/ TooLongAt(x)) /\ out' = Append(out, TcpOption(x))
          /\ IF TLen(x) # 0 THEN GoOn(x + TLen(x)) ELSE Return("list")
    /\ UNCHANGED <<pkt, option>>

NumbersStepEager ==
    /\ call = "option_numbers"
    /\ \/ EndsAt(x) /\ out' = out /\ Return("list")
       \/ NoLengthAt(x) /\ out' = out /\ Return("raised")
       \/ NopAt(x) /\ out' = out /\ GoOn(x + 1)
       \/ /\ (WholeAt(x) \/ TooLongAt(x)) /\ out' = Append(out, TcpOption(x))
          /\ IF TLen(x) # 0 /\ WholeAt(x) THEN GoOn(x + TLen(x))
             ELSE Return("list")
    /\ UNCHANGED <<pkt, option>>

\* A kind in the last octet has no length to look at, which raises; a length
\* that says more than there is ends the list; so does one of zero, but that
\* option is listed.
NumbersStep ==
    /\ call = "option_numbers"
    /\ \/ (EndsAt(x) \/ TooLongAt(x)) /\ out' = out /\ Return("list")
       \/ NoLengthAt(x) /\ out' = out /\ Return("raised")
       \/ NopAt(x) /\ out' = out /\ GoOn(x + 1)
       \/ /\ WholeAt(x) /\ out' = Append(out, TcpOption(x))
          /\ IF TLen(x) # 0 THEN GoOn(x + TLen(x)) ELSE Return("list")
    /\ UNCHANGED <<pkt, option>>

AskOption(n) ==
    /\ pkt.proto = "tcp" /\ call = "idle"
    /\ \/ HasOptions /\ Begin("option") /\ option' = [nbr |-> n, ans |-> "asked"]
       \/ ~HasOptions /\ Begin("idle") /\ option' = [nbr |-> n, ans |-> "None"]
    /\ UNCHANGED <<pkt, listed>>

Answer(ans) ==
    call' = "idle" /\ x' = x /\ option' = [option EXCEPT !.ans = ans]

\* Where the loop goes from octet y, if it does.
GoesFrom(y) == NopAt(y) \/ (WholeAt(y) /\ TLen(y) # 0)
NextFrom(y) == y + IF NopAt(y) THEN 1 ELSE TLen(y)

\* The value of an option with a length below two is a slice that ends before
\* it starts, which raises.
OptionStep ==
    /\ call = "option"
    /\ \/ (EndsAt(x) \/ TooLongAt(x)) /\ Answer("None")
       \/ NoLengthAt(x) /\ Answer("raised")
       \/ /\ WholeAt(x) /\ Kind(x) = option.nbr
          /\ \/ TLen(x) = 2 /\ Answer("True")
             \/ TLen(x) < 2 /\ Answer("raised")
             \/ TLen(x) > 2 /\ Answer("value")
       \/ /\ ~(WholeAt(x) /\ Kind(x) = option.nbr)
          /\ GoesFrom(x) /\ x' = NextFrom(x) /\ UNCHANGED <<call, option>>
       \/ WholeAt(x) /\ Kind(x) # option.nbr /\ TLen(x) = 0 /\ Answer("None")
    /\ UNCHANGED <<pkt, out, listed>>

-----------------------------------------------------------------------------
(* SCTP chunks *)

AskChunks ==
    /\ pkt.proto = "sctp" /\ call = "idle"
    /\ \/ pkt.left >= 4 /\ Begin("chunks") /\ UNCHANGED listed
       \/ pkt.left < 4 /\ Begin("idle") /\ Gave("None")
    /\ UNCHANGED <<pkt, option>>

\* The octets left at the cursor, what the chunk there says, and what of it
\* is there.
Rem == pkt.left - x
Clen == 256 * pkt.octs[x + 2] + pkt.octs[x + 3]
Alen == IF Rem < Clen THEN Rem ELSE Clen

SctpChunk == [at |-> x, kind |-> Kind(x), len |-> Alen, clen |-> Clen]
IsOk(ch) == ch.len = ch.clen

\* Mutants: the cursor moves by what the chunk claims; a chunk that is too
\* short for a length has none.
ChunksStepClaimed ==
    /\ call = "chunks" /\ Len(out) < MaxChunks
    /\ \/ Rem <= 0 /\ out' = out /\ Return("list")
       \/ Rem \in 1 .. 3 /\ out' = out /\ Return("raised")
       \/ Rem >= 4 /\ out' = Append(out, SctpChunk) /\ GoOn(x + Clen)
    /\ UNCHANGED <<pkt, option>>

ChunksStepNoLength ==
    /\ call = "chunks" /\ Len(out) < MaxChunks
    /\ \/ Rem = 0 /\ out' = out /\ Return("list")
       \/ /\ Rem \in 1 .. 3 /\ GoOn(x)
          /\ out' = Append(out, [at |-> x, kind |-> Kind(x), len |-> 0,
                                 clen |-> 0])
       \/ Rem >= 4 /\ out' = Append(out, SctpChunk) /\ GoOn(x + Alen)
    /\ UNCHANGED <<pkt, option>>

\* The constructor of a chunk with fewer than four octets returns before it
\* sets alen, and the loop's use of alen raises.  A chunk with a length of zero
\* is appended for ever.
ChunksStep ==
    /\ call = "chunks" /\ Len(out) < MaxChunks
    /\ \/ Rem = 0 /\ out' = out /\ Return("list")
       \/ Rem \in 1 .. 3 /\ out' = out /\ Return("raised")
       \/ Rem >= 4 /\ out' = Append(out, SctpChunk) /\ GoOn(x + Alen)
    /\ UNCHANGED <<pkt, option>>

-----------------------------------------------------------------------------

Init ==
    /\ pkt \in Packets
    /\ call = "idle" /\ x = 0 /\ out = <<>>
    /\ listed = [ans |-> "unasked", list |-> <<>>]
    /\ option = [nbr |-> 0, ans |-> "unasked"]

Step == NumbersStep \/ OptionStep \/ ChunksStep

Next ==
    \/ AskNumbers \/ AskChunks \/ \E n \in Wanted : AskOption(n)
    \/ Step

\* A call that was made runs on; the program need not make another.
Spec == Init /\ [][Next]_vars /\ WF_vars(Step)

-----------------------------------------------------------------------------
(* Properties *)

\* How far a loop can get.
Extent == IF pkt.proto = "sctp" /\ pkt.left >= 4 THEN pkt.left
          ELSE IF HasOptions THEN pkt.o_len ELSE 0

Elements == [at : Nat, kind : Octet, len : Nat]
              \cup [at : Nat, kind : Octet, len : Nat, clen : Nat]

\* The cursor never leaves the options or the captured chunks; loops run only
\* on objects of their class.
TypeOK ==
    /\ pkt \in Packets
    /\ call \in {"idle"} \cup IF HasOptions THEN {"option_numbers", "option"}
                             ELSE IF Extent > 0 THEN {"chunks"} ELSE {}
    /\ x \in 0 .. Extent
    /\ out \in Seq(Elements)
    /\ listed \in [ans : {"unasked", "None", "list", "raised"},
                   list : Seq(Elements)]
    /\ option \in [nbr : {0} \cup Wanted,
                   ans : {"unasked", "asked", "None", "True", "value", "raised"}]

\* The list is that of a walk without gaps back or overlaps, and o_nbrs, which
\* has as many octets as the options, is never too small for it.
OptionsFit ==
    pkt.proto = "tcp" =>
        /\ Len(out) <= Extent
        /\ \A i \in 1 .. Len(out) : out[i].at + out[i].len <= Extent
        /\ \A i, j \in 1 .. Len(out) :
             i < j => out[i].at + out[i].len <= out[j].at

Kinds(list) == {list[i].kind : i \in 1 .. Len(list)}

\* option(n) and option_numbers walk the same options, whatever their octets:
\* n has a value (or one that raises) just when it is listed, and is not
\* missed where the list could not be made.
OptionAgrees ==
    /\ pkt.proto = "tcp" /\ listed.ans # "unasked"
    /\ option.ans \notin {"unasked", "asked"}
    => /\ listed.ans = "None" => option.ans = "None"
       /\ listed.ans = "list" =>
            (option.ans = "None" <=> option.nbr \notin Kinds(listed.list))
       /\ listed.ans = "raised" => option.ans # "None"

\* Chunks follow one another from the first octet, none but the last is cut
\* short, and a list that is returned covers all that was captured.
ChunksCover ==
    pkt.proto = "sctp" =>
        /\ \A i \in 1 .. Len(out) :
             out[i].at = IF i = 1 THEN 0 ELSE out[i - 1].at + out[i - 1].len
        /\ \A i \in 1 .. Len(out) : IsOk(out[i]) \/ i = Len(out)
        /\ Len(out) > 0 => x = out[Len(out)].at + out[Len(out)].len
        /\ call = "idle" /\ listed.ans = "list" => x = pkt.left

\* Every call ends, but for chunks where a chunk has the length zero.
ZeroChunk == call = "chunks" /\ Rem >= 4 /\ Clen = 0

CallsEnd == call # "idle" ~> call = "idle" \/ ZeroChunk

=============================================================================
