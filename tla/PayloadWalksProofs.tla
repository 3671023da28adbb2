-------------------------- MODULE PayloadWalksProofs --------------------------
(***************************************************************************)
(* Proofs of PayloadWalks's properties, for options and chunks of any octets *)
(* and any lengths.  That the two option loops agree follows from what they  *)
(* have in common: Path, the octets that a walk from the first can reach.    *)
(***************************************************************************)
EXTENDS PayloadWalks, TLAPS

-----------------------------------------------------------------------------
(* Types *)

LEMMA PacketType ==
    ASSUME TypeOK
    PROVE  /\ pkt.proto \in {"tcp", "sctp"} /\ pkt.o_len \in Int
           /\ pkt.left \in Int /\ Extent \in Nat /\ x \in Nat /\ x <= Extent
           /\ pkt.octs \in [0 .. (IF pkt.proto = "tcp" THEN pkt.o_len
                                  ELSE pkt.left) - 1 -> Octet]
           /\ HasOptions => Extent = pkt.o_len /\ pkt.proto = "tcp"
  <1>1. /\ pkt.proto \in {"tcp", "sctp"} /\ pkt.o_len \in Int
        /\ pkt.left \in Int
        /\ pkt.octs \in [0 .. (IF pkt.proto = "tcp" THEN pkt.o_len
                               ELSE pkt.left) - 1 -> Octet]
    BY PayloadWalksAssumption DEF TypeOK
  <1>2. Extent \in Nat
    BY <1>1 DEF Extent, HasOptions
  <1> QED
    BY <1>1, <1>2 DEF TypeOK, Extent, HasOptions

\* Which loop can run, and how far it may get.
LEMMA WalkType ==
    ASSUME TypeOK
    PROVE  /\ call \in {"option_numbers", "option"} =>
                HasOptions /\ Extent = pkt.o_len
           /\ call = "chunks" => ~HasOptions /\ pkt.proto = "sctp"
                                 /\ Extent = pkt.left /\ pkt.left >= 4
  <1>1. call \in {"option_numbers", "option"} => HasOptions
    BY DEF TypeOK
  <1>2. call = "chunks" => ~HasOptions /\ Extent > 0
    BY DEF TypeOK
  <1> QED
    BY <1>1, <1>2, PacketType DEF Extent

LEMMA OptionType ==
    ASSUME TypeOK, HasOptions, NEW y \in Nat
    PROVE  /\ WholeAt(y) => /\ TcpOption(y) \in Elements
                            /\ TLen(y) \in Nat /\ y + TLen(y) <= pkt.o_len
                            /\ y < pkt.o_len
           /\ NopAt(y) => y + 1 <= pkt.o_len
           /\ GoesFrom(y) => /\ NextFrom(y) \in Nat /\ y < NextFrom(y)
                             /\ NextFrom(y) <= pkt.o_len
  <1>1. /\ pkt.o_len \in Nat /\ pkt.octs \in [0 .. pkt.o_len - 1 -> Octet]
    BY PacketType
  <1>2. ~EndsAt(y) => y < pkt.o_len /\ Kind(y) \in Octet
    BY <1>1 DEF EndsAt, Kind
  <1>3. WholeAt(y) => TLen(y) \in Octet /\ y + TLen(y) <= pkt.o_len
    BY <1>1 DEF WholeAt, TLen
  <1>4. WholeAt(y) => TcpOption(y) \in Elements
    BY <1>2, <1>3 DEF WholeAt, OptionAt, TcpOption, Elements, Octet
  <1>5. NopAt(y) => y + 1 <= pkt.o_len
    BY <1>1, <1>2 DEF NopAt
  <1> QED
    BY <1>2, <1>3, <1>4, <1>5
    DEF WholeAt, OptionAt, GoesFrom, NextFrom, Octet, NopAt

LEMMA ChunkType ==
    ASSUME TypeOK, call = "chunks", Rem >= 4
    PROVE  /\ SctpChunk \in Elements /\ Clen \in Nat /\ Alen \in Nat
           /\ Alen <= Rem /\ Alen <= Clen
           /\ Alen = Clen \/ Alen = Rem
  <1>1. /\ x \in Nat /\ pkt.left \in Nat /\ pkt.octs \in [0 .. pkt.left - 1 -> Octet]
    BY PacketType, WalkType
  <1>2. /\ x \in 0 .. pkt.left - 1 /\ x + 2 \in 0 .. pkt.left - 1
        /\ x + 3 \in 0 .. pkt.left - 1
    BY <1>1 DEF Rem
  <1>3. Kind(x) \in Octet /\ Clen \in Nat /\ Rem \in Nat
    <2>1. /\ pkt.octs[x] \in Octet /\ pkt.octs[x + 2] \in 0 .. 255
          /\ pkt.octs[x + 3] \in 0 .. 255
      BY <1>1, <1>2 DEF Octet
    <2>2. Clen \in Nat
      <3>1. \A a, b \in 0 .. 255 : 256 * a + b \in Nat
        OBVIOUS
      <3> QED
        BY <2>1, <3>1 DEF Clen
    <2> QED
      BY <1>1, <2>1, <2>2 DEF Kind, Rem
  <1>4. Alen \in Nat /\ Alen <= Rem /\ Alen <= Clen /\ (Alen = Clen \/ Alen = Rem)
    BY <1>3 DEF Alen
  <1> QED
    BY <1>1, <1>3, <1>4 DEF SctpChunk, Elements

LEMMA InitType == Init => TypeOK
  BY PayloadWalksAssumption DEF Init, TypeOK, Extent, HasOptions

LEMMA NumbersType ==
    ASSUME TypeOK, NumbersStep
    PROVE  TypeOK'
  <1>1. HasOptions /\ x \in Nat /\ Extent = pkt.o_len /\ x <= pkt.o_len
    BY WalkType, PacketType DEF NumbersStep
  <1>2. Extent' = Extent /\ HasOptions' = HasOptions /\ pkt' = pkt
    BY DEF NumbersStep, Extent, HasOptions
  <1>3. out' \in Seq(Elements)
    <2>1. out \in Seq(Elements)
      BY DEF TypeOK
    <2>2. out' = out \/ (WholeAt(x) /\ out' = Append(out, TcpOption(x)))
      BY DEF NumbersStep
    <2> QED
      BY <1>1, <2>1, <2>2, OptionType
  <1>4. x' \in 0 .. Extent'
    BY <1>1, <1>2, OptionType, PacketType DEF NumbersStep, GoOn, Return
  <1>5. /\ call' \in {"idle", "option_numbers"} /\ option' = option
        /\ listed' \in [ans : {"unasked", "None", "list", "raised"},
                        list : Seq(Elements)]
    BY <1>3 DEF NumbersStep, GoOn, Return, Gave, TypeOK
  <1> QED
    BY <1>1, <1>2, <1>3, <1>4, <1>5 DEF TypeOK

LEMMA OptionStepType ==
    ASSUME TypeOK, OptionStep
    PROVE  TypeOK'
  <1>1. HasOptions /\ x \in Nat /\ Extent = pkt.o_len /\ x <= pkt.o_len
    BY WalkType, PacketType DEF OptionStep
  <1>2. Extent' = Extent /\ HasOptions' = HasOptions /\ pkt' = pkt
    BY DEF OptionStep, Extent, HasOptions
  <1>3. x' \in 0 .. Extent'
    BY <1>1, <1>2, OptionType, PacketType DEF OptionStep, Answer
  <1>4. call' \in {"idle", "option"} /\ UNCHANGED <<out, listed>>
    BY DEF OptionStep, Answer
  <1>5. option' \in [nbr : {0} \cup Wanted,
                     ans : {"unasked", "asked", "None", "True", "value", "raised"}]
    BY DEF OptionStep, Answer, TypeOK
  <1> QED
    BY <1>1, <1>2, <1>3, <1>4, <1>5 DEF TypeOK

LEMMA ChunksType ==
    ASSUME TypeOK, ChunksStep
    PROVE  TypeOK'
  <1>1. /\ call = "chunks" /\ ~HasOptions /\ x \in Nat /\ pkt.left \in Nat
        /\ Extent = pkt.left /\ x <= pkt.left /\ Extent > 0
    BY WalkType, PacketType DEF ChunksStep
  <1>2. Extent' = Extent /\ HasOptions' = HasOptions /\ pkt' = pkt
    BY DEF ChunksStep, Extent, HasOptions
  <1>3. out' \in Seq(Elements)
    <2>1. out \in Seq(Elements)
      BY DEF TypeOK
    <2>2. out' = out \/ (Rem >= 4 /\ out' = Append(out, SctpChunk))
      BY DEF ChunksStep
    <2> QED
      BY <1>1, <2>1, <2>2, ChunkType
  <1>4. x' \in 0 .. Extent'
    BY <1>1, <1>2, ChunkType DEF ChunksStep, GoOn, Return, Rem
  <1>5. /\ call' \in {"idle", "chunks"} /\ option' = option
        /\ listed' \in [ans : {"unasked", "None", "list", "raised"},
                        list : Seq(Elements)]
    BY <1>1, <1>3 DEF ChunksStep, GoOn, Return, Gave, TypeOK
  <1> QED
    BY <1>1, <1>2, <1>3, <1>4, <1>5 DEF TypeOK

LEMMA AskType ==
    ASSUME TypeOK, AskNumbers \/ AskChunks \/ \E n \in Wanted : AskOption(n)
    PROVE  TypeOK'
  <1>1. Extent \in Nat /\ Extent' = Extent /\ HasOptions' = HasOptions /\ pkt' = pkt
    BY PacketType DEF AskNumbers, AskChunks, AskOption, Extent, HasOptions
  <1>2. x' = 0 /\ out' = <<>>
    BY DEF AskNumbers, AskChunks, AskOption, Begin
  <1>3. listed' \in [ans : {"unasked", "None", "list", "raised"},
                     list : Seq(Elements)]
    <2>1. out' \in Seq(Elements)
      BY <1>2
    <2> QED
      BY <2>1 DEF AskNumbers, AskChunks, AskOption, Gave, TypeOK
  <1>4. option' \in [nbr : {0} \cup Wanted,
                     ans : {"unasked", "asked", "None", "True", "value", "raised"}]
    BY DEF AskNumbers, AskChunks, AskOption, TypeOK
  <1>5. call' \in {"idle"} \cup IF HasOptions THEN {"option_numbers", "option"}
                                ELSE IF Extent > 0 THEN {"chunks"} ELSE {}
    <2>1. pkt.proto = "sctp" /\ pkt.left >= 4 => Extent > 0 /\ ~HasOptions
      BY PacketType DEF Extent, HasOptions
    <2> QED
      BY <2>1 DEF AskNumbers, AskChunks, AskOption, Begin
  <1> QED
    BY <1>1, <1>2, <1>3, <1>4, <1>5 DEF TypeOK

LEMMA NextType == TypeOK /\ [Next]_vars => TypeOK'
  <1> SUFFICES ASSUME TypeOK, [Next]_vars PROVE TypeOK'
    OBVIOUS
  <1>1. CASE UNCHANGED vars
    BY <1>1 DEF vars, TypeOK, Extent, HasOptions
  <1> QED
    BY <1>1, NumbersType, OptionStepType, ChunksType, AskType DEF Next, Step

\* No loop runs on past the options or the chunks that were captured, whatever
\* lengths the octets claim (TypeOK).
THEOREM TypeCorrect == Spec => []TypeOK
  BY InitType, NextType, PTL DEF Spec

-----------------------------------------------------------------------------
(* Options fit *)

\* While option_numbers runs, what it has listed lies behind the cursor, and
\* each option took an octet at least.
FitInv ==
    /\ OptionsFit
    /\ call = "option_numbers" =>
         /\ Len(out) <= x
         /\ \A i \in 1 .. Len(out) : out[i].at + out[i].len <= x

\* What the proofs need of sequences.
LEMMA AppendFacts ==
    ASSUME NEW S, NEW s \in Seq(S), NEW e \in S
    PROVE  /\ Append(s, e) \in Seq(S) /\ Len(Append(s, e)) = Len(s) + 1
           /\ Len(s) \in Nat
           /\ \A i \in 1 .. Len(s) : Append(s, e)[i] = s[i] /\ s[i] \in S
           /\ Append(s, e)[Len(s) + 1] = e
  OBVIOUS

LEMMA OutType ==
    ASSUME TypeOK
    PROVE  /\ out \in Seq(Elements) /\ Len(out) \in Nat
           /\ \A i \in 1 .. Len(out) : out[i].at \in Nat /\ out[i].len \in Nat
  <1>1. out \in Seq(Elements) /\ Len(out) \in Nat
    BY DEF TypeOK
  <1>2. \A e \in Elements : e.at \in Nat /\ e.len \in Nat
    BY DEF Elements
  <1> QED
    BY <1>1, <1>2

LEMMA FitNumbers ==
    ASSUME TypeOK, FitInv, NumbersStep
    PROVE  FitInv'
  <1>1. /\ HasOptions /\ x \in Nat /\ Extent = pkt.o_len /\ x <= pkt.o_len
        /\ pkt.o_len \in Int /\ pkt.proto = "tcp"
    BY WalkType, PacketType DEF NumbersStep
  <1>2. Extent' = Extent /\ pkt' = pkt
    BY DEF NumbersStep, Extent, HasOptions
  <1>3. /\ Len(out) <= x
        /\ \A i \in 1 .. Len(out) : out[i].at + out[i].len <= x
        /\ \A i, j \in 1 .. Len(out) :
             i < j => out[i].at + out[i].len <= out[j].at
    BY <1>1 DEF NumbersStep, FitInv, OptionsFit
  <1>4. CASE out' = out /\ x' \in Nat /\ x <= x' /\ x' <= pkt.o_len
    BY <1>1, <1>2, <1>3, <1>4, OutType DEF FitInv, OptionsFit
  <1>5. CASE WholeAt(x) /\ out' = Append(out, TcpOption(x))
    <2>1. /\ TcpOption(x) \in Elements /\ TLen(x) \in Nat
          /\ x + TLen(x) <= pkt.o_len /\ x < pkt.o_len
      BY <1>1, <1>5, OptionType
    <2>2. TcpOption(x).at = x /\ TcpOption(x).len = TLen(x)
      BY DEF TcpOption
    <2>3. /\ Len(out') = Len(out) + 1 /\ out'[Len(out) + 1] = TcpOption(x)
          /\ \A i \in 1 .. Len(out) : out'[i] = out[i]
      BY <1>5, <2>1, OutType, AppendFacts
    <2>4. \A i \in 1 .. Len(out') : i \in 1 .. Len(out) \/ i = Len(out) + 1
      BY <2>3, OutType
    <2>5. Len(out') <= pkt.o_len
      BY <1>1, <1>3, <2>1, <2>3, OutType
    <2>6. \A i \in 1 .. Len(out') : out'[i].at + out'[i].len <= x + TLen(x)
      BY <1>1, <1>3, <2>1, <2>2, <2>3, <2>4, OutType
    <2>7. \A i, j \in 1 .. Len(out') :
            i < j => out'[i].at + out'[i].len <= out'[j].at
      BY <1>3, <2>2, <2>3, <2>4, OutType
    <2>8. call' = "option_numbers" => x' = x + TLen(x) /\ TLen(x) # 0
      BY <1>5 DEF NumbersStep, GoOn, Return, WholeAt, NopAt, OptionAt,
                  TooLongAt, NoLengthAt
    <2>9. OptionsFit'
      <3>1. \A i \in 1 .. Len(out') : out'[i].at + out'[i].len <= pkt.o_len
        <4>1. \A i \in 1 .. Len(out') : out'[i].at + out'[i].len \in Nat
          BY <1>1, <2>1, <2>2, <2>3, <2>4, OutType
        <4> QED
          BY <1>1, <2>1, <2>6, <4>1
      <3> QED
        BY <1>1, <1>2, <2>5, <2>7, <3>1 DEF OptionsFit
    <2>10. call' = "option_numbers" => Len(out') <= x'
      BY <1>1, <1>3, <2>1, <2>3, <2>8, OutType
    <2> QED
      BY <2>6, <2>8, <2>9, <2>10 DEF FitInv
  <1> QED
    BY <1>1, <1>4, <1>5, OptionType DEF NumbersStep, GoOn, Return

LEMMA FitOthers ==
    ASSUME TypeOK, FitInv,
           \/ OptionStep \/ AskNumbers \/ \E n \in Wanted : AskOption(n)
           \/ AskChunks \/ ChunksStep \/ UNCHANGED vars
    PROVE  FitInv'
  <1>1. Extent' = Extent /\ pkt' = pkt /\ Extent \in Nat
    BY PacketType DEF OptionStep, AskNumbers, AskOption, AskChunks, ChunksStep,
                      vars, Extent, HasOptions
  <1>2. CASE AskNumbers \/ \E n \in Wanted : AskOption(n)
    <2>1. out' = <<>> /\ x' = 0
      BY <1>2 DEF AskNumbers, AskOption, Begin
    <2> QED
      BY <1>1, <2>1 DEF FitInv, OptionsFit
  <1>3. CASE OptionStep
    <2>1. out' = out /\ call' # "option_numbers"
      BY <1>3 DEF OptionStep, Answer
    <2> QED
      BY <1>1, <2>1 DEF FitInv, OptionsFit
  <1>4. CASE AskChunks \/ ChunksStep
    <2>1. pkt.proto = "sctp" /\ call' # "option_numbers"
      BY <1>4, WalkType DEF AskChunks, ChunksStep, Begin, GoOn, Return
    <2> QED
      BY <1>1, <2>1 DEF FitInv, OptionsFit
  <1>5. CASE UNCHANGED vars
    BY <1>1, <1>5 DEF vars, FitInv, OptionsFit
  <1> QED
    BY <1>2, <1>3, <1>4, <1>5

LEMMA FitNext == TypeOK /\ FitInv /\ [Next]_vars => FitInv'
  BY FitNumbers, FitOthers DEF Next, Step

LEMMA FitInit == Init => FitInv
  <1>1. Init => Extent \in Nat
    BY InitType, PacketType
  <1> QED
    BY <1>1 DEF Init, FitInv, OptionsFit

\* Listed options lie in the header one after another, and o_nbrs has room for
\* every one (OptionsFit).
THEOREM ListedOptionsFit == Spec => []OptionsFit
  <1>1. Init => TypeOK /\ FitInv
    BY InitType, FitInit
  <1>2. (TypeOK /\ FitInv) /\ [Next]_vars => (TypeOK /\ FitInv)'
    BY NextType, FitNext
  <1>3. FitInv => OptionsFit
    BY DEF FitInv
  <1> QED
    BY <1>1, <1>2, <1>3, PTL DEF Spec

-----------------------------------------------------------------------------
(* Chunks cover *)

\* A chunk that is cut short is the last: nothing is left behind it.
CoverInv ==
    /\ ChunksCover
    /\ pkt.proto = "sctp" =>
         /\ Len(out) = 0 => x = 0
         /\ Len(out) > 0 /\ ~IsOk(out[Len(out)]) => x = pkt.left

LEMMA CoverChunks ==
    ASSUME TypeOK, CoverInv, ChunksStep
    PROVE  CoverInv'
  <1>1. /\ pkt.proto = "sctp" /\ pkt.left \in Nat /\ x \in Nat /\ pkt' = pkt
        /\ call = "chunks"
    BY WalkType, PacketType DEF ChunksStep
  <1>2. CASE out' = out /\ x' = x /\ call' = "idle"
             /\ (Rem = 0 \/ listed'.ans = "raised")
    BY <1>1, <1>2 DEF CoverInv, ChunksCover, Rem
  <1>3. CASE Rem >= 4 /\ out' = Append(out, SctpChunk) /\ GoOn(x + Alen)
    <2>1. /\ SctpChunk \in Elements /\ Alen \in Nat
          /\ Alen = Clen \/ Alen = Rem
      BY <1>1, <1>3, ChunkType
    <2>2. /\ Len(out') = Len(out) + 1 /\ out'[Len(out) + 1] = SctpChunk
          /\ \A i \in 1 .. Len(out) : out'[i] = out[i]
          /\ Len(out) \in Nat
      BY <1>3, <2>1, OutType, AppendFacts
    <2>3. \A i \in 1 .. Len(out') : i \in 1 .. Len(out) \/ i = Len(out) + 1
      BY <2>2
    <2>4. /\ SctpChunk.at = x /\ SctpChunk.len = Alen
          /\ SctpChunk.clen = Clen
      BY DEF SctpChunk
    <2>5. x' = x + Alen /\ call' = "chunks"
      BY <1>1, <1>3 DEF GoOn
    <2>6. Len(out) > 0 => IsOk(out[Len(out)])
                          /\ x = out[Len(out)].at + out[Len(out)].len
      BY <1>1, <1>3 DEF CoverInv, ChunksCover, Rem
    <2>7. \A i \in 1 .. Len(out') :
            out'[i].at = IF i = 1 THEN 0 ELSE out'[i - 1].at + out'[i - 1].len
      <3> SUFFICES ASSUME NEW i \in 1 .. Len(out')
                   PROVE  out'[i].at = IF i = 1 THEN 0
                                       ELSE out'[i - 1].at + out'[i - 1].len
        OBVIOUS
      <3>1. CASE i \in 1 .. Len(out)
        <4>1. out[i].at = IF i = 1 THEN 0 ELSE out[i - 1].at + out[i - 1].len
          BY <1>1, <3>1 DEF CoverInv, ChunksCover
        <4>2. i # 1 => i - 1 \in 1 .. Len(out)
          BY <2>2, <3>1
        <4> QED
          BY <2>2, <3>1, <4>1, <4>2
      <3>2. CASE i = Len(out) + 1
        <4>1. CASE Len(out) = 0
          BY <1>1, <2>2, <2>4, <3>2, <4>1 DEF CoverInv
        <4>2. CASE Len(out) > 0
          <5>1. i - 1 = Len(out) /\ i # 1
            BY <2>2, <3>2, <4>2
          <5>2. out'[i - 1] = out[Len(out)]
            BY <2>2, <4>2, <5>1
          <5> QED
            BY <2>2, <2>4, <2>6, <3>2, <4>2, <5>1, <5>2
        <4> QED
          BY <2>2, <4>1, <4>2
      <3> QED
        BY <2>3, <3>1, <3>2
    <2>8. \A i \in 1 .. Len(out') : IsOk(out'[i]) \/ i = Len(out')
      <3> SUFFICES ASSUME NEW i \in 1 .. Len(out), ~IsOk(out[i])
                   PROVE  FALSE
        BY <2>2, <2>3 DEF IsOk
      <3>1. i = Len(out)
        BY <1>1 DEF CoverInv, ChunksCover
      <3> QED
        BY <2>6, <3>1
    <2>9. x' = out'[Len(out')].at + out'[Len(out')].len
      BY <2>2, <2>4, <2>5
    <2>10. ~IsOk(out'[Len(out')]) => x' = pkt.left
      BY <1>1, <2>1, <2>2, <2>4, <2>5 DEF IsOk, Rem
    <2>11. ChunksCover'
      BY <2>5, <2>7, <2>8, <2>9 DEF ChunksCover, IsOk
    <2> QED
      BY <1>1, <2>2, <2>10, <2>11 DEF CoverInv, IsOk
  <1> QED
    BY <1>2, <1>3 DEF ChunksStep, Return, Gave

LEMMA CoverOthers ==
    ASSUME TypeOK, CoverInv,
           \/ AskNumbers \/ NumbersStep \/ \E n \in Wanted : AskOption(n)
           \/ OptionStep \/ AskChunks \/ UNCHANGED vars
    PROVE  CoverInv'
  <1>1. CASE AskNumbers \/ NumbersStep \/ (\E n \in Wanted : AskOption(n))
             \/ OptionStep
    <2>1. pkt' = pkt /\ pkt.proto = "tcp"
      BY <1>1, WalkType, PacketType
      DEF AskNumbers, NumbersStep, AskOption, OptionStep
    <2> QED
      BY <2>1 DEF CoverInv, ChunksCover
  <1>2. CASE AskChunks
    <2>1. pkt' = pkt /\ x' = 0 /\ out' = <<>>
      BY <1>2 DEF AskChunks, Begin
    <2>2. ~(call' = "idle" /\ listed'.ans = "list")
      BY <1>2 DEF AskChunks, Begin, Gave
    <2> QED
      BY <2>1, <2>2 DEF CoverInv, ChunksCover
  <1>3. CASE UNCHANGED vars
    BY <1>3 DEF vars, CoverInv, ChunksCover, IsOk
  <1> QED
    BY <1>1, <1>2, <1>3

LEMMA CoverNext == TypeOK /\ CoverInv /\ [Next]_vars => CoverInv'
  BY CoverChunks, CoverOthers DEF Next, Step

LEMMA CoverInit == Init => CoverInv
  BY DEF Init, CoverInv, ChunksCover

\* Chunks tile what was captured, and only the last may be cut short
\* (ChunksCover).
THEOREM ChunksTile == Spec => []ChunksCover
  <1>1. Init => TypeOK /\ CoverInv
    BY InitType, CoverInit
  <1>2. (TypeOK /\ CoverInv) /\ [Next]_vars => (TypeOK /\ CoverInv)'
    BY NextType, CoverNext
  <1>3. CoverInv => ChunksCover
    BY DEF CoverInv
  <1> QED
    BY <1>1, <1>2, <1>3, PTL DEF Spec

-----------------------------------------------------------------------------
(* The path of both option loops *)

Area == 0 .. pkt.o_len

Closed(S) == 0 \in S /\ \A y \in S : GoesFrom(y) => NextFrom(y) \in S

\* The octets that a walk from the first one reaches.
Path == {y \in Area : \A S \in SUBSET Area : Closed(S) => y \in S}

\* A loop at octet z is on the path and has left none of it out.
OnPath(z) ==
    /\ z \in Path
    /\ \A y \in Path : y < z => GoesFrom(y) /\ NextFrom(y) <= z

LEMMA PathClosed ==
    ASSUME TypeOK, HasOptions
    PROVE  Path \subseteq Nat /\ Path \subseteq Area /\ Closed(Path)
  <1>1. pkt.o_len \in Nat
    BY PacketType
  <1>2. Path \subseteq Area /\ Area \subseteq Nat
    BY <1>1 DEF Path, Area
  <1>3. 0 \in Path
    BY <1>1 DEF Path, Area, Closed
  <1>4. ASSUME NEW y \in Path, GoesFrom(y)
        PROVE  NextFrom(y) \in Path
    <2>1. NextFrom(y) \in Area
      BY <1>1, <1>2, <1>4, OptionType DEF Area
    <2>2. \A S \in SUBSET Area : Closed(S) => NextFrom(y) \in S
      BY <1>4 DEF Path, Closed
    <2> QED
      BY <2>1, <2>2 DEF Path
  <1> QED
    BY <1>2, <1>3, <1>4 DEF Closed

LEMMA PathLeast ==
    ASSUME NEW S \in SUBSET Area, Closed(S)
    PROVE  Path \subseteq S
  BY DEF Path

LEMMA PathStart == ASSUME TypeOK, HasOptions PROVE OnPath(0)
  BY PathClosed DEF OnPath, Closed

LEMMA PathGoes ==
    ASSUME TypeOK, HasOptions, NEW z, OnPath(z), GoesFrom(z)
    PROVE  /\ OnPath(NextFrom(z)) /\ z < NextFrom(z)
           /\ \A y \in Path : y < NextFrom(z) => y <= z
  <1> DEFINE n == NextFrom(z)
             S == {y \in Path : y <= z \/ y >= n}
  <1>1. z \in Path /\ n \in Path
    BY PathClosed DEF OnPath, Closed
  <1>2. \A y \in Path : y \in Nat /\ (GoesFrom(y) => /\ NextFrom(y) \in Path
                                                     /\ y < NextFrom(y))
    BY PathClosed, OptionType DEF Closed
  <1>3. z \in Nat /\ n \in Nat /\ z < n
    BY <1>1, <1>2
  <1>4. Closed(S)
    <2>1. 0 \in S
      BY <1>3, PathClosed DEF Closed
    <2>2. ASSUME NEW y \in S, GoesFrom(y)
          PROVE  NextFrom(y) \in S
      <3>0. y \in Path /\ NextFrom(y) \in Path /\ NextFrom(y) \in Nat
            /\ y \in Nat /\ y < NextFrom(y)
        BY <1>2, <2>2
      <3>1. CASE y < z
        BY <3>0, <3>1 DEF OnPath
      <3>2. CASE y = z
        BY <1>3, <3>0, <3>2
      <3>3. CASE y >= n
        BY <1>3, <3>0, <3>3
      <3> QED
        BY <1>3, <2>2, <3>0, <3>1, <3>2, <3>3
    <2> QED
      BY <2>1, <2>2 DEF Closed
  <1>5. S \in SUBSET Area
    BY PathClosed
  <1>6. \A y \in Path : y <= z \/ y >= n
    BY <1>4, <1>5, PathLeast
  <1>7. \A y \in Path : y < n => y <= z
    BY <1>2, <1>3, <1>6
  <1>8. \A y \in Path : y < n => GoesFrom(y) /\ NextFrom(y) <= n
    <2> SUFFICES ASSUME NEW y \in Path, y < n
                 PROVE  GoesFrom(y) /\ NextFrom(y) <= n
      OBVIOUS
    <2>1. y \in Nat /\ y <= z
      BY <1>2, <1>7
    <2>2. CASE y = z
      BY <1>3, <2>2
    <2>3. CASE y < z
      <3>1. GoesFrom(y) /\ NextFrom(y) <= z /\ NextFrom(y) \in Nat
        BY <1>2, <2>3 DEF OnPath
      <3> QED
        BY <1>3, <3>1
    <2> QED
      BY <1>3, <2>1, <2>2, <2>3
  <1> QED
    BY <1>1, <1>3, <1>7, <1>8 DEF OnPath

LEMMA PathStops ==
    ASSUME TypeOK, HasOptions, NEW z, OnPath(z), ~GoesFrom(z)
    PROVE  \A y \in Path : y <= z
  <1> DEFINE S == {y \in Path : y <= z}
  <1>1. \A y \in Path : y \in Nat /\ (GoesFrom(y) => /\ NextFrom(y) \in Path
                                                     /\ y < NextFrom(y))
    BY PathClosed, OptionType DEF Closed
  <1>2. z \in Nat
    BY <1>1 DEF OnPath
  <1>3. Closed(S)
    <2>1. 0 \in S
      BY <1>2, PathClosed DEF Closed
    <2>2. ASSUME NEW y \in S, GoesFrom(y)
          PROVE  NextFrom(y) \in S
      <3>1. y \in Nat /\ y # z /\ y < z
        BY <1>1, <1>2, <2>2
      <3> QED
        BY <1>1, <2>2, <3>1 DEF OnPath
    <2> QED
      BY <2>1, <2>2 DEF Closed
  <1>4. S \in SUBSET Area
    BY PathClosed
  <1> QED
    BY <1>3, <1>4, PathLeast

LEMMA SamePath ==
    ASSUME pkt' = pkt
    PROVE  /\ Path' = Path /\ HasOptions' = HasOptions
           /\ \A y : OnPath(y)' = OnPath(y)
           /\ \A y : WholeAt(y)' = WholeAt(y)
           /\ \A y : NoLengthAt(y)' = NoLengthAt(y)
           /\ \A y : Kind(y)' = Kind(y)
  <1>1. \A y : Kind(y)' = Kind(y)
    BY DEF Kind
  <1>2. \A y : TLen(y)' = TLen(y)
    BY DEF TLen
  <1>3. \A y : EndsAt(y)' = EndsAt(y)
    BY DEF EndsAt, Kind
  <1>4. \A y : NopAt(y)' = NopAt(y)
    BY DEF NopAt, EndsAt, Kind
  <1>5. \A y : WholeAt(y)' = WholeAt(y)
    BY DEF WholeAt, OptionAt, EndsAt, Kind, TLen
  <1>6. \A y : NoLengthAt(y)' = NoLengthAt(y)
    BY DEF NoLengthAt, OptionAt, EndsAt, Kind
  <1>7. \A y : GoesFrom(y)' = GoesFrom(y)
    BY DEF GoesFrom, NopAt, EndsAt, Kind, WholeAt, OptionAt, TLen
  <1>8. \A y : NextFrom(y)' = NextFrom(y)
    BY DEF NextFrom, NopAt, EndsAt, Kind, TLen
  <1>9. HasOptions' = HasOptions
    BY DEF HasOptions
  <1>10. Path' = Path
    BY DEF Path, Area, Closed, GoesFrom, NextFrom, NopAt, EndsAt, Kind, WholeAt,
           OptionAt, TLen
  <1>11. \A y : OnPath(y)' = OnPath(y)
    BY DEF OnPath, Path, Area, Closed, GoesFrom, NextFrom, NopAt, EndsAt, Kind,
           WholeAt, OptionAt, TLen
  <1> QED
    BY <1>1, <1>5, <1>6, <1>9, <1>10, <1>11

-----------------------------------------------------------------------------
(* The two option loops agree *)

IsListed(list, y) == \E i \in 1 .. Len(list) : list[i].at = y

\* A list's elements are whole options of the path.
OfPath(list) ==
    \A i \in 1 .. Len(list) :
        /\ list[i].at \in Path /\ WholeAt(list[i].at)
        /\ list[i].kind = Kind(list[i].at)

Has(y) == WholeAt(y) /\ Kind(y) = option.nbr

\* The loops have dealt with the path up to their cursor; what they gave
\* speaks of the whole path.
NumbersWalk ==
    call = "option_numbers" =>
        /\ OnPath(x) /\ OfPath(out)
        /\ \A y \in Path : y < x /\ WholeAt(y) => IsListed(out, y)

ListedInv ==
    /\ listed.ans = "None" => ~HasOptions
    /\ listed.ans = "list" =>
         /\ HasOptions /\ OfPath(listed.list)
         /\ \A y \in Path : /\ ~NoLengthAt(y)
                            /\ WholeAt(y) => IsListed(listed.list, y)
    /\ listed.ans = "raised" => HasOptions /\ \E y \in Path : NoLengthAt(y)

OptionWalk ==
    call = "option" =>
        option.ans = "asked" /\ OnPath(x) /\ \A y \in Path : y < x => ~Has(y)

OptionInv ==
    /\ option.ans = "None" =>
         ~HasOptions \/ \A y \in Path : ~NoLengthAt(y) /\ ~Has(y)
    /\ option.ans \in {"True", "value"} => HasOptions /\ \E y \in Path : Has(y)
    /\ option.ans = "raised" =>
         HasOptions /\ \E y \in Path : Has(y) \/ NoLengthAt(y)

AgreeInv ==
    pkt.proto = "tcp" => NumbersWalk /\ ListedInv /\ OptionWalk /\ OptionInv

LEMMA Agree == TypeOK /\ AgreeInv => OptionAgrees
  <1> SUFFICES ASSUME TypeOK, AgreeInv, pkt.proto = "tcp",
                      listed.ans # "unasked",
                      option.ans \notin {"unasked", "asked"}
               PROVE  /\ listed.ans = "None" => option.ans = "None"
                      /\ listed.ans = "list" =>
                           (option.ans = "None" <=>
                              option.nbr \notin Kinds(listed.list))
                      /\ listed.ans = "raised" => option.ans # "None"
    BY DEF OptionAgrees
  <1>1. ListedInv /\ OptionInv
    BY DEF AgreeInv
  <1>2. option.ans \in {"None", "True", "value", "raised"}
    BY DEF TypeOK
  <1>3. CASE listed.ans = "None"
    BY <1>1, <1>2, <1>3 DEF ListedInv, OptionInv
  <1>4. CASE listed.ans = "raised"
    BY <1>1, <1>4 DEF ListedInv, OptionInv
  <1>5. CASE listed.ans = "list"
    <2>1. /\ HasOptions /\ OfPath(listed.list)
          /\ \A y \in Path : /\ ~NoLengthAt(y)
                             /\ WholeAt(y) => IsListed(listed.list, y)
      BY <1>1, <1>5 DEF ListedInv
    <2>2. ASSUME option.ans = "None"
          PROVE  option.nbr \notin Kinds(listed.list)
      <3>1. \A y \in Path : ~Has(y)
        BY <1>1, <2>1, <2>2 DEF OptionInv
      <3>2. ASSUME NEW i \in 1 .. Len(listed.list),
                   listed.list[i].kind = option.nbr
            PROVE  FALSE
        <4>1. Has(listed.list[i].at) /\ listed.list[i].at \in Path
          BY <2>1, <3>2 DEF OfPath, Has
        <4> QED
          BY <3>1, <4>1
      <3> QED
        BY <3>2 DEF Kinds
    <2>3. ASSUME option.ans # "None"
          PROVE  option.nbr \in Kinds(listed.list)
      <3>1. PICK y \in Path : Has(y)
        BY <1>1, <1>2, <2>1, <2>3 DEF OptionInv
      <3>2. PICK i \in 1 .. Len(listed.list) : listed.list[i].at = y
        BY <2>1, <3>1 DEF Has, IsListed
      <3>3. listed.list[i].kind = option.nbr
        BY <2>1, <3>1, <3>2 DEF OfPath, Has
      <3> QED
        BY <3>3 DEF Kinds
    <2> QED
      BY <1>5, <2>2, <2>3
  <1> QED
    BY <1>3, <1>4, <1>5

\* What a loop meets at an octet is one thing only.
LEMMA Meets ==
    ASSUME TypeOK, HasOptions, NEW y \in Nat
    PROVE  /\ EndsAt(y) \/ TooLongAt(y) =>
                ~WholeAt(y) /\ ~NoLengthAt(y) /\ ~GoesFrom(y)
           /\ NoLengthAt(y) => ~WholeAt(y) /\ ~GoesFrom(y)
           /\ NopAt(y) => /\ ~WholeAt(y) /\ GoesFrom(y)
                          /\ NextFrom(y) = y + 1
           /\ WholeAt(y) => /\ ~NopAt(y) /\ ~NoLengthAt(y)
                            /\ NextFrom(y) = y + TLen(y)
                            /\ GoesFrom(y) <=> TLen(y) # 0
  <1>1. pkt.o_len \in Nat /\ (y < pkt.o_len \/ ~(y < pkt.o_len))
    BY PacketType
  <1>2. /\ NopAt(y) => ~OptionAt(y)
        /\ EndsAt(y) => ~OptionAt(y) /\ ~NopAt(y)
    BY DEF NopAt, OptionAt
  <1>3. /\ NoLengthAt(y) => OptionAt(y) /\ ~WholeAt(y) /\ ~TooLongAt(y)
        /\ WholeAt(y) => OptionAt(y)
        /\ TooLongAt(y) => OptionAt(y)
    BY <1>1 DEF NoLengthAt, WholeAt, TooLongAt
  <1>4. TooLongAt(y) => ~WholeAt(y)
    <2>1. y + 1 < pkt.o_len => TLen(y) \in Nat
      <3>1. pkt.octs \in [0 .. pkt.o_len - 1 -> Octet]
        BY PacketType
      <3>2. y + 1 < pkt.o_len => y + 1 \in 0 .. pkt.o_len - 1
        BY <1>1
      <3>3. y + 1 < pkt.o_len => TLen(y) \in Octet
        BY <3>1, <3>2 DEF TLen
      <3> QED
        BY <3>3 DEF Octet
    <2> QED
      BY <1>1, <2>1 DEF TooLongAt, WholeAt
  <1> QED
    BY <1>2, <1>3, <1>4 DEF GoesFrom, NextFrom

LEMMA AgreeNumbers ==
    ASSUME TypeOK, AgreeInv, NumbersStep
    PROVE  AgreeInv'
  <1>1. /\ HasOptions /\ x \in Nat /\ pkt.proto = "tcp"
        /\ NumbersWalk /\ OptionInv /\ pkt' = pkt /\ option' = option
    BY WalkType, PacketType DEF NumbersStep, AgreeInv
  <1>2. /\ OnPath(x) /\ x \in Path /\ OfPath(out)
        /\ \A y \in Path : y < x /\ WholeAt(y) => IsListed(out, y)
    BY <1>1 DEF NumbersStep, NumbersWalk, OnPath
  <1>3. \A y \in Path : y \in Nat
    BY <1>1, PathClosed
  <1>4. \A y \in Path : y < x => ~NoLengthAt(y)
    BY <1>1, <1>2, <1>3, Meets DEF OnPath
  <1>5. call' # "option" /\ OptionWalk' /\ OptionInv'
    <2>1. call' # "option"
      BY DEF NumbersStep, GoOn, Return
    <2>2. \A y : Has(y)' = Has(y)
      BY <1>1 DEF Has, WholeAt, OptionAt, EndsAt, Kind, TLen
    <2> QED
      BY <1>1, <2>1, <2>2, SamePath DEF OptionWalk, OptionInv
  <1>6. CASE (EndsAt(x) \/ TooLongAt(x)) /\ out' = out /\ Return("list")
    <2>1. ~WholeAt(x) /\ ~NoLengthAt(x) /\ ~GoesFrom(x)
      BY <1>1, <1>6, Meets
    <2>2. \A y \in Path : y < x \/ y = x
      BY <1>1, <1>2, <1>3, <2>1, PathStops
    <2>3. /\ OfPath(out')
          /\ \A y \in Path :
               ~NoLengthAt(y) /\ (WholeAt(y) => IsListed(out', y))
      BY <1>2, <1>4, <1>6, <2>1, <2>2
    <2>4. call' = "idle" /\ listed'.ans = "list" /\ listed'.list = out'
      BY <1>6 DEF Return, Gave
    <2>5. NumbersWalk'
      BY <2>4 DEF NumbersWalk
    <2>6. ListedInv'
      BY <1>1, <2>3, <2>4, SamePath DEF ListedInv, OfPath, IsListed
    <2> QED
      BY <1>5, <2>5, <2>6 DEF AgreeInv
  <1>7. CASE NoLengthAt(x) /\ out' = out /\ Return("raised")
    <2>1. call' = "idle" /\ listed'.ans = "raised"
      BY <1>7 DEF Return, Gave
    <2>2. NumbersWalk' /\ ListedInv'
      BY <1>1, <1>2, <1>7, <2>1, SamePath DEF NumbersWalk, ListedInv
    <2> QED
      BY <1>5, <2>2 DEF AgreeInv
  <1>8. CASE NopAt(x) /\ out' = out /\ GoOn(x + 1)
    <2>1. GoesFrom(x) /\ NextFrom(x) = x + 1 /\ ~WholeAt(x)
      BY <1>1, <1>8, Meets
    <2>2. OnPath(x + 1) /\ \A y \in Path : y < x + 1 => y < x \/ y = x
      BY <1>1, <1>2, <1>3, <2>1, PathGoes
    <2>3. \A y \in Path : y < x + 1 /\ WholeAt(y) => IsListed(out, y)
      BY <1>2, <2>1, <2>2
    <2>4. x' = x + 1 /\ listed' = listed
      BY <1>8 DEF GoOn
    <2>5. NumbersWalk'
      BY <1>1, <1>2, <1>8, <2>2, <2>3, <2>4, SamePath
      DEF NumbersWalk, OfPath, IsListed
    <2>6. ListedInv'
      BY <1>1, <2>4, SamePath DEF ListedInv, AgreeInv, OfPath, IsListed
    <2> QED
      BY <1>5, <2>5, <2>6 DEF AgreeInv
  <1>9. CASE /\ WholeAt(x) /\ out' = Append(out, TcpOption(x))
             /\ IF TLen(x) # 0 THEN GoOn(x + TLen(x)) ELSE Return("list")
    <2>1. TcpOption(x) \in Elements
      BY <1>1, <1>9, OptionType
    <2>2. /\ Len(out') = Len(out) + 1 /\ out'[Len(out) + 1] = TcpOption(x)
          /\ \A i \in 1 .. Len(out) : out'[i] = out[i]
          /\ Len(out) \in Nat
      BY <1>9, <2>1, OutType, AppendFacts
    <2>3. \A i \in 1 .. Len(out') : i \in 1 .. Len(out) \/ i = Len(out) + 1
      BY <2>2
    <2>4. TcpOption(x).at = x /\ TcpOption(x).kind = Kind(x)
      BY DEF TcpOption
    <2>5. OfPath(out')
      BY <1>2, <1>9, <2>2, <2>3, <2>4 DEF OfPath
    <2>6. /\ IsListed(out', x)
          /\ \A y : IsListed(out, y) => IsListed(out', y)
      <3>1. Len(out) + 1 \in 1 .. Len(out')
        BY <2>2
      <3>2. \A i \in 1 .. Len(out) : i \in 1 .. Len(out')
        BY <2>2
      <3> QED
        BY <2>2, <2>4, <3>1, <3>2 DEF IsListed
    <2>7. ~NoLengthAt(x) /\ NextFrom(x) = x + TLen(x)
          /\ (GoesFrom(x) <=> TLen(x) # 0)
      BY <1>1, <1>9, Meets
    <2>8. CASE TLen(x) # 0
      <3>1. /\ OnPath(x + TLen(x))
            /\ \A y \in Path : y < x + TLen(x) => y < x \/ y = x
        BY <1>1, <1>2, <1>3, <2>7, <2>8, PathGoes
      <3>2. \A y \in Path : y < x + TLen(x) /\ WholeAt(y) => IsListed(out', y)
        BY <1>2, <2>6, <3>1
      <3>3. x' = x + TLen(x) /\ listed' = listed
        BY <1>9, <2>8 DEF GoOn
      <3>4. NumbersWalk'
        BY <1>1, <2>5, <3>1, <3>2, <3>3, SamePath
        DEF NumbersWalk, OfPath, IsListed
      <3>5. ListedInv'
        BY <1>1, <3>3, SamePath DEF ListedInv, AgreeInv, OfPath, IsListed
      <3> QED
        BY <1>5, <3>4, <3>5 DEF AgreeInv
    <2>9. CASE TLen(x) = 0
      <3>1. \A y \in Path : y < x \/ y = x
        BY <1>1, <1>2, <1>3, <2>7, <2>9, PathStops
      <3>2. \A y \in Path :
              ~NoLengthAt(y) /\ (WholeAt(y) => IsListed(out', y))
        BY <1>2, <1>4, <2>6, <2>7, <3>1
      <3>3. call' = "idle" /\ listed'.ans = "list" /\ listed'.list = out'
        BY <1>9, <2>9 DEF Return, Gave
      <3>4. NumbersWalk' /\ ListedInv'
        BY <1>1, <2>5, <3>2, <3>3, SamePath
        DEF NumbersWalk, ListedInv, OfPath, IsListed
      <3> QED
        BY <1>5, <3>4 DEF AgreeInv
    <2> QED
      BY <2>8, <2>9
  <1> QED
    BY <1>6, <1>7, <1>8, <1>9 DEF NumbersStep

LEMMA AgreeOption ==
    ASSUME TypeOK, AgreeInv, OptionStep
    PROVE  AgreeInv'
  <1>1. /\ HasOptions /\ x \in Nat /\ pkt.proto = "tcp"
        /\ OptionWalk /\ ListedInv /\ UNCHANGED <<pkt, out, listed>>
    BY WalkType, PacketType DEF OptionStep, AgreeInv
  <1>2. /\ OnPath(x) /\ x \in Path /\ option.ans = "asked"
        /\ \A y \in Path : y < x => ~Has(y)
    BY <1>1 DEF OptionStep, OptionWalk, OnPath
  <1>3. \A y \in Path : y \in Nat
    BY <1>1, PathClosed
  <1>4. \A y \in Path : y < x => ~NoLengthAt(y)
    BY <1>1, <1>2, <1>3, Meets DEF OnPath
  <1>5. call' # "option_numbers" /\ NumbersWalk' /\ ListedInv'
    <2>1. call' # "option_numbers"
      BY DEF OptionStep, Answer
    <2> QED
      BY <1>1, <2>1, SamePath DEF NumbersWalk, ListedInv, OfPath, IsListed
  <1>6. option'.nbr = option.nbr
    BY DEF OptionStep, Answer, TypeOK
  <1>7. \A y : Has(y)' = Has(y)
    BY <1>1, <1>6 DEF Has, WholeAt, OptionAt, EndsAt, Kind, TLen
  <1>8. ASSUME \/ EndsAt(x) \/ TooLongAt(x)
               \/ WholeAt(x) /\ Kind(x) # option.nbr /\ TLen(x) = 0,
               Answer("None")
        PROVE  AgreeInv'
    <2>1. ~GoesFrom(x) /\ ~NoLengthAt(x) /\ ~Has(x)
      BY <1>1, <1>8, Meets DEF Has
    <2>2. \A y \in Path : y < x \/ y = x
      BY <1>1, <1>2, <1>3, <2>1, PathStops
    <2>3. \A y \in Path : ~NoLengthAt(y) /\ ~Has(y)
      BY <1>2, <1>4, <2>1, <2>2
    <2>4. call' = "idle" /\ option'.ans = "None"
      BY <1>8 DEF Answer, TypeOK
    <2>5. OptionWalk' /\ OptionInv'
      BY <1>1, <1>7, <2>3, <2>4, SamePath DEF OptionWalk, OptionInv
    <2> QED
      BY <1>5, <2>5 DEF AgreeInv
  <1>9. ASSUME NoLengthAt(x), Answer("raised")
        PROVE  AgreeInv'
    <2>1. call' = "idle" /\ option'.ans = "raised"
      BY <1>9 DEF Answer, TypeOK
    <2>2. OptionWalk' /\ OptionInv'
      BY <1>1, <1>2, <1>9, <2>1, SamePath DEF OptionWalk, OptionInv
    <2> QED
      BY <1>5, <2>2 DEF AgreeInv
  <1>10. ASSUME Has(x), Answer("True") \/ Answer("raised") \/ Answer("value")
         PROVE  AgreeInv'
    <2>1. call' = "idle" /\ option'.ans \in {"True", "raised", "value"}
      BY <1>10 DEF Answer, TypeOK
    <2>2. OptionWalk' /\ OptionInv'
      BY <1>1, <1>2, <1>7, <1>10, <2>1, SamePath DEF OptionWalk, OptionInv
    <2> QED
      BY <1>5, <2>2 DEF AgreeInv
  <1>11. ASSUME ~Has(x), GoesFrom(x), x' = NextFrom(x),
                UNCHANGED <<call, option>>
         PROVE  AgreeInv'
    <2>1. /\ OnPath(NextFrom(x))
          /\ \A y \in Path : y < NextFrom(x) => y < x \/ y = x
      BY <1>1, <1>2, <1>3, <1>11, PathGoes
    <2>2. \A y \in Path : y < NextFrom(x) => ~Has(y)
      BY <1>2, <1>11, <2>1
    <2>3. OptionWalk'
      BY <1>1, <1>2, <1>7, <1>11, <2>1, <2>2, SamePath DEF OptionWalk
    <2>4. OptionInv'
      BY <1>2, <1>11 DEF OptionInv
    <2> QED
      BY <1>5, <2>3, <2>4 DEF AgreeInv
  <1> QED
    BY <1>8, <1>9, <1>10, <1>11 DEF OptionStep, Has

LEMMA AgreeAsk ==
    ASSUME TypeOK, AgreeInv,
           AskNumbers \/ \E n \in Wanted : AskOption(n)
    PROVE  AgreeInv'
  <1>1. /\ pkt' = pkt /\ pkt.proto = "tcp" /\ x' = 0 /\ out' = <<>>
        /\ ListedInv /\ OptionInv
    BY DEF AskNumbers, AskOption, Begin, AgreeInv
  <1>2. HasOptions => OnPath(0) /\ \A y \in Path : ~(y < 0)
    BY PathStart, PathClosed
  <1>3. OfPath(<<>>)
    BY DEF OfPath
  <1>4. CASE AskNumbers
    <2>1. /\ option' = option /\ call' # "option"
          /\ call' = "option_numbers" => HasOptions
          /\ listed' = listed \/ (~HasOptions /\ listed'.ans = "None")
      BY <1>4 DEF AskNumbers, Begin, Gave
    <2>2. NumbersWalk'
      BY <1>1, <1>2, <1>3, <2>1, SamePath DEF NumbersWalk, OfPath
    <2>3. ListedInv'
      BY <1>1, <2>1, SamePath DEF ListedInv, OfPath, IsListed
    <2>4. \A y : Has(y)' = Has(y)
      BY <1>1, <2>1 DEF Has, WholeAt, OptionAt, EndsAt, Kind, TLen
    <2>5. OptionWalk' /\ OptionInv'
      BY <1>1, <2>1, <2>4, SamePath DEF OptionWalk, OptionInv
    <2> QED
      BY <2>2, <2>3, <2>5 DEF AgreeInv
  <1>5. CASE \E n \in Wanted : AskOption(n)
    <2>1. /\ listed' = listed /\ call' # "option_numbers"
          /\ call' = "option" => HasOptions /\ option'.ans = "asked"
          /\ option'.ans = "asked" \/ (~HasOptions /\ option'.ans = "None")
      BY <1>5 DEF AskOption, Begin
    <2>2. NumbersWalk' /\ ListedInv'
      BY <1>1, <2>1, SamePath DEF NumbersWalk, ListedInv, OfPath, IsListed
    <2>3. OptionWalk' /\ OptionInv'
      BY <1>1, <1>2, <2>1, SamePath DEF OptionWalk, OptionInv
    <2> QED
      BY <2>2, <2>3 DEF AgreeInv
  <1> QED
    BY <1>4, <1>5

LEMMA AgreeOthers ==
    ASSUME TypeOK, AgreeInv, AskChunks \/ ChunksStep \/ UNCHANGED vars
    PROVE  AgreeInv'
  <1>1. CASE AskChunks \/ ChunksStep
    BY <1>1, WalkType DEF AskChunks, ChunksStep, AgreeInv
  <1>2. CASE UNCHANGED vars
    <2>1. \A y : Has(y)' = Has(y)
      BY <1>2 DEF vars, Has, WholeAt, OptionAt, EndsAt, Kind, TLen
    <2> QED
      BY <1>2, <2>1, SamePath
      DEF vars, AgreeInv, NumbersWalk, ListedInv, OptionWalk, OptionInv, OfPath,
          IsListed
  <1> QED
    BY <1>1, <1>2

LEMMA AgreeNext == TypeOK /\ AgreeInv /\ [Next]_vars => AgreeInv'
  BY AgreeNumbers, AgreeOption, AgreeAsk, AgreeOthers DEF Next, Step

LEMMA AgreeInit == Init => AgreeInv
  BY DEF Init, AgreeInv, NumbersWalk, ListedInv, OptionWalk, OptionInv

\* option(n) finds, or raises at, just what option_numbers lists or raises at,
\* for options of any octets (OptionAgrees).
THEOREM OptionLoopsAgree == Spec => []OptionAgrees
  <1>1. Init => TypeOK /\ AgreeInv
    BY InitType, AgreeInit
  <1>2. (TypeOK /\ AgreeInv) /\ [Next]_vars => (TypeOK /\ AgreeInv)'
    BY NextType, AgreeNext
  <1>3. TypeOK /\ AgreeInv => OptionAgrees
    BY Agree
  <1> QED
    BY <1>1, <1>2, <1>3, PTL DEF Spec

-----------------------------------------------------------------------------
(* How walks end *)

\* The octets that a walk has in front of it, and its return.
ToWalk == IF call = "idle" THEN 0 ELSE Extent - x + 1

LEMMA ToWalkType == TypeOK => ToWalk \in Nat /\ (call # "idle" => ToWalk > 0)
  BY PacketType DEF ToWalk

\* A walk that goes on from further ahead, or returns, is nearer to its end.
LEMMA AheadIsNearer ==
    ASSUME TypeOK, call # "idle", pkt' = pkt,
           \/ call' = "idle"
           \/ call' = call /\ x' \in Nat /\ x < x'
    PROVE  ToWalk' < ToWalk
<1>1. Extent' = Extent
  BY DEF Extent, HasOptions
<1>2. x \in Nat /\ Extent \in Nat /\ ToWalk \in Nat /\ ToWalk > 0
  BY PacketType, ToWalkType
<1>3. CASE call' = "idle"
  BY <1>2, <1>3 DEF ToWalk
<1>4. CASE call' = call /\ x' \in Nat /\ x < x'
  <2>1. ToWalk = Extent - x + 1 /\ ToWalk' = Extent - x' + 1
    BY <1>1, <1>4 DEF ToWalk
  <2>2. \A a, b, e \in Nat : a < b => e - b + 1 < e - a + 1
    OBVIOUS
  <2>3. Extent - x' + 1 < Extent - x + 1
    BY <1>2, <1>4, <2>2
  <2> QED BY <2>1, <2>3, Zenon
<1> QED BY <1>3, <1>4

\* Every turn of every loop brings its call nearer to its end, whatever the
\* octets say, but for that of chunks at a chunk whose length is zero: an option
\* with a length of zero, or one that runs over the end, is no reason to walk
\* for ever.
TurnsGetAhead == Step => ToWalk' < ToWalk \/ ZeroChunk

THEOREM WalksRunOut == Spec => [][TurnsGetAhead]_vars
<1>1. TypeOK /\ [Next]_vars => [TurnsGetAhead]_vars
  <2> SUFFICES ASSUME TypeOK, Step, ~ZeroChunk PROVE ToWalk' < ToWalk
    BY DEF TurnsGetAhead
  <2>1. x \in Nat /\ pkt' = pkt
    BY PacketType DEF Step, NumbersStep, OptionStep, ChunksStep
  <2>2. CASE NumbersStep
    <3>1. call # "idle" /\ HasOptions
      BY <2>2, WalkType DEF NumbersStep
    <3>2. CASE \E ans : Return(ans)
      BY <2>1, <3>1, <3>2, AheadIsNearer DEF Return
    <3>3. CASE NopAt(x) /\ GoOn(x + 1)
      BY <2>1, <3>1, <3>3, AheadIsNearer DEF GoOn
    <3>4. CASE WholeAt(x) /\ TLen(x) # 0 /\ GoOn(x + TLen(x))
      <4>1. TLen(x) \in Nat
        BY <2>1, <3>1, <3>4, OptionType
      <4> QED BY <2>1, <3>1, <3>4, <4>1, AheadIsNearer DEF GoOn
    <3> QED BY <2>2, <3>2, <3>3, <3>4 DEF NumbersStep
  <2>3. CASE OptionStep
    <3>1. call # "idle" /\ HasOptions
      BY <2>3, WalkType DEF OptionStep
    <3>2. CASE \E ans : Answer(ans)
      BY <2>1, <3>1, <3>2, AheadIsNearer DEF Answer
    <3>3. CASE GoesFrom(x) /\ x' = NextFrom(x) /\ UNCHANGED call
      BY <2>1, <3>1, <3>3, OptionType, AheadIsNearer
    <3> QED BY <2>3, <3>2, <3>3 DEF OptionStep
  <2>4. CASE ChunksStep
    <3>1. call = "chunks"
      BY <2>4 DEF ChunksStep
    <3>2. CASE \E ans : Return(ans)
      BY <2>1, <3>1, <3>2, AheadIsNearer DEF Return
    <3>3. CASE Rem >= 4 /\ GoOn(x + Alen)
      <4>1. Alen \in Nat /\ (Alen = Clen \/ Alen = Rem)
        BY <3>1, <3>3, ChunkType
      <4>2. Alen # 0
        <5>1. Clen # 0
          BY <3>1, <3>3 DEF ZeroChunk
        <5>2. pkt.left \in Int /\ Rem \in Int
          BY <2>1, PacketType DEF Rem
        <5> QED BY <3>3, <4>1, <5>1, <5>2
      <4> QED BY <2>1, <3>1, <3>3, <4>1, <4>2, AheadIsNearer DEF GoOn
    <3> QED BY <2>4, <3>2, <3>3 DEF ChunksStep
  <2> QED BY <2>2, <2>3, <2>4 DEF Step
<1> QED BY <1>1, TypeCorrect, PTL DEF Spec

\* At a chunk of length zero chunks stays for ever: the exception that CallsEnd
\* makes is needed.
THEOREM ZeroChunkStays == Spec => [](ZeroChunk => []ZeroChunk)
<1>1. TypeOK /\ ZeroChunk /\ [Next]_vars => ZeroChunk'
  <2> SUFFICES ASSUME TypeOK, ZeroChunk, [Next]_vars PROVE ZeroChunk'
    OBVIOUS
  <2>1. call = "chunks" /\ Rem >= 4 /\ Clen = 0
    BY DEF ZeroChunk
  <2>2. x \in Nat /\ pkt.left \in Int /\ Rem \in Int
    BY PacketType DEF Rem
  <2>3. CASE ChunksStep
    <3>1. Alen = 0
      BY <2>1, <2>2 DEF Alen
    <3>2. GoOn(x + Alen) /\ pkt' = pkt
      BY <2>1, <2>2, <2>3 DEF ChunksStep
    <3>3. x' = x /\ call' = call
      BY <2>2, <3>1, <3>2 DEF GoOn
    <3> QED BY <2>1, <3>2, <3>3 DEF ZeroChunk, Rem, Clen
  <2>4. CASE UNCHANGED vars
    BY <2>1, <2>4 DEF vars, ZeroChunk, Rem, Clen
  <2> QED BY <2>1, <2>3, <2>4
      DEF Next, Step, NumbersStep, OptionStep, AskNumbers, AskChunks, AskOption
<1> QED BY <1>1, TypeCorrect, PTL DEF Spec

=============================================================================
