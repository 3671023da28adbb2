---------------------------- MODULE CopyTraceProofs ----------------------------
(***************************************************************************)
(* Proofs about CopyTrace, for any traces, any number of wanted records and *)
(* any order of a program's calls: types, what the flag of an output trace  *)
(* guards, and that the programs copy the wanted records in order.          *)
(***************************************************************************)
EXTENDS CopyTrace, FiniteSetTheorems, TLAPS

Looping == {"read", "select", "write"}

\* While the program runs, the flag tells whether a start came before.
FlagOK ==
    /\ started <=> handle # "created"
    /\ started => Starts(line)
    /\ pc # "end" /\ ~started => ~Starts(line)
    /\ handle = "freed" => Closes(line)
    /\ pc # "end" => died = "no"

\* The loop runs in its call, and that call is the only one.
LoopOK ==
    /\ pc \in Looping => line \in DOMAIN case.script
                           /\ case.script[line] = "copy"
    /\ pc = "script" /\ n > 0 =>
         \E i \in DOMAIN case.script : i < line /\ case.script[i] = "copy"
    /\ case.way \in {"first-n", "arp-anon"} =>
         /\ pc = "read" => n < case.limit
         /\ pc \in {"select", "write"} => n <= case.limit

\* Every type has been counted as often as it came.
Message(t) == [kind |-> case.way, type |-> t]
Seen(t, m) == {j \in 1 .. m : case.trace[j] = Message(t)}
Examined == IF pc = "select" THEN n - 1 ELSE n

CountOK ==
    pc # "end" /\ case.way \in {"icmp", "icmp6"} =>
        \A t \in 0 .. 255 : CountOf(t) = Cardinality(Seen(t, Examined))

\* The wanted records up to here have been written, and those only.
Passed == IF pc \in {"select", "write"} THEN n - 1 ELSE n

CopiedOK ==
    /\ pc # "end" => Copying!Numbers = {i \in Wanted : i <= Passed}
    /\ pc = "select" => edited = FALSE
    /\ pc = "write" => n \in Wanted /\ edited = (n \in Anonymous)

IInv == TypeOK /\ FlagOK /\ FlagGuards
CInv == IInv /\ LoopOK /\ CountOK /\ CopiedOK

-----------------------------------------------------------------------------
(* Constants and sequences *)

LEMMA CaseFacts ==
    ASSUME NEW c \in Cases
    PROVE  /\ c.trace \in Seq(Record) /\ Len(c.trace) \in Nat
           /\ c.way \in Ways /\ c.limit \in Nat /\ c.limit >= 1
           /\ c.script \in Seq(Calls) /\ Len(c.script) \in Nat
           /\ DOMAIN c.script = 1 .. Len(c.script)
           /\ \A i, j \in DOMAIN c.script :
                c.script[i] = "copy" /\ c.script[j] = "copy" => i = j
  BY CopyTraceAssumption

LEMMA AppendFacts ==
    ASSUME NEW S, NEW s \in Seq(S), NEW e \in S
    PROVE  /\ Append(s, e) \in Seq(S)
           /\ Len(Append(s, e)) = Len(s) + 1 /\ Len(s) \in Nat
           /\ Append(s, e)[Len(s) + 1] = e
           /\ \A i \in 1 .. Len(s) : Append(s, e)[i] = s[i]
  OBVIOUS

\* What is left alone keeps its type.
LEMMA SameTypes ==
    /\ LoopType /\ UNCHANGED <<case, loop>> => LoopType'
    /\ OutType /\ UNCHANGED out => OutType'
<1>1. LoopType /\ UNCHANGED <<case, loop>> => LoopType'
  BY DEF LoopType, loop
<1>2. OutType /\ UNCHANGED out => OutType'
  BY DEF OutType, out
<1> QED BY <1>1, <1>2

\* One more call lies before the next line.
LEMMA NextLine ==
    ASSUME TypeOK, line \in DOMAIN case.script
    PROVE  /\ line + 1 \in 1 .. Len(case.script) + 1
           /\ Starts(line) => Starts(line + 1)
           /\ Closes(line) => Closes(line + 1)
           /\ case.script[line] = "start_output" => Starts(line + 1)
           /\ case.script[line] # "start_output" /\ ~Starts(line)
                => ~Starts(line + 1)
           /\ case.script[line] = "close_output" /\ Starts(line)
                => Closes(line + 1)
<1>1. /\ DOMAIN case.script = 1 .. Len(case.script) /\ Len(case.script) \in Nat
      /\ line \in Nat /\ line >= 1 /\ line <= Len(case.script)
  BY CaseFacts DEF TypeOK
<1>2. \A i \in DOMAIN case.script : i \in Nat /\ (i < line + 1 <=> i < line \/ i = line)
  BY <1>1
<1> QED BY <1>1, <1>2 DEF Starts, Closes

-----------------------------------------------------------------------------
(* Types and the flag *)

AtRecord == {"IndexError", "TypeError", "ValueError"}
Deaths == {"PltError", "LibtraceError", "freed"} \cup AtRecord

LEMMA InitIInv == Init => IInv
<1> SUFFICES ASSUME Init PROVE IInv
  OBVIOUS
<1>1. Len(case.script) \in Nat /\ Len(case.trace) \in Nat /\ case \in Cases
      /\ DOMAIN case.script = 1 .. Len(case.script)
  BY CaseFacts DEF Init
<1>2. written \in Copies /\ file \in Copies /\ Len(file) = 0 /\ Len(written) = 0
  BY DEF Init, Copies
<1>3. TypeOK
  <2>1. n \in 0 .. Len(case.trace) /\ edited \in BOOLEAN
    <3>1. n = 0 /\ edited = FALSE
      BY DEF Init
    <3>2. n \in 0 .. Len(case.trace)
      BY <1>1, <3>1
    <3> QED BY <3>1, <3>2
  <2>2. DOMAIN counts \subseteq 0 .. 255 /\ counts \in [DOMAIN counts -> Nat]
    BY DEF Init
  <2>3. LoopType
    BY <2>1, <2>2 DEF LoopType
  <2>4. \A i \in 1 .. Len(file) : file[i] = written[i]
    BY <1>2
  <2>5. started \in BOOLEAN /\ handle \in {"created", "started", "freed"}
    BY DEF Init
  <2>6. Len(file) <= Len(written)
    BY <1>2
  <2>7. OutType
    BY <1>2, <2>4, <2>5, <2>6 DEF OutType
  <2> QED BY <1>1, <2>3, <2>7 DEF Init, TypeOK
<1>4. ~Starts(1)
  BY <1>1 DEF Starts
<1>5. FlagOK
  BY <1>4 DEF Init, FlagOK
<1>6. FlagGuards
  BY DEF Init, FlagGuards
<1> QED BY <1>3, <1>5, <1>6 DEF IInv

\* An exception that is to be expected where it is raised.
LEMMA DiesInv ==
    ASSUME IInv, NEW why \in Deaths, Dies(why),
           why = "freed" => handle = "freed",
           why = "PltError" =>
             CASE case.script[line] = "start_output" -> started
               [] case.script[line] = "copy" ->
                    (~started /\ pc # "end") \/ Refuses(Rec)
               [] OTHER -> case.script[line] = "conf",
           why \in AtRecord => case.script[line] = "copy" /\ Refuses(Rec)
    PROVE  IInv'
<1>1. TypeOK'
  BY SameTypes DEF Dies, IInv, TypeOK, Deaths, AtRecord, loop, out
<1>2. /\ UNCHANGED <<case, line, n, started, handle>>
      /\ pc' = "end" /\ died' = why
  BY DEF Dies
<1>3. FlagOK'
  BY <1>2 DEF IInv, FlagOK, Starts, Closes
<1>4. FlagGuards'
  <2>1. died' = "freed" => Closes(line)'
    BY <1>2 DEF IInv, FlagOK, Closes
  <2>2. ASSUME why = "PltError"
        PROVE  CASE case.script[line] = "start_output" -> Starts(line)
                 [] case.script[line] = "copy" -> ~Starts(line) \/ Refuses(Rec)
                 [] OTHER -> case.script[line] = "conf"
    <3>1. CASE case.script[line] = "start_output"
      BY <2>2, <3>1 DEF IInv, FlagOK
    <3>2. CASE case.script[line] = "copy"
      BY <2>2, <3>2 DEF IInv, FlagOK
    <3>3. CASE case.script[line] \notin {"start_output", "copy"}
      BY <2>2, <3>3
    <3> QED BY <3>1, <3>2, <3>3
  <2>3. Refuses(Rec)' = Refuses(Rec)
    BY <1>2 DEF Refuses, Rec
  <2> QED BY <1>2, <2>1, <2>2, <2>3 DEF FlagGuards, Starts, AtRecord
<1> QED BY <1>1, <1>3, <1>4 DEF IInv

\* A step of the loop that leaves the output alone, and one to the next call.
LEMMA GoesInv ==
    ASSUME IInv, NEW to, Goes(to), pc # "end",
           TypeOK', UNCHANGED <<started, handle>>
    PROVE  IInv'
<1>1. UNCHANGED <<case, line, died>> /\ died = "no"
  BY DEF Goes, IInv, FlagOK
<1>2. FlagGuards'
  BY <1>1 DEF FlagGuards
<1>3. FlagOK'
  BY <1>1 DEF IInv, FlagOK, Starts, Closes
<1> QED BY <1>2, <1>3 DEF IInv

LEMMA NextCallInv ==
    ASSUME IInv, NextCall, pc # "end", line \in DOMAIN case.script, TypeOK',
           \/ case.script[line] = "start_output" /\ started' /\ handle' = "started"
           \/ /\ case.script[line] = "close_output" /\ started /\ started'
              /\ handle' = "freed"
           \/ /\ case.script[line] # "start_output"
              /\ UNCHANGED <<started, handle>>
    PROVE  IInv'
<1>1. case' = case /\ line' = line + 1 /\ died' = died /\ died = "no"
      /\ pc' = "script"
  BY DEF NextCall, IInv, FlagOK
<1>2. FlagGuards'
  BY <1>1 DEF FlagGuards
<1>3. /\ Starts(line)' = Starts(line + 1) /\ Closes(line)' = Closes(line + 1)
  BY <1>1 DEF Starts, Closes
<1>4. FlagOK'
  BY <1>1, <1>3, NextLine DEF IInv, FlagOK
<1> QED BY <1>2, <1>4 DEF IInv

-----------------------------------------------------------------------------
(* One lemma for each action *)

\* What most actions leave alone keeps its type.
LEMMA NextCallTypes ==
    ASSUME TypeOK, NextCall, line \in DOMAIN case.script
    PROVE  /\ case' \in Cases /\ pc' = "script"
           /\ line' \in 1 .. Len(case'.script) + 1 /\ died' = died
  BY NextLine DEF NextCall, TypeOK

LEMMA StartOutputInv == IInv /\ StartOutput => IInv'
<1> SUFFICES ASSUME IInv, StartOutput PROVE IInv'
  OBVIOUS
<1>1. /\ pc = "script" /\ line \in DOMAIN case.script
      /\ case.script[line] = "start_output"
  BY DEF StartOutput, Calling
<1>2. CASE started /\ Dies("PltError")
  BY <1>1, <1>2, DiesInv DEF Deaths, AtRecord
<1>3. CASE Dies("LibtraceError")
  BY <1>3, DiesInv DEF Deaths, AtRecord
<1>4. CASE started' /\ handle' = "started" /\ NextCall
           /\ UNCHANGED <<loop, written, file>>
  <2>1. TypeOK'
    <3>1. OutType'
      BY <1>4 DEF IInv, TypeOK, OutType
    <3> QED BY <1>1, <1>4, <3>1, NextCallTypes, SameTypes
            DEF IInv, TypeOK, NextCall
  <2> QED BY <1>1, <1>4, <2>1, NextCallInv
<1> QED BY <1>2, <1>3, <1>4 DEF StartOutput

LEMMA CloseOutputInv == IInv /\ CloseOutput => IInv'
<1> SUFFICES ASSUME IInv, CloseOutput PROVE IInv'
  OBVIOUS
<1>1. /\ pc = "script" /\ line \in DOMAIN case.script
      /\ case.script[line] = "close_output"
  BY DEF CloseOutput, Calling
<1>2. CASE handle = "freed" /\ Dies("freed")
  BY <1>1, <1>2, DiesInv DEF Deaths, AtRecord
<1>3. CASE /\ started /\ handle' = "freed" /\ file' = written /\ NextCall
           /\ UNCHANGED <<loop, started, written>>
  <2>1. written \in Copies /\ Len(written) \in Nat
    BY DEF IInv, TypeOK, OutType, Copies
  <2>2. TypeOK'
    <3>1. OutType'
      BY <1>3, <2>1 DEF IInv, TypeOK, OutType
    <3> QED BY <1>1, <1>3, <3>1, NextCallTypes, SameTypes
            DEF IInv, TypeOK, NextCall
  <2> QED BY <1>1, <1>3, <2>2, NextCallInv DEF IInv, TypeOK, OutType
<1>4. CASE NextCall /\ UNCHANGED <<loop, out>>
  <2>1. TypeOK'
    BY <1>1, <1>4, NextCallTypes, SameTypes DEF IInv, TypeOK, NextCall
  <2> QED BY <1>1, <1>4, <2>1, NextCallInv DEF out
<1> QED BY <1>2, <1>3, <1>4 DEF CloseOutput

LEMMA ConfigureInv == IInv /\ Configure => IInv'
<1> SUFFICES ASSUME IInv, Configure PROVE IInv'
  OBVIOUS
<1>1. pc = "script" /\ line \in DOMAIN case.script /\ case.script[line] = "conf"
  BY DEF Configure, Calling
<1>2. CASE handle = "freed" /\ Dies("freed")
  BY <1>1, <1>2, DiesInv DEF Deaths, AtRecord
<1>3. CASE Dies("PltError")
  BY <1>1, <1>3, DiesInv DEF Deaths, AtRecord
<1>4. CASE NextCall /\ UNCHANGED <<loop, out>>
  <2>1. TypeOK'
    BY <1>1, <1>4, NextCallTypes, SameTypes DEF IInv, TypeOK, NextCall
  <2> QED BY <1>1, <1>4, <2>1, NextCallInv DEF out
<1> QED BY <1>2, <1>3, <1>4 DEF Configure

LEMMA ExitInv == IInv /\ Exit => IInv'
<1> SUFFICES ASSUME IInv, Exit PROVE IInv'
  OBVIOUS
<1>1. TypeOK'
  BY SameTypes DEF Exit, Goes, IInv, TypeOK
<1> QED BY <1>1, GoesInv DEF Exit, out

LEMMA CopyInv == IInv /\ Copy => IInv'
<1> SUFFICES ASSUME IInv, Copy PROVE IInv'
  OBVIOUS
<1>1. TypeOK'
  BY SameTypes DEF Copy, Goes, IInv, TypeOK
<1> QED BY <1>1, GoesInv DEF Copy, Calling, out

\* The loop's steps are in the copying call.
LEMMA ReadInv == IInv /\ LoopOK /\ Read => IInv'
<1> SUFFICES ASSUME IInv, LoopOK, Read PROVE IInv'
  OBVIOUS
<1>1. pc = "read" /\ line \in DOMAIN case.script /\ case.script[line] = "copy"
  BY DEF Read, LoopOK, Looping
<1>2. CASE NextCall /\ UNCHANGED <<loop, out>>
  <2>1. TypeOK'
    BY <1>1, <1>2, NextCallTypes, SameTypes DEF IInv, TypeOK, NextCall
  <2> QED BY <1>1, <1>2, <2>1, NextCallInv DEF out
<1>3. CASE Dies("LibtraceError")
  BY <1>3, DiesInv DEF Deaths, AtRecord
<1>4. CASE /\ n < Len(case.trace) /\ n' = n + 1 /\ edited' = FALSE
           /\ Goes("select") /\ UNCHANGED <<counts, out>>
  <2>1. n + 1 \in 0 .. Len(case.trace) /\ n + 1 > 0
    BY <1>4, CaseFacts DEF IInv, TypeOK, LoopType
  <2>2. TypeOK'
    <3>1. LoopType'
      BY <1>4, <2>1 DEF Goes, IInv, TypeOK, LoopType
    <3> QED BY <1>4, <2>1, <3>1, SameTypes DEF Goes, IInv, TypeOK
  <2> QED BY <1>1, <1>4, <2>2, GoesInv DEF out
<1> QED BY <1>2, <1>3, <1>4 DEF Read

\* A record of the trace.
LEMMA RecType == TypeOK /\ n > 0 => Rec \in Record /\ Rec.type \in 0 .. 255
<1> SUFFICES ASSUME TypeOK, n > 0 PROVE Rec \in Record /\ Rec.type \in 0 .. 255
  OBVIOUS
<1>1. case.trace \in Seq(Record) /\ n \in 1 .. Len(case.trace)
  BY CaseFacts DEF TypeOK, LoopType
<1>2. Rec \in Record
  BY <1>1 DEF Rec
<1> QED BY <1>2 DEF Record

LEMMA CountedTypes ==
    ASSUME TypeOK, NEW t \in 0 .. 255
    PROVE  /\ DOMAIN Counted(t) = DOMAIN counts \cup {t}
           /\ Counted(t) \in [DOMAIN Counted(t) -> Nat]
           /\ \A u : CountOf(u) \in Nat
           /\ \A u \in DOMAIN Counted(t) :
                Counted(t)[u] = CountOf(u) + IF u = t THEN 1 ELSE 0
<1>1. \A u : CountOf(u) \in Nat
  BY DEF TypeOK, LoopType, CountOf
<1> QED BY <1>1 DEF Counted

LEMMA SelectInv == IInv /\ LoopOK /\ Select => IInv'
<1> SUFFICES ASSUME IInv, LoopOK, Select PROVE IInv'
  OBVIOUS
<1>1. pc = "select" /\ line \in DOMAIN case.script /\ case.script[line] = "copy"
      /\ n > 0 /\ Rec.type \in 0 .. 255
  BY RecType DEF Select, SelectFirst, SelectIcmp, SelectArp, SelectIp,
                 SelectInternet, LoopOK, Looping, IInv, TypeOK
<1>2. ASSUME NEW why \in AtRecord \cup {"PltError"}, Dies(why), Refuses(Rec)
      PROVE  IInv'
  BY <1>1, <1>2, DiesInv DEF Deaths, AtRecord
<1>3. ASSUME NEW to \in {"read", "write"}, Goes(to), UNCHANGED <<n, out>>,
             DOMAIN counts' \subseteq 0 .. 255,
             counts' \in [DOMAIN counts' -> Nat], edited' \in BOOLEAN
      PROVE  IInv'
  <2>1. TypeOK'
    <3>1. LoopType'
      BY <1>3 DEF Goes, IInv, TypeOK, LoopType
    <3> QED BY <1>1, <1>3, <3>1, SameTypes DEF Goes, IInv, TypeOK
  <2> QED BY <1>1, <1>3, <2>1, GoesInv DEF out
<1>4. /\ DOMAIN counts \subseteq 0 .. 255 /\ counts \in [DOMAIN counts -> Nat]
      /\ edited \in BOOLEAN
  BY DEF IInv, TypeOK, LoopType
<1>5. CASE SelectFirst
  BY <1>3, <1>4, <1>5 DEF SelectFirst, loop
<1>6. CASE SelectIcmp
  <2>1. CASE Goes("read") /\ UNCHANGED <<loop, out>>
    BY <1>3, <1>4, <2>1 DEF loop
  <2>2. CASE /\ Rec.kind = case.way /\ case.way = "icmp"
             /\ Rec.type \notin ArrayTypes /\ Dies("IndexError")
    <3>1. Refuses(Rec)
      BY <2>2 DEF Refuses
    <3> QED BY <1>2, <2>2, <3>1 DEF AtRecord
  <2>4. CASE Rec.kind \in Empty /\ Dies("PltError")
    <3>1. Refuses(Rec)
      BY <1>6, <2>4 DEF SelectIcmp, Refuses
    <3> QED BY <1>2, <2>4, <3>1
  <2>3. CASE /\ counts' = Counted(Rec.type)
             /\ Goes(IF counts'[Rec.type] <= case.limit THEN "write" ELSE "read")
             /\ UNCHANGED <<n, edited, out>>
    <3>1. DOMAIN counts' \subseteq 0 .. 255 /\ counts' \in [DOMAIN counts' -> Nat]
      <4>1. LET c == Counted(Rec.type)
            IN DOMAIN c = DOMAIN counts \cup {Rec.type} /\ c \in [DOMAIN c -> Nat]
        BY <1>1, CountedTypes DEF IInv
      <4>2. counts' = Counted(Rec.type)
        BY <2>3
      <4> QED BY <1>1, <1>4, <4>1, <4>2
    <3>2. CASE counts'[Rec.type] <= case.limit
      BY <1>3, <1>4, <2>3, <3>1, <3>2
    <3>3. CASE ~(counts'[Rec.type] <= case.limit)
      BY <1>3, <1>4, <2>3, <3>1, <3>3
    <3> QED BY <3>2, <3>3
  <2> QED BY <1>6, <2>1, <2>2, <2>3, <2>4 DEF SelectIcmp
<1>7. CASE SelectArp
  <2>1. CASE /\ Rec.kind \in {"badarp", "emptyarp"}
             /\ Dies("IndexError") \/ Dies("ValueError")
    <3>1. Refuses(Rec)
      BY <1>7, <2>1 DEF SelectArp, Refuses
    <3> QED BY <1>2, <2>1, <3>1 DEF AtRecord
  <2>2. CASE /\ edited' = (Rec.kind = "arp")
             /\ Goes("write") /\ UNCHANGED <<n, counts, out>>
    <3>1. edited' \in BOOLEAN
      BY <2>2
    <3> QED BY <1>3, <1>4, <2>2, <3>1
  <2> QED BY <1>7, <2>1, <2>2 DEF SelectArp
<1>8. CASE SelectIp
  <2>1. CASE Rec.kind = "emptyip" /\ Dies("PltError")
    <3>1. Refuses(Rec)
      BY <1>8, <2>1 DEF SelectIp, Refuses
    <3> QED BY <1>2, <2>1, <3>1
  <2> QED BY <1>3, <1>4, <1>8, <2>1 DEF SelectIp, loop
<1>9. CASE SelectInternet
  <2>1. CASE NextCall /\ UNCHANGED <<loop, out>>
    <3>1. TypeOK'
      BY <1>1, <2>1, NextCallTypes, SameTypes DEF IInv, TypeOK, NextCall
    <3> QED BY <1>1, <2>1, <3>1, NextCallInv DEF out
  <2>2. CASE Goes("read") /\ UNCHANGED <<loop, out>>
    BY <1>3, <1>4, <2>2 DEF loop
  <2>3. CASE /\ Rec.kind \in Ip
             /\ Dies("PltError") \/ Dies("TypeError") \/ Dies("ValueError")
    <3>1. Refuses(Rec)
      BY <1>9, <2>3 DEF SelectInternet, Refuses
    <3> QED BY <1>2, <2>3, <3>1 DEF AtRecord
  <2>4. CASE edited' = TRUE /\ Goes("write") /\ UNCHANGED <<n, counts, out>>
    BY <1>3, <1>4, <2>4
  <2> QED BY <1>9, <2>1, <2>2, <2>3, <2>4 DEF SelectInternet, Ip
<1> QED BY <1>5, <1>6, <1>7, <1>8, <1>9 DEF Select

\* A copy is added to what was written, of which the file stays a beginning.
Written == Append(written, [rec |-> n, changed |-> edited])

LEMMA WrittenType ==
    ASSUME TypeOK
    PROVE  /\ Written \in Copies /\ Len(Written) = Len(written) + 1
           /\ Len(written) \in Nat /\ Len(file) \in Nat
           /\ Written[Len(written) + 1] = [rec |-> n, changed |-> edited]
           /\ \A i \in 1 .. Len(written) : Written[i] = written[i]
<1> DEFINE C == [rec : Nat, changed : BOOLEAN]
           e == [rec |-> n, changed |-> edited]
<1>1. e \in C /\ written \in Seq(C) /\ file \in Seq(C)
  BY CaseFacts DEF TypeOK, LoopType, OutType, Copies
<1>2. Written = Append(written, e) /\ Copies = Seq(C)
  BY DEF Written, Copies
<1> HIDE DEF C
<1>3. /\ Append(written, e) \in Seq(C)
      /\ Len(Append(written, e)) = Len(written) + 1 /\ Len(written) \in Nat
      /\ Append(written, e)[Len(written) + 1] = e
      /\ \A i \in 1 .. Len(written) : Append(written, e)[i] = written[i]
  BY <1>1, AppendFacts
<1>4. Len(file) \in Nat
  BY <1>1
<1> QED BY <1>2, <1>3, <1>4

LEMMA WritePacketInv == IInv /\ LoopOK /\ WritePacket => IInv'
<1> SUFFICES ASSUME IInv, LoopOK, WritePacket PROVE IInv'
  OBVIOUS
<1>1. pc = "write" /\ line \in DOMAIN case.script /\ case.script[line] = "copy"
  BY DEF WritePacket, LoopOK, Looping
<1>2. CASE ~started /\ Dies("PltError")
  BY <1>1, <1>2, DiesInv DEF Deaths, AtRecord
<1>3. CASE handle = "freed" /\ Dies("freed")
  BY <1>1, <1>3, DiesInv DEF Deaths, AtRecord
<1>4. CASE Dies("LibtraceError")
  BY <1>4, DiesInv DEF Deaths, AtRecord
<1>5. CASE /\ written' = Written /\ file' \in {file, Written}
           /\ NextCall \/ Goes("read")
           /\ UNCHANGED <<loop, started, handle>>
  <2>1. /\ written' \in Copies /\ file' \in Copies
        /\ Len(file') <= Len(written')
        /\ \A i \in 1 .. Len(file') : file'[i] = written'[i]
    <3>1. CASE file' = Written
      BY <1>5, <3>1, WrittenType DEF IInv
    <3>2. CASE file' = file
      BY <1>5, <3>2, WrittenType DEF IInv, TypeOK, OutType
    <3> QED BY <1>5, <3>1, <3>2
  <2>4. OutType'
    BY <1>5, <2>1 DEF IInv, TypeOK, OutType
  <2>2. CASE NextCall
    <3>1. TypeOK'
      BY <1>1, <1>5, <2>2, <2>4, NextCallTypes, SameTypes
      DEF IInv, TypeOK, NextCall
    <3> QED BY <1>1, <1>5, <2>2, <3>1, NextCallInv
  <2>3. CASE Goes("read")
    <3>1. TypeOK'
      BY <1>1, <1>5, <2>3, <2>4, SameTypes DEF Goes, IInv, TypeOK
    <3> QED BY <1>1, <1>5, <2>3, <3>1, GoesInv
  <2> QED BY <1>5, <2>2, <2>3
<1> QED BY <1>2, <1>3, <1>4, <1>5 DEF WritePacket, Written

\* IInv is inductive where the loop is in its call.
LEMMA StepIInv == IInv /\ LoopOK /\ [Next]_vars => IInv'
<1> SUFFICES ASSUME IInv, LoopOK, [Next]_vars PROVE IInv'
  OBVIOUS
<1>1. CASE UNCHANGED vars
  <2>1. TypeOK'
    BY <1>1, SameTypes DEF vars, loop, out, IInv, TypeOK
  <2>2. UNCHANGED <<case, n, died, line>>
    BY <1>1 DEF vars
  <2>3. Refuses(Rec)' = Refuses(Rec)
    BY <2>2 DEF Refuses, Rec
  <2>4. FlagGuards'
    BY <2>2, <2>3 DEF IInv, FlagGuards, Starts, Closes
  <2> QED BY <1>1, <2>1, <2>4 DEF vars, IInv, FlagOK, Starts, Closes
<1> QED BY <1>1, StartOutputInv, CloseOutputInv, ConfigureInv, ExitInv, CopyInv,
           ReadInv, SelectInv, WritePacketInv DEF Next

-----------------------------------------------------------------------------
(* The loop's place *)

\* What a step is to the loop.
Ended == pc' = "end"
Aside == pc = "script" /\ NextCall /\ UNCHANGED <<loop, written>>
Began == Copy
Finished == pc = "read" /\ NextCall /\ UNCHANGED <<loop, out>>
Got == /\ pc = "read" /\ n < Len(case.trace) /\ n' = n + 1 /\ edited' = FALSE
       /\ Goes("select") /\ UNCHANGED <<counts, out>>
Chose == Select /\ pc' # "end"
Wrote == /\ pc = "write" /\ written' = Written
         /\ \/ LoopEnds /\ NextCall
            \/ ~LoopEnds /\ Goes("read")
         /\ UNCHANGED loop

LEMMA StepKinds ==
    Next => case' = case
              /\ (Ended \/ Aside \/ Began \/ Finished \/ Got \/ Chose \/ Wrote)
<1> SUFFICES ASSUME Next
             PROVE  case' = case
                      /\ (Ended \/ Aside \/ Began \/ Finished \/ Got \/ Chose
                            \/ Wrote)
  OBVIOUS
<1>0. (\E why : Dies(why)) => Ended /\ case' = case
  BY DEF Dies, Ended
<1>1. CASE StartOutput
  BY <1>0, <1>1 DEF StartOutput, Calling, Aside, NextCall
<1>2. CASE CloseOutput
  BY <1>0, <1>2 DEF CloseOutput, Calling, Aside, NextCall, out
<1>3. CASE Configure
  BY <1>0, <1>3 DEF Configure, Calling, Aside, NextCall, out
<1>4. CASE Exit
  BY <1>4 DEF Exit, Goes, Ended
<1>5. CASE Copy
  BY <1>5 DEF Began, Copy, Goes
<1>6. CASE Read
  BY <1>0, <1>6 DEF Read, Finished, Got, Goes, NextCall
<1>7. CASE Select
  <2>1. case' = case
    BY <1>0, <1>7 DEF Select, SelectFirst, SelectIcmp, SelectArp, SelectIp,
       SelectInternet, Goes, NextCall
  <2> QED BY <1>7, <2>1 DEF Chose, Ended
<1>8. CASE WritePacket
  BY <1>0, <1>8 DEF WritePacket, Wrote, Written, Goes, NextCall
<1> QED BY <1>1, <1>2, <1>3, <1>4, <1>5, <1>6, <1>7, <1>8 DEF Next

\* The ways a record can be chosen or passed over.
Took == /\ pc = "select" /\ pc' = "write" /\ case' = case /\ line' = line
        /\ n' = n /\ written' = written
Skipped == /\ pc = "select" /\ case' = case /\ n' = n /\ written' = written
           /\ \/ pc' = "read" /\ line' = line
              \/ pc' = "script" /\ line' = line + 1
           /\ case.way \in {"icmp", "icmp6", "ip", "internet"}

LEMMA ChoseKinds == Chose => Took \/ Skipped
<1> SUFFICES ASSUME Chose PROVE Took \/ Skipped
  OBVIOUS
<1>1. CASE SelectFirst
  BY <1>1 DEF SelectFirst, Goes, Took, loop, out
<1>2. CASE SelectIcmp
  BY <1>2 DEF Chose, SelectIcmp, Dies, Goes, Took, Skipped, loop, out
<1>3. CASE SelectArp
  BY <1>3 DEF Chose, SelectArp, Dies, Goes, Took, out
<1>4. CASE SelectIp
  BY <1>4 DEF Chose, SelectIp, Dies, Goes, Took, Skipped, loop, out
<1>5. CASE SelectInternet
  BY <1>5 DEF Chose, SelectInternet, Dies, Goes, NextCall, Took, Skipped, loop, out
<1> QED BY <1>1, <1>2, <1>3, <1>4, <1>5 DEF Chose, Select

LEMMA LoopStep == TypeOK /\ LoopOK /\ [Next]_vars => LoopOK'
<1> SUFFICES ASSUME TypeOK, LoopOK, [Next]_vars PROVE LoopOK'
  OBVIOUS
<1>1. CASE UNCHANGED vars
  BY <1>1 DEF vars, LoopOK
<1>2. CASE Next
  <2>0. /\ case' = case /\ n \in Nat /\ line \in Nat /\ case.limit \in Nat
        /\ case.limit >= 1 /\ DOMAIN case.script = 1 .. Len(case.script)
    BY <1>2, StepKinds, CaseFacts DEF TypeOK, LoopType
  <2>1. CASE Ended
    BY <2>1 DEF Ended, LoopOK, Looping
  <2>2. CASE Aside
    <3>1. pc' = "script" /\ n' = n /\ line' = line + 1
      BY <2>2 DEF Aside, NextCall, loop
    <3>2. \A i : i \in DOMAIN case.script /\ i < line => i < line + 1
      BY <2>0
    <3> QED BY <2>0, <2>2, <3>1, <3>2 DEF LoopOK, Looping, Aside
  <2>3. CASE Began
    <3>1. /\ pc = "script" /\ line \in DOMAIN case.script
          /\ case.script[line] = "copy" /\ pc' = "read" /\ line' = line /\ n' = n
      BY <2>3 DEF Began, Copy, Calling, Goes, loop
    <3>2. ~(n > 0)
      <4>1. SUFFICES ASSUME n > 0 PROVE FALSE
        OBVIOUS
      <4>2. PICK i \in DOMAIN case.script : i < line /\ case.script[i] = "copy"
        BY <3>1, <4>1 DEF LoopOK
      <4>3. i = line
        BY <3>1, <4>2, CaseFacts DEF TypeOK
      <4> QED BY <2>0, <4>2, <4>3
    <3>3. n < case.limit
      BY <2>0, <3>2
    <3> QED BY <2>0, <3>1, <3>3 DEF LoopOK
  <2>4. CASE Finished \/ (Wrote /\ NextCall)
    <3>1. /\ line \in DOMAIN case.script /\ case.script[line] = "copy"
          /\ pc' = "script" /\ line' = line + 1
      BY <2>4 DEF Finished, Wrote, NextCall, LoopOK, Looping
    <3>2. line < line + 1
      BY <2>0
    <3> QED BY <2>0, <3>1, <3>2 DEF LoopOK, Looping
  <2>5. CASE Got
    <3>1. pc = "read" /\ pc' = "select" /\ line' = line /\ n' = n + 1
      BY <2>5 DEF Got, Goes
    <3> QED BY <2>0, <3>1 DEF LoopOK, Looping
  <2>6. CASE Chose
    <3>1. line \in DOMAIN case.script /\ case.script[line] = "copy" /\ line < line + 1
      BY <2>0, <2>6, ChoseKinds DEF Took, Skipped, LoopOK, Looping
    <3>2. CASE Took
      BY <2>0, <3>1, <3>2 DEF Took, LoopOK, Looping
    <3>3. CASE Skipped
      BY <2>0, <3>1, <3>3 DEF Skipped, LoopOK, Looping
    <3> QED BY <2>6, <3>2, <3>3, ChoseKinds
  <2>7. CASE Wrote /\ ~LoopEnds /\ Goes("read")
    <3>1. pc = "write" /\ pc' = "read" /\ line' = line /\ n' = n
      BY <2>7 DEF Wrote, Goes, loop
    <3>2. case.way \in {"first-n", "arp-anon"} => n < case.limit
      BY <2>0, <2>7, <3>1 DEF LoopOK, LoopEnds
    <3> QED BY <2>0, <3>1, <3>2 DEF LoopOK, Looping
  <2> QED BY <1>2, <2>1, <2>2, <2>3, <2>4, <2>5, <2>6, <2>7, StepKinds DEF Wrote
<1> QED BY <1>1, <1>2

-----------------------------------------------------------------------------
(* Counting *)

LEMMA SeenGrows ==
    ASSUME TypeOK, n > 0, NEW t \in 0 .. 255
    PROVE  /\ Cardinality(Seen(t, n - 1)) \in Nat
           /\ Rec = Message(t)
                => Cardinality(Seen(t, n)) = Cardinality(Seen(t, n - 1)) + 1
           /\ Rec # Message(t) => Seen(t, n) = Seen(t, n - 1)
<1>1. n \in Nat /\ n - 1 \in Nat
  BY CaseFacts DEF TypeOK, LoopType
<1>2. IsFiniteSet(Seen(t, n - 1))
  <2>1. IsFiniteSet(1 .. n - 1)
    BY <1>1, FS_Interval
  <2>2. Seen(t, n - 1) \subseteq 1 .. n - 1
    BY DEF Seen
  <2> QED BY <2>1, <2>2, FS_Subset
<1>3. \A j : j \in 1 .. n <=> j \in 1 .. n - 1 \/ j = n
  BY <1>1
<1>4. n \notin Seen(t, n - 1)
  BY <1>1 DEF Seen
<1>5. ASSUME Rec = Message(t)
      PROVE  Cardinality(Seen(t, n)) = Cardinality(Seen(t, n - 1)) + 1
  <2>1. Seen(t, n) = Seen(t, n - 1) \cup {n}
    BY <1>3, <1>5 DEF Seen, Rec
  <2> QED BY <1>2, <1>4, <2>1, FS_AddElement
<1>6. ASSUME Rec # Message(t) PROVE Seen(t, n) = Seen(t, n - 1)
  BY <1>3, <1>6 DEF Seen, Rec
<1>7. Cardinality(Seen(t, n - 1)) \in Nat
  BY <1>2, FS_CardinalityType
<1> QED BY <1>5, <1>6, <1>7

\* The record is the message of its type, and of no other.
LEMMA RecMessage ==
    ASSUME TypeOK, n > 0, NEW t \in 0 .. 255
    PROVE  Rec = Message(t) <=> Rec.kind = case.way /\ Rec.type = t
<1>1. Rec \in Record
  BY RecType
<1>2. Rec = [kind |-> Rec.kind, type |-> Rec.type]
  BY <1>1 DEF Record
<1> QED BY <1>2 DEF Message

LEMMA CountStep == TypeOK /\ CountOK /\ [Next]_vars => CountOK'
<1> SUFFICES ASSUME TypeOK, CountOK, [Next]_vars,
                    (pc # "end" /\ case.way \in {"icmp", "icmp6"})',
                    NEW t \in 0 .. 255
             PROVE  CountOf(t)' = Cardinality(Seen(t, Examined)')
  BY DEF CountOK
<1>1. CASE UNCHANGED vars
  BY <1>1 DEF vars, CountOK, CountOf, Seen, Examined, Message
<1>2. CASE Next
  <2>0. /\ case' = case /\ n \in Nat
    BY <1>2, StepKinds, CaseFacts DEF TypeOK, LoopType
  <2>1. \A m : Seen(t, m)' = Seen(t, m')
    BY <2>0 DEF Seen, Message
  <2>2. pc # "end"
    BY <1>2, StepKinds DEF Ended, Aside, Began, Finished, Got, Chose, Wrote,
       Copy, Calling, Select, SelectFirst, SelectIcmp, SelectArp, SelectIp,
       SelectInternet
  <2>3. CountOf(t) = Cardinality(Seen(t, Examined))
    BY <2>0, <2>2 DEF CountOK
  <2>4. ASSUME UNCHANGED counts, Examined' = Examined
        PROVE  CountOf(t)' = Cardinality(Seen(t, Examined)')
    BY <2>0, <2>3, <2>4 DEF CountOf, Seen, Message
  <2>5. CASE Aside \/ Began \/ Finished \/ Wrote
    <3>1. UNCHANGED <<counts, n>> /\ pc # "select" /\ pc' # "select"
      BY <2>5 DEF Aside, Began, Copy, Finished, Wrote, NextCall, Goes, Calling, loop
    <3> QED BY <2>4, <3>1 DEF Examined
  <2>6. CASE Got
    <3>1. UNCHANGED counts /\ pc = "read" /\ pc' = "select" /\ n' = n + 1
      BY <2>6 DEF Got, Goes
    <3>2. Examined' = Examined
      BY <2>0, <3>1 DEF Examined
    <3> QED BY <2>4, <3>1, <3>2
  <2>7. CASE Chose
    <3>1. /\ pc = "select" /\ pc' # "select" /\ n' = n /\ n > 0
          /\ Rec.type \in 0 .. 255
      BY <2>7, ChoseKinds, RecType DEF Took, Skipped, TypeOK
    <3>2. Examined = n - 1 /\ Examined' = n
      BY <3>1 DEF Examined
    <3>3. Seen(t, Examined)' = Seen(t, n)
      BY <2>0, <3>2 DEF Seen, Message
    <3>4. SelectIcmp /\ pc' # "end"
      BY <2>0, <2>7 DEF Chose, Select, SelectFirst, SelectArp, SelectIp,
         SelectInternet
    <3>5. CASE Rec.kind # case.way /\ UNCHANGED loop
      <4>1. Rec # Message(t)
        BY <3>1, <3>5, RecMessage
      <4>2. CountOf(t)' = CountOf(t)
        BY <3>5 DEF CountOf, loop
      <4> QED BY <2>3, <3>1, <3>2, <3>3, <4>1, <4>2, SeenGrows
    <3>6. CASE Rec.kind = case.way /\ counts' = Counted(Rec.type)
      <4>1. /\ DOMAIN Counted(Rec.type) = DOMAIN counts \cup {Rec.type}
            /\ CountOf(t) \in Nat
            /\ \A u \in DOMAIN Counted(Rec.type) :
                 Counted(Rec.type)[u]
                   = CountOf(u) + IF u = Rec.type THEN 1 ELSE 0
        BY <3>1, CountedTypes
      <4>2. CASE t = Rec.type
        <5>1. CountOf(t)' = CountOf(t) + 1
          BY <3>6, <4>1, <4>2 DEF CountOf
        <5> QED BY <2>3, <3>1, <3>2, <3>3, <3>6, <4>2, <5>1, SeenGrows, RecMessage
      <4>3. CASE t # Rec.type
        <5>1. CountOf(t)' = CountOf(t)
          <6>1. CASE t \in DOMAIN counts
            BY <3>6, <4>1, <4>3, <6>1 DEF CountOf
          <6>2. CASE t \notin DOMAIN counts
            BY <3>6, <4>1, <4>3, <6>2 DEF CountOf
          <6> QED BY <6>1, <6>2
        <5> QED BY <2>3, <3>1, <3>2, <3>3, <4>3, <5>1, SeenGrows, RecMessage
      <4> QED BY <4>2, <4>3
    <3> QED BY <3>4, <3>5, <3>6 DEF SelectIcmp, Dies
  <2> QED BY <1>2, <2>5, <2>6, <2>7, StepKinds DEF Ended
<1> QED BY <1>1, <1>2

-----------------------------------------------------------------------------
(* The records written *)

LEMMA Choices ==
    ASSUME TypeOK, LoopOK, CountOK, edited = FALSE, Chose
    PROVE  /\ Skipped => n \notin Wanted
           /\ Took => n \in Wanted /\ edited' = (n \in Anonymous)
<1>1. /\ pc = "select" /\ n > 0 /\ Rec.type \in 0 .. 255 /\ Rec \in Record
      /\ n \in 1 .. Len(case.trace) /\ case.limit \in Nat
      /\ case' = case /\ Rec = case.trace[n]
  BY ChoseKinds, RecType, CaseFacts DEF Took, Skipped, TypeOK, LoopType, Rec
<1>2. CASE SelectFirst
  <2>1. case.way = "first-n" /\ n <= case.limit /\ edited' = edited /\ ~Skipped
    BY <1>1, <1>2 DEF SelectFirst, LoopOK, Skipped, loop
  <2>2. n \in Wanted
    BY <1>1, <2>1 DEF Wanted
  <2>3. n \notin Anonymous
    BY <2>1 DEF Anonymous
  <2>4. edited' = FALSE
    BY <2>1
  <2>5. edited' = (n \in Anonymous)
    <3>1. (n \in Anonymous) = FALSE
      BY <2>3
    <3> QED BY <2>4, <3>1
  <2> QED BY <2>1, <2>2, <2>5
<1>3. CASE SelectArp
  <2>1. /\ case.way = "arp-anon" /\ n <= case.limit /\ ~Skipped
        /\ Rec.kind \notin {"badarp", "emptyarp"} /\ edited' = (Rec.kind = "arp")
    BY <1>1, <1>3 DEF SelectArp, LoopOK, Skipped, Dies, Chose
  <2>2. n \in Wanted
    BY <1>1, <2>1 DEF Wanted
  <2> QED BY <1>1, <2>1, <2>2 DEF Anonymous
<1>4. CASE SelectIcmp
  <2>1. case.way \in {"icmp", "icmp6"} /\ edited' = edited /\ n' = n
    BY <1>4 DEF Chose, SelectIcmp, Dies, loop
  <2>2. CASE Rec.kind # case.way
    <3>1. ~Took
      BY <1>4, <2>2 DEF SelectIcmp, Goes, Dies, Took
    <3>2. n \notin Wanted
      BY <1>1, <2>1, <2>2 DEF Wanted
    <3> QED BY <3>1, <3>2
  <2>3. CASE Rec.kind = case.way
    <3>1. /\ case.way = "icmp" => Rec.type \in ArrayTypes
          /\ counts' = Counted(Rec.type)
          /\ Took => counts'[Rec.type] <= case.limit
          /\ Skipped => ~(counts'[Rec.type] <= case.limit)
      BY <1>4, <2>3 DEF Chose, SelectIcmp, Dies, Goes, Took, Skipped
    <3>2. Rec = Message(Rec.type)
      BY <1>1, <2>3, RecMessage
    <3>3. SameBefore(n) = Seen(Rec.type, n)
      BY <3>2 DEF SameBefore, Seen, Rec
    <3>4. CountOf(Rec.type) = Cardinality(Seen(Rec.type, n - 1))
      BY <1>1, <2>1 DEF CountOK, Examined
    <3>5. counts'[Rec.type] = CountOf(Rec.type) + 1
      <4>1. Rec.type \in DOMAIN Counted(Rec.type)
        BY <1>1, CountedTypes
      <4> QED BY <1>1, <3>1, <4>1, CountedTypes
    <3>6. counts'[Rec.type] = Cardinality(SameBefore(n))
      BY <1>1, <3>2, <3>3, <3>4, <3>5, SeenGrows
    <3>7. n \in Wanted <=> counts'[Rec.type] <= case.limit
      BY <1>1, <2>1, <2>3, <3>1, <3>6 DEF Wanted
    <3>8. n \notin Anonymous
      BY <2>1 DEF Anonymous
    <3>9. (Skipped => n \notin Wanted) /\ (Took => n \in Wanted)
      BY <3>1, <3>7
    <3>10. edited' = (n \in Anonymous)
      <4>1. (n \in Anonymous) = FALSE
        BY <3>8
      <4> QED BY <2>1, <4>1
    <3> QED BY <3>9, <3>10
  <2> QED BY <2>2, <2>3
<1>5. CASE SelectIp
  <2>1. case.way = "ip" /\ edited' = FALSE
    BY <1>5 DEF Chose, SelectIp, Dies, loop
  <2>2. n \in Wanted <=> Rec.kind \in Ip \ {"emptyip"}
    BY <1>1, <2>1 DEF Wanted
  <2>3. /\ Skipped => Rec.kind \notin Ip
        /\ Took => Rec.kind \in Ip \ {"emptyip"}
    BY <1>5 DEF SelectIp, Goes, Dies, Took, Skipped
  <2>4. (n \in Anonymous) = FALSE
    BY <2>1 DEF Anonymous
  <2>5. edited' = (n \in Anonymous)
    BY <2>1, <2>4
  <2> QED BY <2>2, <2>3, <2>5
<1>6. CASE SelectInternet
  <2>1. case.way = "internet"
    BY <1>6 DEF SelectInternet
  <2>2. n \in Wanted <=> n <= case.limit /\ Rec.kind \in Ip4
    BY <1>1, <2>1 DEF Wanted
  <2>3. /\ Skipped => ~(n <= case.limit) \/ Rec.kind \notin Ip4
        /\ Took => n <= case.limit /\ Rec.kind \in Ip4 /\ edited' = TRUE
    BY <1>1, <1>6 DEF Chose, SelectInternet, Dies, Goes, NextCall, Took, Skipped,
       TypeOK, LoopType, Ip
  <2>4. n \in Wanted => (n \in Anonymous) = TRUE
    BY <2>1 DEF Anonymous
  <2>5. Took => edited' = (n \in Anonymous)
    BY <2>2, <2>3, <2>4
  <2> QED BY <2>2, <2>3, <2>5
<1> QED BY <1>2, <1>3, <1>4, <1>5, <1>6 DEF Chose, Select

\* What is appended is one more number.
LEMMA NumbersGrow ==
    ASSUME TypeOK, written' = Written
    PROVE  /\ Copying!Numbers' = Copying!Numbers \cup {n}
           /\ written' = Append(written, [rec |-> n, changed |-> edited])
<1>1. /\ written \in Copies /\ n \in Nat /\ edited \in BOOLEAN
  BY CaseFacts DEF TypeOK, LoopType, OutType
<1> DEFINE e == [rec |-> n, changed |-> edited]
<1>2. e \in [rec : Nat, changed : BOOLEAN] /\ e.rec = n
  BY <1>1
<1>3. written' = Append(written, e)
  BY DEF Written
<1>4. /\ DOMAIN written = 1 .. Len(written) /\ Len(written) \in Nat
      /\ DOMAIN written' = 1 .. Len(written) + 1
      /\ written'[Len(written) + 1] = e
      /\ \A i \in 1 .. Len(written) : written'[i] = written[i]
  <2> HIDE DEF e
  <2> QED BY <1>1, <1>2, <1>3 DEF Copies
<1>5. \A i : i \in DOMAIN written' <=> i \in DOMAIN written \/ i = Len(written) + 1
  BY <1>4
<1> HIDE DEF e
<1>6. ASSUME NEW r PROVE r \in Copying!Numbers' <=> r \in Copying!Numbers \/ r = n
  <2>1. r \in Copying!Numbers' <=> \E i \in DOMAIN written' : r = written'[i].rec
    BY DEF Copying!Numbers
  <2>2. r \in Copying!Numbers <=> \E i \in DOMAIN written : r = written[i].rec
    BY DEF Copying!Numbers
  <2> QED BY <1>2, <1>4, <1>5, <2>1, <2>2
<1> QED BY <1>3, <1>6 DEF e

\* What is to be copied depends on the trace and the program alone.
LEMMA SameCase == case' = case => UNCHANGED <<Wanted, Anonymous>>
<1> SUFFICES ASSUME case' = case PROVE UNCHANGED <<Wanted, Anonymous>>
  OBVIOUS
<1>1. Wanted' = Wanted
  BY DEF Wanted, SameBefore
<1>2. \A i : i \in Anonymous' <=> i \in Anonymous
  BY <1>1 DEF Anonymous
<1>3. Anonymous' = Anonymous
  BY <1>2 DEF Anonymous
<1> QED BY <1>1, <1>3

LEMMA CopiedStep ==
    TypeOK /\ LoopOK /\ CountOK /\ CopiedOK /\ [Next]_vars => CopiedOK'
<1> SUFFICES ASSUME TypeOK, LoopOK, CountOK, CopiedOK, [Next]_vars
             PROVE  CopiedOK'
  OBVIOUS
<1>1. CASE UNCHANGED vars
  <2>1. Wanted' = Wanted /\ Anonymous' = Anonymous
    BY <1>1, SameCase DEF vars
  <2>2. Copying!Numbers' = Copying!Numbers /\ Passed' = Passed
    BY <1>1 DEF vars, Copying!Numbers, Passed
  <2>3. pc' = pc /\ n' = n /\ edited' = edited
    BY <1>1 DEF vars
  <2>4. CASE pc = "select"
    BY <2>1, <2>2, <2>3, <2>4 DEF CopiedOK
  <2>5. CASE pc = "write"
    BY <2>1, <2>2, <2>3, <2>5 DEF CopiedOK
  <2>6. CASE pc \notin {"select", "write"}
    BY <2>1, <2>2, <2>3, <2>6 DEF CopiedOK
  <2> QED BY <2>4, <2>5, <2>6
<1>2. CASE Next
  <2>0. case' = case /\ n \in Nat /\ Wanted \subseteq Nat
    BY <1>2, StepKinds, CaseFacts DEF TypeOK, LoopType, Wanted
  <2>1. Wanted' = Wanted
    BY <2>0, SameCase
  <2>2. Anonymous' = Anonymous
    BY <2>0, SameCase
  <2>3. pc # "end"
    BY <1>2 DEF Next, StartOutput, CloseOutput, Configure, Exit, Copy, Calling,
       Read, Select, SelectFirst, SelectIcmp, SelectArp, SelectIp,
       SelectInternet, WritePacket
  <2>4. Copying!Numbers = {i \in Wanted : i <= Passed}
    BY <2>3 DEF CopiedOK
  <2>5. written' = written => Copying!Numbers' = Copying!Numbers
    BY DEF Copying!Numbers
  <2>6. CASE Ended
    BY <2>6 DEF Ended, CopiedOK
  <2>7. CASE Aside \/ Began \/ Finished
    <3>1. /\ UNCHANGED <<n, written>> /\ pc \notin {"select", "write"}
          /\ pc' \notin {"select", "write"}
      BY <2>7 DEF Aside, Began, Copy, Finished, NextCall, Goes, Calling, loop, out
    <3>2. Passed' = Passed
      BY <3>1 DEF Passed
    <3> QED BY <2>1, <2>4, <2>5, <3>1, <3>2 DEF CopiedOK
  <2>8. CASE Got
    <3>1. /\ UNCHANGED written /\ pc = "read" /\ pc' = "select" /\ n' = n + 1
          /\ edited' = FALSE
      BY <2>8 DEF Got, Goes, out
    <3>2. Passed' = Passed
      BY <2>0, <3>1 DEF Passed
    <3> QED BY <2>1, <2>4, <2>5, <3>1, <3>2 DEF CopiedOK
  <2>9. CASE Chose
    <3>1. pc = "select" /\ edited = FALSE
      BY <2>9, ChoseKinds DEF Took, Skipped, CopiedOK
    <3>2. CASE Took
      <4>1. n \in Wanted /\ edited' = (n \in Anonymous)
        BY <2>9, <3>1, <3>2, Choices
      <4>2. pc' = "write" /\ n' = n /\ written' = written
        BY <3>2 DEF Took
      <4>3. Passed' = Passed
        BY <3>1, <4>2 DEF Passed
      <4>4. Copying!Numbers' = {i \in Wanted : i <= Passed'}
        BY <2>4, <2>5, <4>2, <4>3
      <4>5. n' \in Wanted'
        BY <2>1, <4>1, <4>2
      <4>6. edited' = (n' \in Anonymous')
        BY <2>2, <4>1, <4>2
      <4> QED BY <2>1, <4>2, <4>4, <4>5, <4>6 DEF CopiedOK
    <3>3. CASE Skipped
      <4>1. n \notin Wanted
        BY <2>9, <3>1, <3>3, Choices
      <4>2. pc' \in {"read", "script"} /\ n' = n /\ written' = written
        BY <3>3 DEF Skipped
      <4>3. Passed = n - 1 /\ Passed' = n
        BY <3>1, <4>2 DEF Passed
      <4>4. {i \in Wanted : i <= n - 1} = {i \in Wanted : i <= n}
        <5>1. \A i \in Wanted : i <= n - 1 <=> i <= n
          <6>1. \A i \in Nat : i # n => (i <= n - 1 <=> i <= n)
            BY <2>0
          <6> QED BY <2>0, <4>1, <6>1
        <5> QED BY <5>1
      <4> QED BY <2>1, <2>4, <2>5, <4>2, <4>3, <4>4 DEF CopiedOK
    <3> QED BY <2>9, <3>2, <3>3, ChoseKinds
  <2>10. CASE Wrote
    <3>1. pc = "write" /\ n' = n /\ pc' \in {"script", "read"} /\ written' = Written
      BY <2>10 DEF Wrote, NextCall, Goes, loop
    <3>2. n \in Wanted /\ Passed = n - 1 /\ Passed' = n
      BY <3>1 DEF CopiedOK, Passed
    <3>3. Copying!Numbers' = Copying!Numbers \cup {n}
      BY <3>1, NumbersGrow
    <3>4. {i \in Wanted : i <= n - 1} \cup {n} = {i \in Wanted : i <= n}
      <4>1. \A i \in Nat : i <= n <=> i <= n - 1 \/ i = n
        BY <2>0
      <4>2. \A i \in Wanted : i <= n <=> i <= n - 1 \/ i = n
        BY <2>0, <4>1
      <4> QED BY <3>2, <4>2
    <3> QED BY <2>1, <2>4, <3>1, <3>2, <3>3, <3>4 DEF CopiedOK
  <2> QED BY <1>2, <2>6, <2>7, <2>8, <2>9, <2>10, StepKinds
<1> QED BY <1>1, <1>2

LEMMA InitCInv == Init => CInv
<1> SUFFICES ASSUME Init PROVE CInv
  OBVIOUS
<1>0. /\ pc = "script" /\ n = 0 /\ written = <<>> /\ counts = [t \in {} |-> 0]
      /\ case \in Cases
  BY DEF Init
<1>1. LoopOK
  BY <1>0 DEF LoopOK, Looping
<1>2. CountOK
  <2>1. \A t : Seen(t, 0) = {}
    BY DEF Seen
  <2>2. \A t : CountOf(t) = 0
    BY <1>0 DEF CountOf
  <2> QED BY <1>0, <2>1, <2>2, FS_EmptySet DEF CountOK, Examined
<1>3. CopiedOK
  <2>1. Copying!Numbers = {}
    BY <1>0 DEF Copying!Numbers
  <2>2. {i \in Wanted : i <= 0} = {}
    BY <1>0, CaseFacts DEF Wanted
  <2> QED BY <1>0, <2>1, <2>2 DEF CopiedOK, Passed
<1> QED BY <1>1, <1>2, <1>3, InitIInv DEF CInv

LEMMA StepCInv == CInv /\ [Next]_vars => CInv'
  BY StepIInv, LoopStep, CountStep, CopiedStep DEF CInv, IInv

LEMMA CInvAlways == Spec => []CInv
  BY InitCInv, StepCInv, PTL DEF Spec

-----------------------------------------------------------------------------
(* The theorems *)

\* The loop over a trace stays inside it, and the file is a beginning of what
\* write_packet gave to libtrace.
THEOREM TypeCorrect == Spec => []TypeOK
<1>1. CInv => TypeOK
  BY DEF CInv, IInv
<1> QED BY <1>1, CInvAlways, PTL

\* The flag that start_output sets and close_output leaves lets a destroyed
\* handle through only after a start and a close, in any order of the calls.
THEOREM FlagIsGuard == Spec => []FlagGuards
<1>1. CInv => FlagGuards
  BY DEF CInv, IInv
<1> QED BY <1>1, CInvAlways, PTL

LEMMA InitCopying == Init => Copying!Init
<1> SUFFICES ASSUME Init PROVE Copying!Init
  OBVIOUS
<1>1. Wanted \subseteq Nat
  BY CaseFacts DEF Init, Wanted
<1>2. Anonymous \subseteq Wanted /\ written = <<>>
  BY DEF Init, Anonymous
<1> QED BY <1>1, <1>2 DEF Copying!Init

LEMMA StepCopying == CInv /\ [Next]_vars => [Copying!Next]_Copying!vars
<1> SUFFICES ASSUME CInv, [Next]_vars
             PROVE  Copying!Next \/ UNCHANGED Copying!vars
  OBVIOUS
<1>0. case' = case
  BY StepKinds DEF vars
<1>1. Wanted' = Wanted
  BY <1>0, SameCase
<1>2. Anonymous' = Anonymous
  BY <1>0, SameCase
<1>3. CASE written' = written
  BY <1>1, <1>2, <1>3 DEF Copying!vars
<1>4. CASE Wrote
  <2>1. /\ pc = "write" /\ written' = Written /\ n \in Wanted
        /\ edited = (n \in Anonymous) /\ n \in Nat /\ Wanted \subseteq Nat
        /\ Copying!Numbers = {i \in Wanted : i <= n - 1}
    BY <1>4, CaseFacts
    DEF Wrote, CInv, CopiedOK, Passed, IInv, TypeOK, LoopType, Wanted
  <2>2. n \in Wanted \ Copying!Numbers
    BY <2>1
  <2>3. \A q \in Wanted : q < n => q \in Copying!Numbers
    BY <2>1
  <2>4. written' = Append(written, [rec |-> n, changed |-> n \in Anonymous])
    BY <2>1 DEF Written
  <2>5. Copying!Copy(n)
    BY <1>1, <1>2, <2>2, <2>3, <2>4 DEF Copying!Copy
  <2> QED BY <2>1, <2>5 DEF Copying!Next
<1>5. written' = written \/ Wrote
  <2>1. CASE UNCHANGED vars
    BY <2>1 DEF vars
  <2>2. CASE Next
    <3>1. (\E why : Dies(why)) => written' = written
      BY DEF Dies
    <3>2. CASE WritePacket
      BY <3>1, <3>2 DEF WritePacket, Wrote, Written
    <3>3. CASE Select
      BY <3>1, <3>3 DEF Select, SelectFirst, SelectIcmp, SelectArp, SelectIp,
         SelectInternet, out
    <3> QED BY <2>2, <3>1, <3>2, <3>3 DEF Next, StartOutput, CloseOutput,
               Configure, Exit, Copy, Read, out
  <2> QED BY <2>1, <2>2
<1> QED BY <1>3, <1>4, <1>5

\* Every program copies the wanted records only, each once, in the order of
\* the trace, and arp-anon none of the ARP records with its addresses, for any
\* trace and wherever an exception ends the program.
THEOREM Implements == Spec => ImplementsCopy
  BY CInvAlways, InitCopying, StepCopying, PTL DEF Spec, ImplementsCopy, Copying!Spec

-----------------------------------------------------------------------------
(* How programs end *)

\* An exception is raised in a call, and without one the script is done.
AtLine ==
    /\ died # "no" => line \in DOMAIN case.script
    /\ pc = "end" /\ died = "no" => line \notin DOMAIN case.script

\* When the copying is over and the program lives, all wanted is written.
CopyBefore(k) == \E i \in DOMAIN case.script : i < k /\ case.script[i] = "copy"
CopyDone ==
    pc \in {"script", "end"} /\ died = "no" /\ CopyBefore(line) =>
        Copying!Numbers = Wanted

\* When an orderly program is done, libtrace has finished its file.
FileDone ==
    Orderly /\ pc \in {"script", "end"} /\ died = "no"
        /\ line \notin DOMAIN case.script => file = written

DInv == CInv /\ AtLine /\ CopyDone /\ FileDone

\* No exception, a call of the script other than the copying, the end of the
\* script, the end of the loop, a step inside it.
Died == pc' = "end" /\ died' # "no" /\ line' = line /\ line \in DOMAIN case.script
Called == /\ pc = "script" /\ pc' = "script" /\ line' = line + 1 /\ died' = died
          /\ line \in DOMAIN case.script /\ case.script[line] # "copy"
          /\ written' = written
          /\ case.script[line] = "close_output" /\ started => file' = written
LoopLeft ==
    \/ LoopEnds
    \/ n = Len(case.trace)
    \/ case.way = "internet" /\ n > case.limit
LoopOver == /\ pc \in Looping /\ pc' = "script" /\ line' = line + 1 /\ died' = died
            /\ LoopLeft /\ UNCHANGED n
Looped == pc' \in Looping /\ line' = line /\ died' = died

LEMMA StepPlaces ==
    TypeOK /\ FlagOK /\ LoopOK /\ Next =>
        Died \/ Exit \/ Called \/ LoopOver \/ Looped
<1> SUFFICES ASSUME TypeOK, FlagOK, LoopOK, Next
             PROVE  Died \/ Exit \/ Called \/ LoopOver \/ Looped
  OBVIOUS
<1>1. ASSUME NEW why, why # "no", Dies(why), line \in DOMAIN case.script
      PROVE  Died
  BY <1>1 DEF Dies, Died
<1>2. CASE StartOutput
  BY <1>1, <1>2 DEF StartOutput, Calling, Called, NextCall
<1>3. CASE CloseOutput
  BY <1>1, <1>3 DEF CloseOutput, Calling, Called, NextCall, out
<1>4. CASE Configure
  BY <1>1, <1>4 DEF Configure, Calling, Called, NextCall, out
<1>5. CASE Exit
  BY <1>5
<1>6. CASE Copy
  BY <1>6 DEF Copy, Goes, Looped, Looping
<1>7. CASE Read
  <2>1. line \in DOMAIN case.script
    BY <1>7 DEF Read, LoopOK, Looping
  <2>2. CASE n = Len(case.trace) /\ NextCall /\ UNCHANGED loop
    BY <1>7, <2>2 DEF Read, NextCall, LoopOver, LoopLeft, Looping, loop
  <2>3. CASE Dies("LibtraceError")
    BY <1>1, <2>1, <2>3
  <2>4. CASE Goes("select")
    BY <2>4 DEF Goes, Looped, Looping
  <2> QED BY <1>7, <2>2, <2>3, <2>4 DEF Read
<1>8. CASE Select
  <2>1. pc = "select" /\ line \in DOMAIN case.script
    BY <1>8 DEF Select, SelectFirst, SelectIcmp, SelectArp, SelectIp,
       SelectInternet, LoopOK, Looping
  <2>2. CASE SelectFirst \/ SelectIp
    BY <1>1, <2>1, <2>2 DEF SelectFirst, SelectIp, Goes, Looped, Looping
  <2>3. CASE SelectIcmp
    BY <1>1, <2>1, <2>3 DEF SelectIcmp, Goes, Looped, Looping
  <2>4. CASE SelectArp
    BY <1>1, <2>1, <2>4 DEF SelectArp, Goes, Looped, Looping
  <2>5. CASE SelectInternet
    <3>1. CASE n > case.limit /\ NextCall /\ UNCHANGED loop
      BY <2>1, <2>5, <3>1
      DEF SelectInternet, NextCall, LoopOver, LoopLeft, Looping, loop
    <3>2. CASE Dies("PltError") \/ Dies("TypeError") \/ Dies("ValueError")
      BY <1>1, <2>1, <3>2
    <3>3. CASE Goes("read") \/ Goes("write")
      BY <3>3 DEF Goes, Looped, Looping
    <3> QED BY <2>5, <3>1, <3>2, <3>3 DEF SelectInternet
  <2> QED BY <1>8, <2>2, <2>3, <2>4, <2>5 DEF Select
<1>9. CASE WritePacket
  <2>1. pc = "write" /\ line \in DOMAIN case.script
    BY <1>9 DEF WritePacket, LoopOK, Looping
  <2>2. CASE LoopEnds /\ NextCall /\ UNCHANGED loop
    BY <2>1, <2>2 DEF NextCall, LoopOver, LoopLeft, Looping, loop
  <2>3. CASE Dies("PltError") \/ Dies("freed") \/ Dies("LibtraceError")
    BY <1>1, <2>1, <2>3
  <2>4. CASE Goes("read")
    BY <2>4 DEF Goes, Looped, Looping
  <2> QED BY <1>9, <2>2, <2>3, <2>4 DEF WritePacket
<1> QED BY <1>2, <1>3, <1>4, <1>5, <1>6, <1>7, <1>8, <1>9 DEF Next

\* No wanted record comes after the one at which a loop ends.
LEMMA NoneLeft ==
    ASSUME TypeOK, LoopLeft
    PROVE  \A i \in Wanted : i <= n
<1> SUFFICES ASSUME NEW i \in Wanted PROVE i <= n
  OBVIOUS
<1>1. /\ n \in Nat /\ case.limit \in Nat
      /\ i \in Nat /\ i <= Len(case.trace)
  BY CaseFacts DEF TypeOK, LoopType, Wanted
<1>2. CASE LoopEnds
  <2>1. i <= case.limit
    BY <1>2 DEF LoopEnds, Wanted
  <2> QED BY <1>2, <2>1 DEF LoopEnds
<1>3. case.way = "internet" => i <= case.limit
  BY DEF Wanted
<1> QED BY <1>1, <1>2, <1>3 DEF LoopLeft

\* A line is one of the script or the one behind it.
LEMMA LineFacts ==
    ASSUME TypeOK
    PROVE  /\ line \in Nat /\ Len(case.script) \in Nat
           /\ DOMAIN case.script = 1 .. Len(case.script)
           /\ line \notin DOMAIN case.script <=> line = Len(case.script) + 1
  BY CaseFacts DEF TypeOK

\* An orderly program has started its trace before it copies and closes it
\* last, once.
LEMMA OrderlyFacts ==
    ASSUME TypeOK, Orderly
    PROVE  LET k == Len(case.script)
           IN /\ k \in DOMAIN case.script /\ case.script[k] = "close_output"
              /\ Starts(k) /\ CopyBefore(k + 1)
              /\ \A i \in DOMAIN case.script :
                   /\ ~Closes(i)
                   /\ case.script[i] = "start_output" => ~Starts(i)
                   /\ case.script[i] = "copy" => Starts(i)
<1>1. CASE case.script = <<"start_output", "copy", "close_output">>
  <2>1. /\ Len(case.script) = 3 /\ DOMAIN case.script = 1 .. 3
        /\ case.script[1] = "start_output" /\ case.script[2] = "copy"
        /\ case.script[3] = "close_output"
    BY <1>1
  <2> QED BY <2>1 DEF Starts, Closes, CopyBefore
<1>2. CASE case.script = <<"conf", "conf", "start_output", "copy", "close_output">>
  <2>1. /\ Len(case.script) = 5 /\ DOMAIN case.script = 1 .. 5
        /\ case.script[1] = "conf" /\ case.script[2] = "conf"
        /\ case.script[3] = "start_output" /\ case.script[4] = "copy"
        /\ case.script[5] = "close_output"
    BY <1>2
  <2> QED BY <2>1 DEF Starts, Closes, CopyBefore
<1> QED BY <1>1, <1>2 DEF Orderly

\* Steps keep what is said of the end.
LEMMA StepDInv == DInv /\ [Next]_vars => DInv'
<1> SUFFICES ASSUME DInv, [Next]_vars PROVE DInv'
  OBVIOUS
<1>1. CInv /\ CInv'
  BY StepCInv DEF DInv
<1>2. TypeOK /\ FlagOK /\ LoopOK /\ CopiedOK' /\ TypeOK'
  BY <1>1 DEF CInv, IInv
<1>3. case' = case /\ Wanted' = Wanted
  BY SameCase, StepKinds DEF vars
<1>4. CASE UNCHANGED vars
  <2>1. UNCHANGED <<pc, line, died, written, file>>
    BY <1>4 DEF vars
  <2>2. AtLine'
    BY <1>3, <2>1 DEF DInv, AtLine
  <2>3. CopyDone'
    BY <1>3, <2>1 DEF DInv, CopyDone, CopyBefore, Copying!Numbers
  <2>4. FileDone'
    BY <1>3, <2>1 DEF DInv, FileDone, Orderly
  <2> QED BY <1>1, <2>2, <2>3, <2>4 DEF DInv
<1>5. CASE Died
  BY <1>1, <1>3, <1>5 DEF Died, DInv, AtLine, CopyDone, FileDone
<1>6. CASE Exit
  <2>1. /\ UNCHANGED <<line, died, written, file>> /\ pc = "script"
        /\ line \notin DOMAIN case.script /\ died = "no"
    BY <1>2, <1>6 DEF Exit, Goes, out, FlagOK
  <2>2. AtLine'
    BY <1>3, <2>1 DEF AtLine
  <2>3. CopyDone'
    BY <1>3, <2>1 DEF DInv, CopyDone, CopyBefore, Copying!Numbers
  <2>4. FileDone'
    BY <1>3, <2>1 DEF DInv, FileDone, Orderly
  <2> QED BY <1>1, <2>2, <2>3, <2>4 DEF DInv
<1>7. CASE Called
  <2>1. died = "no" /\ died' = "no" /\ pc' = "script"
    BY <1>2, <1>7 DEF Called, FlagOK
  <2>2. AtLine'
    BY <2>1 DEF AtLine
  <2>3. CopyDone'
    <3>1. CopyBefore(line)' => CopyBefore(line)
      <4>1. \A i \in DOMAIN case.script : i < line + 1 => i < line \/ i = line
        BY <1>2, LineFacts
      <4> QED BY <1>3, <1>7, <4>1 DEF Called, CopyBefore
    <3> QED BY <1>3, <1>7, <2>1, <3>1 DEF Called, DInv, CopyDone, Copying!Numbers
  <2>4. FileDone'
    <3> SUFFICES ASSUME Orderly, line' \notin DOMAIN case'.script
                 PROVE  file' = written'
      BY <1>3 DEF FileDone, Orderly
    <3>1. line = Len(case.script)
      BY <1>2, <1>3, <1>7, LineFacts DEF Called
    <3>2. case.script[line] = "close_output" /\ Starts(line)
      BY <1>2, <3>1, OrderlyFacts
    <3>3. started
      BY <1>2, <1>7, <3>2 DEF FlagOK, Called
    <3> QED BY <1>7, <3>2, <3>3 DEF Called
  <2> QED BY <1>1, <2>2, <2>3, <2>4 DEF DInv
<1>8. CASE LoopOver
  <2>1. /\ died = "no" /\ died' = "no" /\ pc' = "script" /\ n' = n
        /\ line' = line + 1 /\ case.script[line] = "copy"
        /\ line \in DOMAIN case.script
    BY <1>2, <1>8 DEF LoopOver, FlagOK, LoopOK, Looping
  <2>2. AtLine'
    BY <2>1 DEF AtLine
  <2>3. CopyDone'
    <3>1. Copying!Numbers' = {i \in Wanted : i <= n}
      BY <1>2, <1>3, <2>1 DEF CopiedOK, Passed
    <3>2. \A i \in Wanted : i <= n
      BY <1>2, <1>8, NoneLeft DEF LoopOver
    <3> QED BY <1>3, <3>1, <3>2 DEF CopyDone
  <2>4. FileDone'
    <3> SUFFICES ASSUME Orderly, line' \notin DOMAIN case'.script PROVE FALSE
      BY <1>3 DEF FileDone, Orderly
    <3>1. line = Len(case.script)
      BY <1>2, <1>3, <2>1, LineFacts
    <3> QED BY <1>2, <2>1, <3>1, OrderlyFacts
  <2> QED BY <1>1, <2>2, <2>3, <2>4 DEF DInv
<1>9. CASE Looped
  <2>1. died = "no" /\ died' = "no" /\ pc' \in Looping /\ pc' \notin {"script", "end"}
    <3>1. pc # "end"
      <4>1. CASE pc = "end"
        <5>1. Next
          BY <1>9, <4>1 DEF Looped, Looping, vars
        <5> QED BY <4>1, <5>1
            DEF Next, StartOutput, CloseOutput, Configure, Exit, Copy, Calling,
                Read, Select, SelectFirst, SelectIcmp, SelectArp, SelectIp,
                SelectInternet, WritePacket
      <4> QED BY <4>1
    <3> QED BY <1>2, <1>9, <3>1 DEF Looped, Looping, FlagOK
  <2> QED BY <1>1, <2>1 DEF DInv, AtLine, CopyDone, FileDone
<1> QED BY <1>2, <1>4, <1>5, <1>6, <1>7, <1>8, <1>9, StepPlaces

\* Initially nothing was called.
LEMMA InitDInv == Init => DInv
<1> SUFFICES ASSUME Init PROVE DInv
  OBVIOUS
<1>1. CInv /\ TypeOK
  BY InitCInv DEF CInv, IInv
<1>2. line = 1 /\ died = "no" /\ pc = "script" /\ written = <<>> /\ file = <<>>
  BY DEF Init
<1>3. ~CopyBefore(line)
  BY <1>1, <1>2, LineFacts DEF CopyBefore
<1> QED BY <1>1, <1>2, <1>3 DEF DInv, AtLine, CopyDone, FileDone

LEMMA DInvAlways == Spec => []DInv
  BY InitDInv, StepDInv, PTL DEF Spec

\* Any program that lives through its loop has written all that it wants, of a
\* trace of any length.
LoopComplete ==
    pc \in {"script", "end"} /\ died = "no" /\ CopyBefore(line) =>
        {written[i].rec : i \in DOMAIN written} = Wanted

THEOREM LoopCopiesAll == Spec => []LoopComplete
<1>1. DInv => LoopComplete
  BY DEF DInv, CopyDone, LoopComplete, Copying!Numbers
<1> QED BY <1>1, DInvAlways, PTL

\* When a program that starts, copies and closes in this order has ended, it has
\* all the wanted records in its file unless an exception that the trace or
\* libtrace is to blame for ended it: CopyCompletes, if it ends.
EndsComplete == pc = "end" => (Orderly => Complete)

THEOREM OrderlyEndsComplete == Spec => []EndsComplete
<1>1. DInv => EndsComplete
  <2> SUFFICES ASSUME DInv, pc = "end", Orderly PROVE Complete
    BY DEF EndsComplete
  <2>1. TypeOK /\ FlagGuards /\ AtLine /\ CopyDone /\ FileDone
    BY DEF DInv, CInv, IInv
  <2>2. died # "freed"
    BY <2>1, OrderlyFacts DEF FlagGuards, AtLine
  <2>3. ASSUME died = "PltError"
        PROVE  \/ case.script[line] = "conf"
               \/ case.script[line] = "copy" /\ Refuses(Rec)
    <3>1. line \in DOMAIN case.script
      BY <2>1, <2>3 DEF AtLine
    <3>2. CASE case.script[line] = "start_output"
      BY <2>1, <2>3, <3>1, <3>2, OrderlyFacts DEF FlagGuards
    <3>3. CASE case.script[line] = "copy"
      BY <2>1, <2>3, <3>1, <3>3, OrderlyFacts DEF FlagGuards
    <3> QED BY <2>1, <2>3, <3>2, <3>3 DEF FlagGuards
  <2>4. ASSUME died = "no" PROVE {file[i].rec : i \in DOMAIN file} = Wanted
    <3>1. line \notin DOMAIN case.script /\ file = written
      BY <2>1, <2>4 DEF AtLine, FileDone
    <3>2. CopyBefore(line)
      BY <2>1, <3>1, OrderlyFacts, LineFacts
    <3> QED BY <2>1, <2>4, <3>1, <3>2 DEF CopyDone, Copying!Numbers
  <2>5. ASSUME died \in AtRecord
        PROVE  case.script[line] = "copy" /\ Refuses(Rec)
    BY <2>1, <2>5 DEF FlagGuards, AtRecord
  <2>6. died \in {"no", "freed", "PltError", "LibtraceError"} \cup AtRecord
    BY <2>1 DEF TypeOK, AtRecord
  <2> QED BY <2>2, <2>3, <2>4, <2>5, <2>6 DEF Complete, AtRecord
<1> QED BY <1>1, DInvAlways, PTL

\* How many steps a program may still take: each record is read and then chosen
\* or passed over, and perhaps written; each call leads to the next.
Stage ==
    CASE pc = "script" -> 2 [] pc = "read" -> 1
      [] pc = "select" -> 3 [] pc = "write" -> 2
Remaining ==
    IF pc = "end" THEN 0
    ELSE 3 * (Len(case.trace) - n) + 2 * (Len(case.script) + 1 - line) + Stage

LEMMA RemainingType ==
    ASSUME TypeOK
    PROVE  /\ Remaining \in Nat
           /\ pc # "end" => Remaining > 0
<1>1. /\ n \in Nat /\ Len(case.trace) \in Nat /\ n <= Len(case.trace)
      /\ line \in Nat /\ Len(case.script) \in Nat /\ line <= Len(case.script) + 1
  BY CaseFacts DEF TypeOK, LoopType
<1>2. CASE pc = "end"
  BY <1>2 DEF Remaining
<1>3. CASE pc # "end"
  <2>1. Stage \in {1, 2, 3}
    <3>1. pc \in {"script", "read", "select", "write"}
      BY <1>3 DEF TypeOK
    <3> QED BY <3>1 DEF Stage
  <2>2. 3 * (Len(case.trace) - n) \in Nat /\ 2 * (Len(case.script) + 1 - line) \in Nat
    BY <1>1
  <2> QED BY <1>3, <2>1, <2>2 DEF Remaining
<1> QED BY <1>2, <1>3

\* A step to another stage, with a record or a call behind it or neither.
LEMMA StageFalls ==
    ASSUME TypeOK, case' = case, pc # "end",
           \/ /\ n' = n /\ line' = line
              /\ \/ pc \in {"script", "select", "write"} /\ pc' = "read"
                 \/ pc = "select" /\ pc' = "write"
           \/ /\ n' = n /\ line' = line + 1 /\ pc' = "script"
           \/ /\ n' = n + 1 /\ line' = line /\ pc = "read" /\ pc' = "select"
    PROVE  Remaining' < Remaining
<1>1. /\ n \in Nat /\ Len(case.trace) \in Nat
      /\ line \in Nat /\ Len(case.script) \in Nat
      /\ pc \in {"script", "read", "select", "write"}
  BY CaseFacts DEF TypeOK, LoopType
<1> DEFINE T == Len(case.trace)
           S == Len(case.script)
<1>2. /\ Remaining = 3 * (T - n) + 2 * (S + 1 - line) + Stage
      /\ pc' # "end" => Remaining' = 3 * (T - n') + 2 * (S + 1 - line') + Stage'
  BY DEF Remaining
<1>3. /\ Stage = IF pc = "read" THEN 1 ELSE IF pc = "select" THEN 3 ELSE 2
      /\ pc' \in {"script", "read", "select", "write"} =>
           Stage' = IF pc' = "read" THEN 1 ELSE IF pc' = "select" THEN 3 ELSE 2
  BY <1>1 DEF Stage
<1> HIDE DEF T, S
<1>4. T \in Nat /\ S \in Nat
  BY <1>1 DEF T, S
<1>5. CASE /\ n' = n /\ line' = line
           /\ \/ pc \in {"script", "select", "write"} /\ pc' = "read"
              \/ pc = "select" /\ pc' = "write"
  <2>1. /\ pc' # "end" /\ n' = n /\ line' = line
        /\ \/ Stage = 2 /\ Stage' = 1
           \/ Stage = 3 /\ Stage' = 1
           \/ Stage = 3 /\ Stage' = 2
    BY <1>3, <1>5
  <2> QED BY <1>1, <1>2, <1>4, <2>1
<1>6. CASE n' = n /\ line' = line + 1 /\ pc' = "script"
  <2>1. pc' # "end" /\ Stage \in {1, 2, 3} /\ Stage' = 2
    BY <1>3, <1>6
  <2> QED BY <1>1, <1>2, <1>4, <1>6, <2>1
<1>7. CASE n' = n + 1 /\ line' = line /\ pc = "read" /\ pc' = "select"
  <2>1. pc' # "end" /\ Stage = 1 /\ Stage' = 3
    BY <1>3, <1>7
  <2> QED BY <1>1, <1>2, <1>4, <1>7, <2>1
<1> QED BY <1>5, <1>6, <1>7

\* Every step of every program, whatever it copies and however the calls fail,
\* brings its end nearer: it cannot run for ever, so CopyCompletes needs only
\* that it runs on.
Nearer == Remaining' < Remaining

THEOREM ProgramsRunOut == Spec => [][Nearer]_vars
<1>1. TypeOK /\ [Next]_vars => [Nearer]_vars
  <2> SUFFICES ASSUME TypeOK, Next PROVE Nearer
    OBVIOUS
  <2>1. case' = case /\ Remaining \in Nat
    BY StepKinds, RemainingType
  <2>2. pc # "end"
    BY DEF Next, StartOutput, CloseOutput, Configure, Exit, Copy, Calling,
       Read, Select, SelectFirst, SelectIcmp, SelectArp, SelectIp,
       SelectInternet, WritePacket
  <2>3. CASE Ended
    <3>1. Remaining' = 0
      BY <2>3 DEF Ended, Remaining
    <3> QED BY <2>1, <2>2, <3>1, RemainingType DEF Nearer
  <2>4. CASE Aside \/ Finished
    <3>1. n' = n /\ line' = line + 1 /\ pc' = "script"
      BY <2>4 DEF Aside, Finished, NextCall, loop
    <3> QED BY <2>1, <2>2, <3>1, StageFalls DEF Nearer
  <2>5. CASE Began
    <3>1. n' = n /\ line' = line /\ pc = "script" /\ pc' = "read"
      BY <2>5 DEF Began, Copy, Calling, Goes, loop
    <3> QED BY <2>1, <2>2, <3>1, StageFalls DEF Nearer
  <2>6. CASE Got
    <3>1. n' = n + 1 /\ line' = line /\ pc = "read" /\ pc' = "select"
      BY <2>6 DEF Got, Goes
    <3> QED BY <2>1, <2>2, <3>1, StageFalls DEF Nearer
  <2>7. CASE Took \/ Skipped
    <3>1. \/ /\ n' = n /\ line' = line /\ pc = "select"
             /\ pc' = "read" \/ pc' = "write"
          \/ n' = n /\ line' = line + 1 /\ pc' = "script"
      BY <2>7 DEF Took, Skipped
    <3> QED BY <2>1, <2>2, <3>1, StageFalls DEF Nearer
  <2>8. CASE Wrote
    <3>1. \/ n' = n /\ line' = line /\ pc = "write" /\ pc' = "read"
          \/ n' = n /\ line' = line + 1 /\ pc' = "script"
      BY <2>8 DEF Wrote, Goes, NextCall, loop
    <3> QED BY <2>1, <2>2, <3>1, StageFalls DEF Nearer
  <2> QED BY <2>3, <2>4, <2>5, <2>6, <2>7, <2>8, StepKinds, ChoseKinds
<1> QED BY <1>1, TypeCorrect, PTL DEF Spec

=============================================================================
