--------------------------- MODULE TraceReadProofs ---------------------------
(***************************************************************************)
(* Proofs of TraceRead's safety properties, for any length of a second, any *)
(* timeouts and any waits libtrace may ask for.                             *)
(***************************************************************************)
EXTENDS TraceRead, TLAPS

\* While the program is in the loop, time_now is at most one whole second,
\* less a tick, behind the moment the select began.
ClockOK ==
    /\ Reading => ret = "none"
    /\ pc = "event" => since < Second
    /\ pc = "select" => since < slept + Second

IInv == TypeOK /\ StartedMirrorsHandle /\ ClockOK /\ TimeoutNotEarly

-----------------------------------------------------------------------------

\* Whole seconds are not more than the ticks they hold.
LEMMA DivFacts ==
    ASSUME NEW n \in Nat, NEW s \in Nat \ {0}
    PROVE  /\ n \div s \in Nat /\ n % s \in 0 .. s - 1
           /\ \A t \in Nat : n \div s >= t => n >= t * s
  <1>1. n \div s \in Nat /\ n % s \in 0 .. s - 1
    BY SMT
  <1>2. ASSUME NEW t \in Nat, n \div s >= t
        PROVE  n >= t * s
    BY <1>2, SMTT(30)
  <1> QED
    BY <1>1, <1>2

\* A call that does not report a timeout, or a step that leaves the report
\* alone, keeps TimeoutNotEarly.
LEMMA NoTimeout == ret' # "timeout" => TimeoutNotEarly'
  BY DEF TimeoutNotEarly

LEMMA SameTimeout ==
    TimeoutNotEarly /\ UNCHANGED <<ret, slept, timeout>> => TimeoutNotEarly'
  BY Zenon DEF TimeoutNotEarly

LEMMA CapIsNat == TypeOK => Cap \in Nat
  BY TraceReadAssumption DEF TypeOK, Cap

\* No select is asked to wait longer than the timeout.
LEMMA LimitIsNat ==
    ASSUME TypeOK, NEW d \in Sleeps
    PROVE  SelectLimit(d) \in Nat /\ timeout * Second \in Nat
  <1>1. d \in Nat /\ Second \in Nat \ {0} /\ timeout \in Nat
    BY TraceReadAssumption DEF TypeOK
  <1>2. d \div Second \in Nat
    BY <1>1, DivFacts
  <1> QED
    BY <1>1, <1>2 DEF SelectLimit

LEMMA InitIInv == Init => IInv
  <1> SUFFICES ASSUME Init PROVE IInv
    OBVIOUS
  <1>1. TypeOK
    BY DEF Init, TypeOK
  <1>2. StartedMirrorsHandle /\ ClockOK /\ TimeoutNotEarly
    BY DEF Init, StartedMirrorsHandle, ClockOK, TimeoutNotEarly, Reading
  <1> QED
    BY <1>1, <1>2 DEF IInv

\* The calls between two reads leave the loop alone.
LEMMA ProgramKeeps == IInv /\ Program => IInv'
  <1> SUFFICES ASSUME IInv, Program PROVE TypeOK' /\ StartedMirrorsHandle'
                                          /\ ClockOK' /\ ret' # "timeout"
    BY NoTimeout DEF IInv
  <1> USE DEF IInv, TypeOK, StartedMirrorsHandle, ClockOK,
              Reading, Answer, Freed, trace, loop, world
  <1>1. CASE \E v \in Timeouts : ConfTimeout(v)
    BY <1>1, TraceReadAssumption DEF ConfTimeout, Call
  <1>2. CASE Start
    <2>1. /\ pc' = pc /\ pc = "program" /\ ret' # "timeout"
          /\ UNCHANGED <<loop, world, timeout>>
          /\ ret' \in {"ok", "raised", "freed"}
      BY <1>2 DEF Start, Call
    <2>2. handle' \in {handle, "running"}
      BY <1>2 DEF Start
    <2>3. started' \in BOOLEAN
      BY <1>2 DEF Start
    <2>4. handle' # "destroyed" => (started' <=> handle' = "running")
      BY <1>2 DEF Start
    <2> QED
      BY <2>1, <2>2, <2>3, <2>4
  <1>3. CASE Pause
    <2>1. /\ pc' = pc /\ pc = "program" /\ ret' # "timeout"
          /\ UNCHANGED <<loop, world, timeout>>
          /\ ret' \in {"ok", "raised", "freed"}
      BY <1>3 DEF Pause, Call
    <2>2. handle' \in {handle, "paused"}
      BY <1>3 DEF Pause
    <2>3. started' \in BOOLEAN
      BY <1>3 DEF Pause
    <2>4. handle' # "destroyed" => (started' <=> handle' = "running")
      BY <1>3 DEF Pause
    <2> QED
      BY <2>1, <2>2, <2>3, <2>4
  <1>4. CASE Close
    BY <1>4 DEF Close, Call
  <1>5. CASE ReadPacket
    BY <1>5, TraceReadAssumption DEF ReadPacket
  <1> QED
    BY <1>1, <1>2, <1>3, <1>4, <1>5 DEF Program

\* A packet, the end or an error ends the read without a timeout.
LEMMA ReadEnds ==
    ASSUME IInv, Reading, UNCHANGED loop, TakePacket \/ AtEnd \/ LibtraceFails
    PROVE  IInv'
  <1>1. /\ pc' = "program" /\ ret' \in {"packet", "raised", "eof"}
        /\ UNCHANGED trace
    BY DEF TakePacket, AtEnd, LibtraceFails, Return
  <1>2. waiting' \in Nat /\ UNCHANGED <<source, ended, noise>>
    BY DEF TakePacket, AtEnd, LibtraceFails, IInv, TypeOK, world
  <1>3. TypeOK'
    BY <1>1, <1>2 DEF IInv, TypeOK, trace, loop
  <1>4. StartedMirrorsHandle'
    BY <1>1 DEF IInv, StartedMirrorsHandle, trace, Reading
  <1>5. ClockOK'
    BY <1>1 DEF ClockOK, Reading
  <1> QED
    BY <1>1, <1>3, <1>4, <1>5, NoTimeout DEF IInv

LEMMA TraceEventKeeps == IInv /\ TraceEvent => IInv'
  <1> SUFFICES ASSUME IInv, TraceEvent PROVE IInv'
    OBVIOUS
  <1>1. CASE (TakePacket \/ AtEnd \/ LibtraceFails) /\ UNCHANGED loop
    BY <1>1, ReadEnds DEF TraceEvent, Reading
  <1>2. CASE /\ pc' = "select" /\ slept' = 0
             /\ limit' \in IF source = "fd" THEN {timeout * Second}
                           ELSE {SelectLimit(d) : d \in Sleeps}
             /\ noise' = FALSE
             /\ UNCHANGED <<trace, source, waiting, ended, since, ret>>
    <2>1. limit' \in Nat
      <3>1. timeout * Second \in Nat
        BY TraceReadAssumption DEF IInv, TypeOK
      <3> QED
        BY <1>2, <3>1, LimitIsNat DEF IInv
    <2>2. TypeOK'
      BY <1>2, <2>1 DEF IInv, TypeOK, trace
    <2>3. StartedMirrorsHandle' /\ ClockOK' /\ ret' # "timeout"
      BY <1>2, TraceReadAssumption
      DEF TraceEvent, IInv, TypeOK, StartedMirrorsHandle, ClockOK, Reading,
          trace
    <2> QED
      BY <2>2, <2>3, NoTimeout DEF IInv
  <1> QED
    BY <1>1, <1>2 DEF TraceEvent

\* The exit test holds only if the select lasted long enough.
LEMMA SelectKeeps == IInv /\ SelectReturns => IInv'
  <1> SUFFICES ASSUME IInv, SelectReturns PROVE IInv'
    OBVIOUS
  <1>1. /\ since \in Nat /\ slept \in Nat /\ timeout \in Nat
        /\ Second \in Nat \ {0} /\ pc = "select" /\ since < slept + Second
    BY TraceReadAssumption DEF IInv, TypeOK, ClockOK, SelectReturns
  <1>2. CASE Expired /\ Return("timeout") /\ UNCHANGED since
    <2>1. since >= timeout * Second
      BY <1>1, <1>2, DivFacts DEF Expired
    <2>2. (timeout - 1) * Second = timeout * Second - Second
      BY <1>1
    <2>3. slept > (timeout - 1) * Second
      <3> DEFINE product == timeout * Second
      <3>1. product \in Nat
        BY <1>1
      <3> HIDE DEF product
      <3>2. since >= product /\ (timeout - 1) * Second = product - Second
        BY <2>1, <2>2 DEF product
      <3> QED
        BY <1>1, <3>1, <3>2
    <2> QED
      BY <1>1, <1>2, <2>3
      DEF SelectReturns, Return, IInv, TypeOK, StartedMirrorsHandle, ClockOK,
          TimeoutNotEarly, Reading, trace, world
  <1>3. CASE /\ ~Expired /\ pc' = "event" /\ since' = since % Second
             /\ UNCHANGED <<trace, ret>>
    <2>1. since % Second \in 0 .. Second - 1
      BY <1>1, DivFacts
    <2> QED
      BY <1>1, <1>3, <2>1
      DEF SelectReturns, IInv, TypeOK, StartedMirrorsHandle, ClockOK,
          TimeoutNotEarly, Reading, trace, world
  <1> QED
    BY <1>2, <1>3 DEF SelectReturns

LEMMA WorldKeeps == IInv /\ (Tick \/ Arrive \/ End \/ Noise) => IInv'
  <1> SUFFICES ASSUME IInv, Tick \/ Arrive \/ End \/ Noise PROVE IInv'
    OBVIOUS
  <1>1. CASE Tick
    <2>1. /\ since \in Nat /\ slept \in Nat /\ Second \in Nat \ {0}
          /\ Cap \in Nat /\ since < slept + Second /\ ret = "none"
      BY <1>1, TraceReadAssumption, CapIsNat
      DEF IInv, TypeOK, ClockOK, Tick, Reading
    <2>2. since' \in Nat /\ slept' \in Nat /\ since' < slept' + Second
      BY <1>1, <2>1 DEF Tick, Plus1
    <2> QED
      BY <1>1, <2>1, <2>2
      DEF Tick, Idle, IInv, TypeOK, StartedMirrorsHandle, ClockOK,
          TimeoutNotEarly, Reading, trace, world
  <1>2. CASE Arrive \/ End \/ Noise
    <2>1. UNCHANGED <<trace, loop, pc, ret, source>>
      BY <1>2 DEF Arrive, End, Noise, Idle
    <2>2. waiting' \in Nat
      BY <1>2 DEF Arrive, End, Noise, IInv, TypeOK
    <2>3. ended' \in BOOLEAN /\ noise' \in BOOLEAN
      BY <1>2 DEF Arrive, End, Noise, IInv, TypeOK
    <2>4. TypeOK'
      BY <2>1, <2>2, <2>3 DEF IInv, TypeOK, trace, loop
    <2>5. StartedMirrorsHandle' /\ ClockOK'
      BY <2>1 DEF IInv, StartedMirrorsHandle, ClockOK, Reading, trace, loop
    <2> QED
      BY <2>1, <2>4, <2>5, SameTimeout DEF IInv, trace, loop
  <1> QED
    BY <1>1, <1>2

LEMMA NextKeeps == IInv /\ [Next]_vars => IInv'
  <1> SUFFICES ASSUME IInv, [Next]_vars PROVE IInv'
    OBVIOUS
  <1>1. CASE Program
    BY <1>1, ProgramKeeps
  <1>2. CASE BlockingRead
    BY <1>2, ReadEnds DEF BlockingRead, Reading
  <1>3. CASE TraceEvent
    BY <1>3, TraceEventKeeps
  <1>4. CASE SelectReturns
    BY <1>4, SelectKeeps
  <1>5. CASE Tick \/ Arrive \/ End \/ Noise
    BY <1>5, WorldKeeps
  <1>6. CASE UNCHANGED vars
    BY <1>6
    DEF vars, trace, loop, world, IInv, TypeOK, StartedMirrorsHandle, ClockOK,
        TimeoutNotEarly, Reading
  <1> QED
    BY <1>1, <1>2, <1>3, <1>4, <1>5, <1>6 DEF Next

-----------------------------------------------------------------------------

\* The inductive invariant holds in every reachable state.
THEOREM Invariance == Spec => []IInv
  BY InitIInv, NextKeeps, PTL DEF Spec

\* A trace's flags and counters are well typed (TypeOK) in every state.
THEOREM TypeCorrect == Spec => []TypeOK
  <1>1. IInv => TypeOK
    BY DEF IInv
  <1> QED
    BY <1>1, Invariance, PTL

\* _trace.started tells the state of the libtrace handle until close.
THEOREM StartedIsRight == Spec => []StartedMirrorsHandle
  <1>1. IInv => StartedMirrorsHandle
    BY DEF IInv
  <1> QED
    BY <1>1, Invariance, PTL

\* event_read_packet never reports a timeout more than a second early.
THEOREM TimeoutIsNotEarly == Spec => []TimeoutNotEarly
  <1>1. IInv => TimeoutNotEarly
    BY DEF IInv
  <1> QED
    BY <1>1, Invariance, PTL

-----------------------------------------------------------------------------
(* The end of a select *)

\* A select never waits for more than the timeout, and on a descriptor for just
\* that; the clock of the loop is not behind it.
SelectOK ==
    pc = "select" =>
        /\ slept <= since /\ limit <= timeout * Second
        /\ source = "fd" => limit = timeout * Second

LEMMA ProductIsNat == TypeOK => timeout * Second \in Nat /\ timeout * Second < Cap
<1> SUFFICES ASSUME TypeOK
             PROVE  timeout * Second \in Nat /\ timeout * Second < Cap
  OBVIOUS
<1>1. timeout \in Nat /\ Second \in Nat /\ Second > 0
  BY TraceReadAssumption DEF TypeOK
<1>2. (timeout + 1) * Second = timeout * Second + Second /\ timeout * Second \in Nat
  BY <1>1
<1> DEFINE product == timeout * Second
<1> HIDE DEF product
<1>3. Cap = product + Second /\ product \in Nat
  BY <1>2 DEF Cap, product
<1> QED BY <1>1, <1>3 DEF product

\* Whole seconds of a wait that is shorter than the timeout.
LEMMA LimitIsShort ==
    ASSUME TypeOK, NEW d \in Sleeps
    PROVE  SelectLimit(d) <= timeout * Second
<1>1. d \in Nat /\ Second \in Nat \ {0} /\ timeout * Second \in Nat
  BY TraceReadAssumption, ProductIsNat
<1>2. d \div Second \in Nat /\ d >= (d \div Second) * Second
  BY <1>1, DivFacts
<1> DEFINE product == timeout * Second
           whole == (d \div Second) * Second
<1>3. whole \in Int /\ product \in Nat /\ d >= whole
  BY <1>1, <1>2
<1>4. SelectLimit(d) = IF d < product THEN whole ELSE product
  BY DEF SelectLimit
<1> HIDE DEF product, whole
<1>5. SelectLimit(d) <= product
  BY <1>1, <1>3, <1>4
<1> QED BY <1>5 DEF product

\* SelectOK is kept by every step.
LEMMA SelectOKKept == IInv /\ SelectOK /\ [Next]_vars => SelectOK'
<1> SUFFICES ASSUME IInv, SelectOK, [Next]_vars, pc' = "select"
             PROVE  /\ slept' <= since' /\ limit' <= timeout' * Second
                    /\ source' = "fd" => limit' = timeout' * Second
  BY DEF SelectOK
<1>1. CASE UNCHANGED <<timeout, source, limit, slept, since, pc>>
  BY <1>1 DEF SelectOK
<1>2. CASE TraceEvent
  <2>1. /\ slept' = 0 /\ since' = since /\ timeout' = timeout /\ source' = source
        /\ limit' \in IF source = "fd" THEN {timeout * Second}
                      ELSE {SelectLimit(d) : d \in Sleeps}
    BY <1>2 DEF TraceEvent, TakePacket, AtEnd, LibtraceFails, Return, trace
  <2>2. since \in Nat /\ TypeOK
    BY DEF IInv, TypeOK
  <2>3. CASE source = "fd"
    BY <2>1, <2>2, <2>3, ProductIsNat
  <2>4. CASE source # "fd"
    BY <2>1, <2>2, <2>4, LimitIsShort
  <2> QED BY <2>3, <2>4
<1>3. CASE Tick
  <2>1. /\ pc = "select" /\ UNCHANGED <<timeout, source, limit>>
        /\ since' = Plus1(since) /\ slept' = Plus1(slept)
    BY <1>3 DEF Tick, Idle, trace, world
  <2>2. since \in Nat /\ slept \in Nat /\ Cap \in Nat
    BY CapIsNat DEF IInv, TypeOK
  <2>3. slept' <= since'
    BY <2>1, <2>2 DEF SelectOK, Plus1
  <2> QED BY <2>1, <2>3 DEF SelectOK
<1>4. CASE Arrive \/ End \/ Noise \/ UNCHANGED vars
  BY <1>1, <1>4 DEF Arrive, End, Noise, Idle, loop, trace, world, vars
<1>5. CASE Program \/ BlockingRead \/ SelectReturns
  <2>1. CASE Program
    BY <2>1 DEF Program, ConfTimeout, Start, Pause, Close, ReadPacket, Call, Reading
  <2>2. CASE BlockingRead \/ SelectReturns
    BY <2>2
    DEF BlockingRead, SelectReturns, TakePacket, AtEnd, LibtraceFails, Return
  <2> QED BY <1>5, <2>1, <2>2
<1> QED BY <1>2, <1>3, <1>4, <1>5 DEF Next

LEMMA AlwaysSelectOK == Spec => []SelectOK
<1>1. Init => SelectOK
  BY DEF Init, SelectOK
<1> QED BY <1>1, SelectOKKept, Invariance, PTL DEF Spec

\* Every tick brings a select that was not woken nearer to its end, whatever
\* libtrace asked for: the bound of the counters is not in its way.  With time
\* going on, that is why no select lasts for ever (PacketEndsRead).
CountsDown ==
    Tick /\ ~Woken => limit - slept' < limit - slept /\ slept' <= limit'

THEOREM SelectsRunOut == Spec => [][CountsDown]_vars
<1>1. IInv /\ SelectOK /\ [Next]_vars => [CountsDown]_vars
  <2> SUFFICES ASSUME IInv, SelectOK, Tick, ~Woken
               PROVE  limit - slept' < limit - slept /\ slept' <= limit'
    BY DEF CountsDown
  <2>1. /\ pc = "select" /\ slept' = Plus1(slept) /\ limit' = limit
        /\ ~(slept >= limit)
    BY DEF Tick, Woken
  <2>2. /\ slept \in Nat /\ limit \in Nat /\ Cap \in Nat
        /\ timeout * Second \in Nat /\ timeout * Second < Cap
    BY CapIsNat, ProductIsNat DEF IInv, TypeOK
  <2>3. limit <= timeout * Second
    BY <2>1 DEF SelectOK
  <2>4. slept < Cap
    BY <2>1, <2>2, <2>3
  <2>5. slept' = slept + 1
    BY <2>1, <2>4 DEF Plus1
  <2> QED BY <2>1, <2>2, <2>5
<1> QED BY <1>1, Invariance, AlwaysSelectOK, PTL DEF Spec

\* On a descriptor where nothing happened, the first select to return ends the
\* read with a timeout: the loop's exit test, by whole seconds, never sends it
\* into another turn (QuietReadEnds).
QuietSelectEnds ==
    SelectReturns /\ source = "fd" /\ waiting = 0 /\ ~ended /\ ~noise
        => ret' = "timeout" /\ ~Reading'

THEOREM QuietSelectTimesOut == Spec => [][QuietSelectEnds]_vars
<1>1. IInv /\ SelectOK /\ [Next]_vars => [QuietSelectEnds]_vars
  <2> SUFFICES ASSUME IInv, SelectOK, SelectReturns, source = "fd", waiting = 0,
                      ~ended, ~noise
               PROVE  ret' = "timeout" /\ ~Reading'
    BY DEF QuietSelectEnds
  <2>1. pc = "select" /\ slept >= limit
    BY DEF SelectReturns, Woken
  <2>2. /\ slept \in Nat /\ since \in Nat /\ timeout \in Nat
        /\ Second \in Nat \ {0} /\ timeout * Second \in Nat
    BY TraceReadAssumption, ProductIsNat DEF IInv, TypeOK
  <2>3. limit = timeout * Second /\ slept <= since
    BY <2>1 DEF SelectOK
  <2>4. since >= timeout * Second
    BY <2>1, <2>2, <2>3
  <2>5. Expired
    <3>1. since \div Second >= timeout
      BY <2>2, <2>4, SMTT(60)
    <3> QED BY <3>1 DEF Expired
  <2> QED BY <2>5 DEF SelectReturns, Return, Reading
<1> QED BY <1>1, Invariance, AlwaysSelectOK, PTL DEF Spec

=============================================================================
