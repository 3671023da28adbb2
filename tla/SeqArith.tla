------------------------------- MODULE SeqArith -------------------------------
(***************************************************************************)
(* natkit's arithmetic on TCP sequence numbers, used as a program does that *)
(* follows two of them: it adds to either, takes away, and asks which comes *)
(* first.  uint32_t is 0 .. 2 * Half - 1 and int32_t is -Half .. Half - 1.  *)
(***************************************************************************)
EXTENDS Integers

CONSTANTS
    Half,     \* half the range of a sequence number
    Steps     \* what a program adds or takes away

Range == 2 * Half
U32 == 0 .. Range - 1
I32 == -Half .. Half - 1

ASSUME SeqArithAssumption ==
    /\ Half \in Nat \ {0}
    /\ Steps \subseteq U32

VARIABLES
    a, b,     \* two sequence numbers
    apart,    \* how far b really is ahead of a, both counted without a range
    asked     \* the last comparison and its answer

seqVars == <<a, b, apart, asked>>

Fns == {"seq_lt", "seq_ge", "seq_gt"}

-----------------------------------------------------------------------------

\* Mutant: the sum is not brought back into the range.
SeqAddWide(u, v) == u + v

\* A sum and a difference modulo the range.
SeqAdd(u, v) == IF u + v >= Range THEN u + v - Range ELSE u + v
SeqSub(u, v) == IF u < v THEN u - v + Range ELSE u - v

AsI32(u) == IF u < Half THEN u ELSE u - Range

\* Mutant: the numbers are compared as they are, unsigned.
DifferencesUnsigned(u, v) == {u - v}

\* i1 - i2 as int32_t: when it overflows, which has no defined result, a build
\* wraps it or, comparing i1 with i2 at once, gets the sign of the true
\* difference.
Differences(u, v) ==
    LET d == AsI32(u) - AsI32(v)
    IN {d, IF d < -Half THEN d + Range ELSE IF d >= Half THEN d - Range ELSE d}

Says(fn, d) ==
    CASE fn = "seq_lt" -> d < 0
      [] fn = "seq_ge" -> d >= 0
      [] fn = "seq_gt" -> d > 0

Unasked == [fn |-> "none", yes |-> FALSE]

-----------------------------------------------------------------------------

SeqInit ==
    /\ a \in U32 /\ b = a /\ apart = 0
    /\ asked = Unasked

\* The program moves b or a by n, never further apart than the range.
MoveB(n) ==
    /\ \/ b' = SeqAdd(b, n) /\ apart' = apart + n
       \/ b' = SeqSub(b, n) /\ apart' = apart - n
    /\ a' = a

MoveA(n) ==
    /\ \/ a' = SeqAdd(a, n) /\ apart' = apart - n
       \/ a' = SeqSub(a, n) /\ apart' = apart + n
    /\ b' = b

Move(n) ==
    /\ MoveA(n) \/ MoveB(n)
    /\ -Range < apart' /\ apart' < Range
    /\ asked' = Unasked

Compare(fn) ==
    /\ \E d \in Differences(a, b) : asked' = [fn |-> fn, yes |-> Says(fn, d)]
    /\ UNCHANGED <<a, b, apart>>

SeqNext == (\E n \in Steps : Move(n)) \/ (\E fn \in Fns : Compare(fn))

SeqSpec == SeqInit /\ [][SeqNext]_seqVars

-----------------------------------------------------------------------------
(* Properties *)

\* However often the numbers wrapped, they are in the range, and their
\* difference is the true one but for the range.
SeqTypeOK ==
    /\ a \in U32 /\ b \in U32
    /\ apart \in -Range + 1 .. Range - 1
    /\ b - a - apart \in {-Range, 0, Range}
    /\ asked \in [fn : Fns \cup {"none"}, yes : BOOLEAN]

\* The subtraction overflows for some numbers of which one is in the upper half
\* of the range and the other is not: among them the two on either side of its
\* middle, which are next to each other.
Overflows == AsI32(a) - AsI32(b) \notin I32

\* The order of two numbers is found in spite of wrapping as long as they are
\* no more than half the range apart (exactly half only for the later one),
\* and the subtraction does not overflow.
OrderAgrees ==
    /\ -Half < apart /\ apart <= Half
    /\ ~Overflows
    /\ asked.fn # "none"
    => asked.yes = Says(asked.fn, -apart)

=============================================================================
