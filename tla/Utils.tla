--------------------------------- MODULE Utils ---------------------------------
(***************************************************************************)
(* The integer helpers of osort/common/utils.hpp, on words of W bits (64   *)
(* in the code), and the conditional swap every oblivious algorithm is     *)
(* built from.  Arrays are functions on 0 .. n - 1, iterators are indices. *)
(***************************************************************************)
EXTENDS Integers, SequencesExt

CONSTANT W   \* bits in a word, a power of two

ASSUME WordAssumption == W \in {2, 4, 8, 16}

\* W/2, ..., 4, 2, 1: the shifts of the unrolled loops, largest first.
Shifts == SetToSortSeq({c \in 1 .. W \div 2 : \E b \in 0 .. 4 : c = 2^b}, >)

\* 0 .. n - 1 in order: for (i = 0; i < n; ++i)
Loop(n) == [i \in 1 .. n |-> i - 1]

\* The element of a set of one.  The({e : x \in {v}}) is e with v for x, v evaluated first:
\* TLC passes arguments unevaluated.
The(S) == CHOOSE r \in S : TRUE

\* The state a loop over seq reaches from a.  The rounds are halved again and again: a
\* recursion over all rounds of a long loop would be too deep for TLC.
Steps(Step(_, _), a, seq) ==
  LET RECURSIVE Rounds(_, _, _)
      Rounds(s, i, j) ==
        IF i = j THEN Step(s, seq[i])
        ELSE The({Rounds(t, (i + j) \div 2 + 1, j) : t \in {Rounds(s, i, (i + j) \div 2)}})
  IN IF seq = <<>> THEN a ELSE The({Rounds(s, 1, Len(seq)) : s \in {a}})

Word(n) == n % 2^W

\* Bit b of word n.
Bit(n, b) == (n \div 2^b) % 2 = 1

\* n | (n >> s)
Smear(n, s) ==
  MapThenSumSet(LAMBDA b : IF Bit(n, b) \/ Bit(n, b + s) THEN 2^b ELSE 0, 0 .. W - 1)

\* Wraps to 0 for n = 0, which is smeared from all ones.
GetNextPowerOfTwo(n) == Word(Steps(Smear, Word(n - 1), Reverse(Shifts)) + 1)

\* n & masks[i] is not 0: one of the bits c .. 2c - 1 is set.
HighHalf(n, c) == (n \div 2^c) % 2^c # 0

GetLogBaseTwo(n) ==
  Steps(LAMBDA s, c : IF HighHalf(s.n, c) THEN [n |-> s.n \div 2^c, r |-> s.r + c] ELSE s,
        [n |-> n, r |-> 0], Shifts).r

\* (x & (x - 1)) == 0
AtMostOneBit(x) == \A b, c \in 0 .. W - 1 : Bit(x, b) /\ Bit(x, c) => b = c

\* The same loop over the same masks, started at 1 unless x has at most one bit.
CeilLog2(x) == GetLogBaseTwo(x) + IF AtMostOneBit(x) THEN 0 ELSE 1

\* x/y round up; the sum wraps.
divRoundUp(x, y) == Word(x + y - 1) \div y

\* obliSwap reads both elements before it writes them.
condSwap(cond, a, i, j) == IF cond THEN [a EXCEPT ![i] = a[j], ![j] = a[i]] ELSE a
================================================================================
