-------------------------------- MODULE Waksman --------------------------------
(***************************************************************************)
(* The Waksman shuffle (algorithm/waks_on_off.hpp): offline, the control   *)
(* bits of a network that realises a random permutation; online, the       *)
(* network.  A circuit is a record of its layers of bits and its two       *)
(* subnetworks.  prp are the tags a pseudorandom permutation gives, any    *)
(* distinct numbers, and tape[d + 1] the draws of UniformRandom at depth d *)
(* of the recursion, taken modulo the range that is asked for.             *)
(***************************************************************************)
EXTENDS Bitonic, Compaction

NoCircuit == [in |-> <<>>, out |-> <<>>]

Part(a, begin, n) == [i \in 0 .. n - 1 |-> a[begin + i]]
Joined(a, k, b, n) == [i \in 0 .. n - 1 |-> IF i < k THEN a[i] ELSE b[i - k]]

\* A layer of switches: position i and position k + i.
Layer(a, bits, k, count) ==
  Steps(LAMBDA b, i : condSwap(bits[i], b, i, k + i), a, Loop(count))

\* x + OSelect(x < k, -k, k): the other end of the switch of x.
Associate(x, k) == IF x < k THEN x + k ELSE x - k

\* The pairs of the permutation, sorted by the tags of their first parts; an odd n is
\* filled up with a pair n -> n.
CreateForwardLookUp(P, n, d, prp) ==
  LET m == 2 * divRoundUp(n, 2)
      pairs == [i \in 0 .. m - 1 |->
                  [tag |-> prp[i], first |-> i, second |-> IF i < n THEN P[i] \div 2^d ELSE n]]
      all == {pairs[i] : i \in 0 .. m - 1}
  IN Sorted(pairs, m, [x, y \in all |-> x.tag < y.tag])

\* For every second part, the first part and the place in F.
CreateReverseLookUp(F) ==
  [y \in {F[i].second : i \in DOMAIN F} |->
     LET i == CHOOSE i \in DOMAIN F : F[i].second = y IN [first |-> F[i].first, l |-> i]]

\* U[l] counts the pairs not yet selected in the half that ends at l.
RECURSIVE CreateUnselectedCountsHelper(_, _, _)
CreateUnselectedCountsHelper(U, begin, n) ==
  LET k == divRoundUp(n, 2)
  IN IF n < 2 THEN U
     ELSE CreateUnselectedCountsHelper(
            CreateUnselectedCountsHelper([U EXCEPT ![begin + k - 1] = k], begin, k),
            begin + k, n - k)

CreateUnselectedCounts(n) ==
  CreateUnselectedCountsHelper([i \in 0 .. n - 1 |-> IF i = n - 1 THEN n ELSE 0], 0, n)

RECURSIVE DecUnselectedCounts(_, _, _, _)
DecUnselectedCounts(U, begin, n, l) ==
  LET k == divRoundUp(n, 2)
      dec == [U EXCEPT ![begin + n - 1] = @ - 1]
  IN IF l >= k THEN DecUnselectedCounts(U, begin + k, n - k, l - k)
     ELSE IF n > 1 THEN DecUnselectedCounts(dec, begin, k, l) ELSE dec

\* The loop of ForwardOrRand between i and j.
RECURSIVE BinarySearch(_, _, _, _, _, _, _)
BinarySearch(F, U, i, j, b, h, rho) ==
  LET l == (i + j) \div 2
  IN IF i = j THEN l
     ELSE IF (IF b THEN U[l] <= rho ELSE F[l].tag < h)
          THEN BinarySearch(F, U, l + 1, j, b, h, rho - U[l])
          ELSE BinarySearch(F, U, i, l, b, h, rho)

\* Mutant of ForwardOrRand: a cycle that is closed is followed once more.
FollowsClosedCycle(F, U, f, b, prp, draw) ==
  LET n == Cardinality(DOMAIN F)
  IN BinarySearch(F, U, 0, n - 1, FALSE, prp[f], draw % U[n - 1])

\* The place of the pair of f or, if b, of one not yet selected.
ForwardOrRand(F, U, f, b, prp, draw) ==
  LET n == Cardinality(DOMAIN F)
  IN BinarySearch(F, U, 0, n - 1, b, prp[f], draw % U[n - 1])

\* Follows the pair of s.f forward, and the pair of the associate of its end back.
BackAndForth(s, F, R, k, b, prp, draw) ==
  LET l == ForwardOrRand(F, s.U, s.f, b, prp, draw)
      back == R[Associate(F[l].second, k)]
      f == F[l].first
  IN [U |-> DecUnselectedCounts(DecUnselectedCounts(s.U, 0, 2 * k, l), 0, 2 * k, back.l),
      c |-> IF b THEN f ELSE s.c,
      f |-> Associate(back.first, k),
      bits |-> Append(s.bits, [tag |-> f % k, v |-> f >= k])]

\* The bits of the cycles, each pair followed in turn.
Followed(F, R, k, prp, draws) ==
  Steps(LAMBDA t, i : BackAndForth(t, F, R, k, i > 0 /\ t.f = t.c, prp, draws[i + 1]),
        [U |-> CreateUnselectedCounts(2 * k), f |-> k - 1, c |-> k - 1, bits |-> <<>>], Loop(k)).bits

\* The bits of the switches in the order of the switches.
InOrder(bits, m) ==
  The({[i \in 0 .. m - 1 |-> tagged[i].v] :
       tagged \in {Sorted(bits, m, [x, y \in {bits[i] : i \in DOMAIN bits} |-> x.tag < y.tag])}})

\* The switch of k - 1 is not there: its pair is followed first, without a bit.
InBits(P, n, d, prp, tape) ==
  LET k == divRoundUp(n, 2)
      Bits(bits) == InOrder([i \in 0 .. k - 2 |-> bits[i + 2]], k - 1)
  IN IF n <= 2 THEN [i \in 0 .. k - 2 |-> FALSE]
     ELSE The({Bits(Followed(F, CreateReverseLookUp(F), k, prp, tape[d + 1])) :
               F \in {CreateForwardLookUp(P, n, d, prp)}})

\* The reduction of P to a half: the bit that tells the half goes to the end of the value.
Reduced(P, n, k, d) ==
  [i \in 0 .. n - 1 |-> IF P[i] \div 2^d >= k THEN 2 * (P[i] - k * 2^d) + 1 ELSE 2 * P[i]]

Restored(P, n, k, d) ==
  [i \in 0 .. n - 1 |-> P[i] \div 2 + (IF P[i] % 2 = 1 THEN k * 2^d ELSE 0)]

\* The last layer of the circuit C puts every value of P into its half.
LastLayer(C, P, n, k, d) ==
  The({[circuit |-> C @@ [out |-> out], P |-> Restored(Layer(P, out, k, n - k), n, k, d)] :
       out \in {[i \in 0 .. n - k - 1 |-> P[i] % 2 = 1]}})

Subnetworks(in, top, bot, n, k, d) ==
  LastLayer([in |-> in, top |-> top.circuit, bot |-> bot.circuit], Joined(top.P, k, bot.P, n), n, k, d)

\* The circuit for P, whose values carry d bits of earlier reductions, and what P becomes.
RECURSIVE ControlBits(_, _, _, _, _)
ControlBits(P, n, d, prp, tape) ==
  LET k == divRoundUp(n, 2)
      First(in) == Reduced(IF n > 2 THEN Layer(P, in, k, k - 1) ELSE P, n, k, d)
      Rest(in, Q) ==
        IF n = 2 THEN LastLayer([in |-> in], Q, n, k, d)
        ELSE Subnetworks(in, ControlBits(Part(Q, 0, k), k, d + 1, prp, tape),
                         ControlBits(Part(Q, k, n - k), n - k, d + 1, prp, tape), n, k, d)
  IN IF n < 2 THEN [circuit |-> NoCircuit, P |-> P]
     ELSE The({Rest(in, First(in)) : in \in {InBits(P, n, d, prp, tape)}})

\* Asks for n > 0: the bound of the first loop is k - 1.
RECURSIVE WaksShuffleOnline(_, _, _)
WaksShuffleOnline(a, n, C) ==
  LET k == divRoundUp(n, 2)
      a1 == Layer(a, C.in, k, k - 1)
      a2 == IF n > 2 THEN Joined(WaksShuffleOnline(Part(a1, 0, k), k, C.top), k,
                                 WaksShuffleOnline(Part(a1, k, n - k), n - k, C.bot), n)
            ELSE a1
  IN Layer(a2, C.out, k, n - k)

\* Every result of the shuffle: the permutation is any that OrShuffle draws.
WaksOnOffShuffle(a, n, prp, tape) ==
  {WaksShuffleOnline(a, n, ControlBits(P, n, 0, prp, tape).circuit) :
     P \in OrShuffle([i \in 0 .. n - 1 |-> i], 0, n)}

\* A circuit of the same shape, all of whose switches are open.
RECURSIVE MockControlBits(_)
MockControlBits(n) ==
  LET k == divRoundUp(n, 2)
      layers == [in |-> [i \in 0 .. k - 2 |-> FALSE], out |-> [i \in 0 .. n - k - 1 |-> FALSE]]
  IN IF n < 2 THEN NoCircuit
     ELSE IF n = 2 THEN layers
     ELSE layers @@ [top |-> MockControlBits(k), bot |-> MockControlBits(n - k)]
================================================================================
