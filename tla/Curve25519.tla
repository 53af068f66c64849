------------------------------- MODULE Curve25519 ------------------------------
(***************************************************************************)
(* curve25519-donna-c64.c, vendored beside the enclave code.  Two layers:  *)
(* the arithmetic on five limbs of L bits modulo 2^(5L) - Excess (51 and   *)
(* 19 in the code), and the ladder and the key agreement over a field of   *)
(* the prime order Order, where a field operation is what the limb         *)
(* operation is checked to compute.  Limbs are unbounded: their widths in  *)
(* the code (64 and 128 bits) are not modelled.                            *)
(***************************************************************************)
EXTENDS Utils, Bitwise

CONSTANTS
  L,         \* bits of a limb
  Excess,    \* 2^(5L) - Excess is the modulus of the limb arithmetic
  Order,     \* the prime of the field of the ladder
  NBits      \* bits of a scalar: 256

low(x) == x % 2^L
high(x) == x \div 2^L

fsum(output, in) == [i \in 1 .. 5 |-> output[i] + in[i]]

(* output = in - output, kept positive by eight times the modulus.         *)
fdifference_backwards(out, in) ==
  [i \in 1 .. 5 |-> in[i] + 8 * (2^L - IF i = 1 THEN Excess ELSE 1) - out[i]]

(* Carry from each limb into the next one; the carry out of the last.      *)
Carried(t) ==
  LET c[i \in 0 .. 5] == IF i = 0 THEN 0 ELSE high(t[i] + c[i - 1])
  IN  [limbs |-> [i \in 1 .. 5 |-> low(t[i] + c[i - 1])], out |-> c[5]]

fscalar_product(in, scalar) ==
  LET r == Carried([i \in 1 .. 5 |-> in[i] * scalar])
  IN  [r.limbs EXCEPT ![1] = @ + r.out * Excess]

(* The carry chain at the end of fmul and of every squaring: once around,  *)
(* and two limbs further.                                                  *)
CarryChain(t) ==
  LET r  == Carried(t)
      r0 == r.limbs[1] + r.out * Excess
      r1 == r.limbs[2] + high(r0)
  IN  <<low(r0), low(r1), r.limbs[3] + high(r1), r.limbs[4], r.limbs[5]>>

fmul(s, r) ==
  CarryChain(<<
    r[1] * s[1] + Excess * (r[5] * s[2] + r[2] * s[5] + r[3] * s[4] + r[4] * s[3]),
    r[1] * s[2] + r[2] * s[1] + Excess * (r[5] * s[3] + r[3] * s[5] + r[4] * s[4]),
    r[1] * s[3] + r[3] * s[1] + r[2] * s[2] + Excess * (r[5] * s[4] + r[4] * s[5]),
    r[1] * s[4] + r[4] * s[1] + r[2] * s[3] + r[3] * s[2] + Excess * (r[5] * s[5]),
    r[1] * s[5] + r[5] * s[1] + r[4] * s[2] + r[2] * s[4] + r[3] * s[3]>>)

SquareOnce(r) ==
  LET d0   == r[1] * 2
      d1   == r[2] * 2
      d2   == r[3] * 2 * Excess
      d419 == r[5] * Excess
      d4   == d419 * 2
  IN  CarryChain(<<r[1] * r[1] + d4 * r[2] + d2 * r[4],
                   d0 * r[2] + d4 * r[3] + r[4] * (r[4] * Excess),
                   d0 * r[3] + r[2] * r[2] + d4 * r[4],
                   d0 * r[4] + d1 * r[3] + r[5] * d419,
                   d0 * r[5] + d1 * r[4] + r[3] * r[3]>>)

(* do ... while: once for a count of one.                                  *)
fsquare_times(in, count) == Steps(LAMBDA r, i : SquareOnce(r), in, Loop(count))

(* Bits i * L .. of a number of 256 bits, the top one left out; the byte   *)
(* offsets and shifts of the code are these bit offsets.                   *)
fexpand(in) == [i \in 1 .. 5 |-> low(in \div 2^(L * (i - 1)))]

(* Carry all the way round, the top carry into the lowest limb.            *)
Around(t) ==
  LET r == Carried(t) IN [r.limbs EXCEPT ![1] = @ + Excess * r.out]

(* The limbs end up packed into 255 bits.                                  *)
fcontract(input) ==
  LET t1 == Around(Around(input))
      t2 == Around([t1 EXCEPT ![1] = @ + Excess])
      t3 == [i \in 1 .. 5 |-> t2[i] + 2^L - IF i = 1 THEN Excess ELSE 1]
      t  == Carried(t3).limbs
  IN  t[1] + t[2] * 2^L + t[3] * 2^(2 * L) + t[4] * 2^(3 * L) + t[5] * 2^(4 * L)

(* The mask keeps or exchanges every limb.                                 *)
swap_conditional(a, b, iswap) ==
  LET x == [i \in 1 .. 5 |-> IF iswap = 1 THEN a[i] ^^ b[i] ELSE 0]
  IN  <<[i \in 1 .. 5 |-> a[i] ^^ x[i]], [i \in 1 .. 5 |-> b[i] ^^ x[i]]>>
--------------------------------------------------------------------------------
(* The field layer.  A point is known by X and Z of its x = X / Z.         *)
Add(a, b) == (a + b) % Order
Sub(a, b) == (a - b) % Order
Mul(a, b) == (a * b) % Order
a24 == 121665 % Order

(* 2Q and Q + Q' from Q, Q' and the x coordinate of Q - Q'.                *)
fmonty(Q, Qp, qmqp) ==
  LET x  == Add(Q.x, Q.z)        z  == Sub(Q.x, Q.z)
      xp == Add(Qp.x, Qp.z)      zp == Sub(Qp.x, Qp.z)
      xxp == Mul(xp, z)          zzp == Mul(x, zp)
      sum == Add(xxp, zzp)       dif == Sub(xxp, zzp)
      xx == Mul(x, x)            zz == Mul(z, z)
      d  == Sub(xx, zz)
  IN  [twice |-> [x |-> Mul(xx, zz), z |-> Mul(d, Add(Mul(d, a24), xx))],
       sum   |-> [x |-> Mul(sum, sum), z |-> Mul(Mul(dif, dif), qmqp)]]

(* A ladder that does not swap back.                                       *)
SwapsOnce(s, q, bit) ==
  LET r == fmonty(IF bit = 1 THEN s.nqpq ELSE s.nq, IF bit = 1 THEN s.nq ELSE s.nqpq, q)
  IN  [nq |-> r.twice, nqpq |-> r.sum]

(* The scalar n is read from its top bit; swapping before and after.       *)
LadderStep(s, q, bit) ==
  LET r == fmonty(IF bit = 1 THEN s.nqpq ELSE s.nq, IF bit = 1 THEN s.nq ELSE s.nqpq, q)
  IN  IF bit = 1 THEN [nq |-> r.sum, nqpq |-> r.twice] ELSE [nq |-> r.twice, nqpq |-> r.sum]

cmult(n, q) ==
  Steps(LAMBDA s, i : LadderStep(s, q, (n \div 2^(NBits - 1 - i)) % 2),
        [nq |-> [x |-> 1, z |-> 0], nqpq |-> [x |-> q, z |-> 1]], Loop(NBits)).nq

(* The exponents of z along crecip, as sets of bits: fsquare_times shifts  *)
(* them and fmul adds them.                                                *)
S(e, n) == {b + n : b \in e}
RECURSIVE M(_, _)
M(e, f) == IF f = {} THEN e ELSE The({M(g[1], g[2]) : g \in {<<SymDiff(e, f), S(e \cap f, 1)>>}})

crecip(z) ==
  LET a2   == S(z, 1)
      b9   == M(S(a2, 2), z)
      a    == M(b9, a2)
      b5   == M(S(a, 1), b9)
      b10  == M(S(b5, 5), b5)
      c20  == M(S(b10, 10), b10)
      t40  == M(S(c20, 20), c20)
      b50  == M(S(t40, 10), b10)
      c100 == M(S(b50, 50), b50)
      t200 == M(S(c100, 100), c100)
      t250 == M(S(t200, 50), b50)
  IN  M(S(t250, 5), a)

(* The inverse it stands for, by Fermat's theorem; 0 for 0.                *)
Inverse25519(z) == IF z = 0 THEN 0 ELSE CHOOSE w \in 1 .. Order - 1 : Mul(z, w) = 1

Clamp(e) == LET r == e - (e % 8) IN (r % 2^(NBits - 2)) + 2^(NBits - 2)

curve25519_donna(secret, basepoint) ==
  LET r == cmult(Clamp(secret), basepoint) IN Mul(r.x, Inverse25519(r.z))
================================================================================
