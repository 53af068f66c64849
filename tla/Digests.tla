-------------------------------- MODULE Digests --------------------------------
(***************************************************************************)
(* The inline helpers of the vendored BearSSL (bearssl/inner.h), its hash  *)
(* functions and what is built on them: hash/sha1.c, hash/sha2small.c,     *)
(* mac/hmac.c and rand/hmac_drbg.c.  A byte has ByteBits bits (8 in the    *)
(* code) and a word four bytes.  The code is modelled with its own block   *)
(* size of 64 bytes and its own number of rounds: constants are reduced to *)
(* the narrower word, and rotations turn by their distance modulo its      *)
(* width.  The portable branches of the encodings are modelled.            *)
(*                                                                         *)
(* Bytes in memory are sequences, a buffer is addressed by an offset; the  *)
(* buffers of the hash functions are functions on 0 .. n - 1.              *)
(***************************************************************************)
EXTENDS Utils

CONSTANT ByteBits

WordBits == 4 * ByteBits
u32(x) == x % 2^WordBits
Neg(x) == u32(-x)
Flip(x) == 2^WordBits - 1 - x
(* Bitwise operations, tabulated for two bits.                             *)
RECURSIVE xor(_, _)
xor(x, y) ==
  << <<0, 1, 2, 3>>, <<1, 0, 3, 2>>, <<2, 3, 0, 1>>, <<3, 2, 1, 0>> >>[1 + (x % 4)][1 + (y % 4)]
    + IF x < 4 /\ y < 4 THEN 0 ELSE 4 * xor(x \div 4, y \div 4)
RECURSIVE and(_, _)
and(x, y) ==
  << <<0, 0, 0, 0>>, <<0, 1, 0, 1>>, <<0, 0, 2, 2>>, <<0, 1, 2, 3>> >>[1 + (x % 4)][1 + (y % 4)]
    + IF x < 4 \/ y < 4 THEN 0 ELSE 4 * and(x \div 4, y \div 4)
or(x, y) == x + y - and(x, y)
Words == 0 .. 2^WordBits - 1

HighBit(x) == x \div 2^(WordBits - 1)
(* The int32_t with the bits of the word x.                                *)
Signed(x) == IF HighBit(x) = 1 THEN x - 2^WordBits ELSE x
--------------------------------------------------------------------------------
NOT(ctl) == xor(ctl, 1)

MUX(ctl, x, y) == xor(y, and(Neg(ctl), xor(x, y)))

NEQ(x, y) == LET q == xor(x, y) IN HighBit(or(q, Neg(q)))

EQ(x, y) == LET q == xor(x, y) IN NOT(HighBit(or(q, Neg(q))))

(* A comparison that takes the high bit of y - x forgets the case where    *)
(* one operand is at least 2^31.                                           *)
GTBySign(x, y) == HighBit(u32(y - x))

GT(x, y) == LET z == u32(y - x) IN HighBit(xor(z, and(xor(x, y), xor(x, z))))

GE(x, y) == NOT(GT(y, x))

LT(x, y) == GT(y, x)

LE(x, y) == NOT(GT(x, y))

CMP(x, y) == Signed(or(GT(x, y), Neg(GT(y, x))))

EQ0(x) == LET q == u32(x) IN HighBit(Flip(or(q, Neg(q))))

GT0(x) == LET q == u32(x) IN HighBit(and(Flip(q), Neg(q)))

GE0(x) == HighBit(Flip(u32(x)))

LT0(x) == HighBit(u32(x))

LE0(x) == LET q == u32(x) IN HighBit(or(q, Flip(Neg(q))))

MIN(x, y) == MUX(GT(x, y), y, x)

MAX(x, y) == MUX(GT(x, y), x, y)

(* The halvings by 16, 8, 4, 2 and 1 of the code: s is the current shift.  *)
RECURSIVE Halve(_, _, _)
Halve(x, k, s) ==
  LET c == GT(x, 2^s - 1)
  IN  IF s = 1 THEN k + c
      ELSE Halve(MUX(c, x \div 2^s, x), k + c * s, s \div 2)

BIT_LENGTH(x) == Halve(x, NEQ(x, 0), WordBits \div 2)
--------------------------------------------------------------------------------
(* Byte i of x, counted from the least significant one.                    *)
Byte(x, i) == (x \div 2^(ByteBits * i)) % 2^ByteBits

br_enc16le(x) == <<Byte(x, 0), Byte(x, 1)>>

br_enc16be(x) == <<Byte(x, 1), Byte(x, 0)>>

br_dec16le(buf) == buf[1] + buf[2] * 2^ByteBits

br_dec16be(buf) == buf[1] * 2^ByteBits + buf[2]

br_enc32le(x) == <<Byte(x, 0), Byte(x, 1), Byte(x, 2), Byte(x, 3)>>

br_enc32be(x) == <<Byte(x, 3), Byte(x, 2), Byte(x, 1), Byte(x, 0)>>

br_dec32le(buf) ==
  buf[1] + buf[2] * 2^ByteBits + buf[3] * 2^(2 * ByteBits) + buf[4] * 2^(3 * ByteBits)

br_dec32be(buf) ==
  buf[1] * 2^(3 * ByteBits) + buf[2] * 2^(2 * ByteBits) + buf[3] * 2^ByteBits + buf[4]

br_enc64le(x) == br_enc32le(u32(x)) \o br_enc32le(x \div 2^WordBits)

br_enc64be(x) == br_enc32be(x \div 2^WordBits) \o br_enc32be(u32(x))

br_dec64le(buf) ==
  br_dec32le(buf) + br_dec32le(SubSeq(buf, 5, 8)) * 2^WordBits

br_dec64be(buf) ==
  br_dec32be(buf) * 2^WordBits + br_dec32be(SubSeq(buf, 5, 8))

br_swap32(x) ==
  LET mask == 2^ByteBits - 1 + (2^ByteBits - 1) * 2^(2 * ByteBits)
      s    == or(u32(and(x, mask) * 2^ByteBits), and(x \div 2^ByteBits, mask))
      half == 2^(2 * ByteBits)
  IN  or(u32(s * half), s \div half)

br_range_enc32be(v) ==
  [i \in 1 .. 4 * Len(v) |-> br_enc32be(v[(i - 1) \div 4 + 1])[1 + ((i - 1) % 4)]]

br_range_dec32be(num, src) ==
  [i \in 1 .. num |-> br_dec32be(SubSeq(src, 4 * i - 3, 4 * i))]
--------------------------------------------------------------------------------
(* Hash functions *)

Turned(x, d) == u32(x * 2^d) + (x \div 2^(WordBits - d))

ROTL(x, n) == Turned(x, n % WordBits)

ROTR(x, n) == Turned(x, WordBits - (n % WordBits))
--------------------------------------------------------------------------------
CH(X, Y, Z) == xor(and(xor(Y, Z), X), Z)

MAJ(X, Y, Z) == or(and(Y, Z), and(or(Y, Z), X))

BSG2_0(x) == xor(ROTR(x, 2), xor(ROTR(x, 13), ROTR(x, 22)))
BSG2_1(x) == xor(ROTR(x, 6), xor(ROTR(x, 11), ROTR(x, 25)))
SSG2_0(x) == xor(ROTR(x, 7), xor(ROTR(x, 18), x \div 2^3))
SSG2_1(x) == xor(ROTR(x, 17), xor(ROTR(x, 19), x \div 2^10))

(* The round constants: their values play no role, only their places.      *)
K2(j) == u32(j * j * 29 + 71 * j + 152)

Schedule2(w0) ==
  Steps(LAMBDA w, i : Append(w, u32(SSG2_1(w[i - 1]) + w[i - 6] + SSG2_0(w[i - 14]) + w[i - 15])),
        w0, [i \in 1 .. 48 |-> 15 + i])

(* The register that is the k-th argument of the step in the j-th of n     *)
(* rounds of a hash with m registers: the arguments turn by one register.  *)
At(k, j, n, m) == (k + n - j) % m

T1(h, e, f, g, k, w) == h + BSG2_1(e) + CH(e, f, g) + k + w
T2(a, b, c) == BSG2_0(a) + MAJ(a, b, c)

(* SHA2_STEP in the j-th round.                                            *)
Stepped2(r, j, t1, t2) ==
  [r EXCEPT ![At(3, j, 64, 8)] = u32(@ + t1), ![At(7, j, 64, 8)] = u32(t1 + t2)]

SHA2_STEP(r, w, j) ==
  LET at(k) == At(k, j, 64, 8)
  IN  Stepped2(r, j, T1(r[at(7)], r[at(4)], r[at(5)], r[at(6)], K2(j), w[j + 1]),
               T2(r[at(0)], r[at(1)], r[at(2)]))

Added(val, r) == [i \in DOMAIN val |-> u32(val[i] + r[i])]
Rounds2(val, w) == Steps(LAMBDA r, j : SHA2_STEP(r, w, j), val, Loop(64))

br_sha2small_round(buf, val) ==
  Added(val, The({Rounds2(val, w) : w \in {Schedule2(br_range_dec32be(16, [i \in 1 .. 64 |-> buf[i - 1]]))}}))
--------------------------------------------------------------------------------
(* F, G, H and I of SHA-1, by the quarter of the rounds.                   *)
FGHI(q, B, C, D) ==
  CASE q = 0 -> xor(and(xor(C, D), B), D)
    [] q = 2 -> or(and(D, C), and(or(D, C), B))
    [] OTHER -> xor(B, xor(C, D))

K1(q) == u32(<<153, 161, 220, 214>>[q + 1])

Schedule1(w0) ==
  Steps(LAMBDA m, i : Append(m, ROTL(xor(xor(m[i - 2], m[i - 7]), xor(m[i - 13], m[i - 15])), 1)),
        w0, [i \in 1 .. 64 |-> 15 + i])

(* One line of the five loops: the registers turn by one.                  *)
SHA1_STEP(r, m, j) ==
  LET at(k) == At(k, j, 80, 5)
  IN  [r EXCEPT ![at(4)] = u32(@ + ROTL(r[at(0)], 5) + FGHI(j \div 20, r[at(1)], r[at(2)], r[at(3)])
                                 + K1(j \div 20) + m[j + 1]),
                ![at(1)] = ROTL(@, 30)]

Rounds1(val, m) == Steps(LAMBDA r, j : SHA1_STEP(r, m, j), val, Loop(80))

br_sha1_round(buf, val) ==
  Added(val, The({Rounds1(val, m) : m \in {Schedule1(br_range_dec32be(16, [i \in 1 .. 64 |-> buf[i - 1]]))}}))
--------------------------------------------------------------------------------
(* The classes: the initial value, the words of the state and the words of *)
(* the output.                                                             *)
br_sha1_vtable == [id |-> "sha1", IV |-> <<1, 137, 254, 118, 240>>, out |-> 5]

br_sha224_vtable ==
  [id |-> "sha224", IV |-> <<216, 7, 23, 57, 49, 17, 167, 164>>, out |-> 7]

br_sha256_vtable ==
  [id |-> "sha256", IV |-> <<103, 133, 114, 58, 127, 140, 171, 25>>, out |-> 8]

BlockSize == 64
br_digest_size(dig) == 4 * dig.out
Compress(dig, buf, val) ==
  IF dig.id = "sha1" THEN br_sha1_round(buf, val) ELSE br_sha2small_round(buf, val)

(* The value after some blocks, one after the other.                       *)
Chained(dig, blocks, val) == Steps(LAMBDA v, block : Compress(dig, block, v), val, blocks)

(* A new context; its buffer is not initialised: it holds some bytes.      *)
init(dig) ==
  [dig |-> dig, val |-> [i \in 0 .. Len(dig.IV) - 1 |-> u32(dig.IV[i + 1])], count |-> 0,
   buf |-> [i \in 0 .. BlockSize - 1 |-> (i * 3 + 1) % 2^ByteBits]]

(* The loop of an update from position ptr of the block.  SHA-1 counts the *)
(* bytes as it copies them (step = 1), SHA-2 has counted them before.      *)
Copied(cc, ptr, data, clen, step) ==
  [cc EXCEPT !.count = @ + step * clen,
             !.buf = [i \in 0 .. BlockSize - 1 |->
                        IF i \in ptr .. ptr + clen - 1 THEN data[i - ptr + 1] ELSE @[i]]]
Filled(cc, full) == IF full THEN [cc EXCEPT !.val = Compress(cc.dig, cc.buf, @)] ELSE cc

RECURSIVE Absorb(_, _, _, _)
Absorb(cc, ptr, data, step) ==
  LET clen == Min({BlockSize - ptr, Len(data)})
  IN  IF data = <<>> THEN cc
      ELSE The({Absorb(c, (ptr + clen) % BlockSize, SubSeq(data, clen + 1, Len(data)), step) :
                c \in {Filled(Copied(cc, ptr, data, clen, step), ptr + clen = BlockSize)}})

(* br_sha1_update, or sha2small_update.                                    *)
update(cc, data) ==
  LET step == IF cc.dig.id = "sha1" THEN 1 ELSE 0
  IN  Absorb([cc EXCEPT !.count = @ + (1 - step) * Len(data)], cc.count % BlockSize, data, step)

(* The first block of the padding, from place ptr on, and the one that     *)
(* ends with the length in bits: count << 3 for bytes of 8.                *)
Start(cc, ptr) ==
  [i \in 0 .. BlockSize - 1 |->
     IF i < ptr THEN cc.buf[i] ELSE IF i = ptr THEN 2^(ByteBits - 1) ELSE 0]

Closed(cc, buf) ==
  [i \in 0 .. BlockSize - 1 |->
     IF i >= 56 THEN br_enc64be(cc.count * ByteBits)[i - 55] ELSE buf[i]]

OutOf(num, val) == br_range_enc32be([i \in 1 .. num |-> val[i - 1]])

(* A padding that leaves no room check: 0x80 at place 56 and the length    *)
(* overwrites what follows.                                                *)
PadsOneBlock(cc, num) ==
  OutOf(num, Chained(cc.dig, <<Closed(cc, Start(cc, cc.count % BlockSize))>>, cc.val))

(* Where 0x80 leaves no room for the length, one more block is hashed.     *)
Padding(cc, ptr) ==
  IF ptr + 1 > 56 THEN <<Start(cc, ptr), Closed(cc, [i \in 0 .. BlockSize - 1 |-> 0])>>
  ELSE <<Closed(cc, Start(cc, ptr))>>

sha2small_out(cc, num) == OutOf(num, Chained(cc.dig, Padding(cc, cc.count % BlockSize), cc.val))

(* Also br_sha1_out.                                                       *)
out(cc) == sha2small_out(cc, cc.dig.out)

(* The state is the chaining value, encoded, and the count.                *)
state(cc) == br_range_enc32be([i \in 1 .. Len(cc.dig.IV) |-> cc.val[i - 1]])

set_state(cc, stb, count) ==
  LET val == br_range_dec32be(Len(cc.dig.IV), stb)
  IN  [cc EXCEPT !.val = [i \in 0 .. Len(cc.dig.IV) - 1 |-> val[i + 1]], !.count = count]
--------------------------------------------------------------------------------
(* mac/hmac.c *)
process_key(dig, key, bb) ==
  LET tmp == [i \in 1 .. BlockSize |->
                IF i <= Len(key) THEN xor(key[i], bb) ELSE bb]
  IN  state(update(init(dig), tmp))

(* A key of exactly one block is used as it is.                            *)
KeyContext(dig, k) ==
  [dig |-> dig, ksi |-> process_key(dig, k, \h36 % 2^ByteBits), kso |-> process_key(dig, k, \h5C % 2^ByteBits)]

br_hmac_key_init(dig, key) ==
  The({KeyContext(dig, k) : k \in {IF Len(key) > BlockSize THEN out(update(init(dig), key)) ELSE key}})

br_hmac_init(kc, out_len) ==
  [cc |-> set_state(init(kc.dig), kc.ksi, BlockSize), kso |-> kc.kso,
   out_len |-> IF out_len > 0 /\ out_len < br_digest_size(kc.dig) THEN out_len
               ELSE br_digest_size(kc.dig)]

br_hmac_update(ctx, data) == [ctx EXCEPT !.cc = update(@, data)]

br_hmac_out(ctx) ==
  The({SubSeq(out(update(set_state(init(ctx.cc.dig), ctx.kso, BlockSize), inner)), 1, ctx.out_len) :
       inner \in {out(ctx.cc)}})
--------------------------------------------------------------------------------
(* rand/hmac_drbg.c *)
HMAC(kc, parts) == The({br_hmac_out(ctx) : ctx \in {Steps(br_hmac_update, br_hmac_init(kc, 0), parts)}})

(* K from V and what follows it, then V from the new K.                    *)
NewKey(ctx, K) == [ctx EXCEPT !.K = K, !.V = HMAC(br_hmac_key_init(ctx.dig, K), <<@>>)]
Mix(ctx, kc, parts) == The({NewKey(ctx, K) : K \in {HMAC(kc, parts)}})

br_hmac_drbg_update(ctx, seed) ==
  Steps(LAMBDA c, x : The({Mix(c, kc, <<c.V, <<x>>, seed>>) : kc \in {br_hmac_key_init(c.dig, c.K)}}),
        ctx, IF seed = <<>> THEN <<0>> ELSE <<0, 1>>)

br_hmac_drbg_init(dig, seed) ==
  br_hmac_drbg_update(
    [dig |-> dig, K |-> [i \in 1 .. br_digest_size(dig) |-> 0],
     V |-> [i \in 1 .. br_digest_size(dig) |-> 1]], seed)

Generated(g, v, clen) == [V |-> v, buf |-> g.buf \o SubSeq(v, 1, clen)]

RECURSIVE Generate(_, _, _)
Generate(kc, g, len) ==
  LET clen == Min({Len(g.V), len})
  IN  IF len = 0 THEN g
      ELSE The({Generate(kc, Generated(g, v, clen), len - clen) : v \in {HMAC(kc, <<g.V>>)}})

(* The update at the end is inlined: V, a zero byte and no seed.           *)
Updated(ctx, kc, g) == [ctx |-> Mix([ctx EXCEPT !.V = g.V], kc, <<g.V, <<0>>>>), buf |-> g.buf]
GenerateWith(ctx, kc, len) ==
  The({Updated(ctx, kc, g) : g \in {Generate(kc, [V |-> ctx.V, buf |-> <<>>], len)}})

br_hmac_drbg_generate(ctx, len) == The({GenerateWith(ctx, kc, len) : kc \in {br_hmac_key_init(ctx.dig, ctx.K)}})
================================================================================
