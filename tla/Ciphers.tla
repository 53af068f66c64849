-------------------------------- MODULE Ciphers --------------------------------
(***************************************************************************)
(* AES with the AES-NI instructions, its counter mode and the generator    *)
(* built on it: symcipher/aes_x86ni.c, symcipher/aes_x86ni_ctr.c and       *)
(* rand/aesctr_drbg.c of the vendored BearSSL.  A 128-bit register is four *)
(* little-endian words; the instructions are external, and the             *)
(* substitution they apply is some permutation.                            *)
(***************************************************************************)
EXTENDS Digests

CONSTANTS
  CtrLimit,   \* blocks between two updates of the generator: 32768
  MaxRun      \* blocks in one run of the generator: 65280 / 16

Xor128(x, y) == <<xor(x[1], y[1]), xor(x[2], y[2]), xor(x[3], y[3]), xor(x[4], y[4])>>
LoadWord(bytes, off) ==
  br_dec32le(<<bytes[off + 1], bytes[off + 2], bytes[off + 3], bytes[off + 4]>>)
LoadWords(bytes, off) ==
  <<LoadWord(bytes, off), LoadWord(bytes, off + 4), LoadWord(bytes, off + 8), LoadWord(bytes, off + 12)>>
StoreWords(x) == br_enc32le(x[1]) \o br_enc32le(x[2]) \o br_enc32le(x[3]) \o br_enc32le(x[4])
(* _mm_slli_si128(x, 4), and _mm_shuffle_epi32 that repeats one lane.      *)
Shift4(x) == <<0, x[1], x[2], x[3]>>
Repeat(x, j) == [i \in 1 .. 4 |-> x[j + 1]]

subTable == [x \in Words |-> u32(2 * x * x + 5 * x + 99)]
mixTable == [x \in Words |-> ROTL(u32(6 * x * x + 3 * x + 17), 3)]
aesimc(x) == <<u32(3 * x[1] + 50), u32(3 * x[2] + 50), u32(3 * x[3] + 50), u32(3 * x[4] + 50)>>
Rot(w, rc) == xor(ROTR(subTable[w], ByteBits), rc)
aeskeygenassist(x, rc) == <<subTable[x[2]], Rot(x[2], rc), subTable[x[4]], Rot(x[4], rc)>>
Shifted(a, b, c, d) == br_dec32le(<<Byte(a, 0), Byte(b, 1), Byte(c, 2), Byte(d, 3)>>)
Substituted(x) == <<subTable[x[1]], subTable[x[2]], subTable[x[3]], subTable[x[4]]>>
ShiftRows(t) == [i \in 1 .. 4 |-> Shifted(t[i], t[1 + (i % 4)], t[1 + ((i + 1) % 4)], t[1 + ((i + 2) % 4)])]
MixColumns(t) == <<mixTable[t[1]], mixTable[t[2]], mixTable[t[3]], mixTable[t[4]]>>
aesenc(x, k) == Xor128(MixColumns(ShiftRows(Substituted(x))), k)
aesenclast(x, k) == Xor128(ShiftRows(Substituted(x)), k)

(* The round constants, told apart by their number.                        *)
rcon(n) == 1 + (n % 3)
--------------------------------------------------------------------------------
expand_step128(k, k2) ==
  Xor128(Steps(LAMBDA x, i : Xor128(x, Shift4(x)), k, Loop(3)), Repeat(k2, 3))

(* t1 and its copies shifted by one, two and three lanes.                  *)
WithShifts(t) == Xor128(Xor128(t, Shift4(t)), Xor128(Shift4(Shift4(t)), Shift4(Shift4(Shift4(t)))))

(* t1 and t3 afterwards.                                                   *)
Stepped192(n1, t3) == <<n1, Xor128(Xor128(t3, Shift4(t3)), Repeat(n1, 3))>>
expand_step192(t1, t2, t3) == Stepped192(Xor128(WithShifts(t1), Repeat(t2, 1)), t3)

expand_step256_1(t1, t2) == Xor128(WithShifts(t1), Repeat(t2, 3))

expand_step256_2(t1, t3) == Xor128(WithShifts(t3), Repeat(aeskeygenassist(t1, 0), 2))

KEXP128(sk, n) == Append(sk, expand_step128(Last(sk), aeskeygenassist(Last(sk), rcon(n))))

(* s = [t1, t3, sk]: three subkeys, the middle one from two halves.        *)
Halves(x, i, y) == <<x[i + 1], x[i + 2], y[1], y[2]>>

Half192(t, m) == expand_step192(t[1], aeskeygenassist(t[2], rcon(m)), t[2])
Next192(s, a, b) ==
  [t1 |-> b[1], t3 |-> b[2], sk |-> s.sk \o <<s.t1, Halves(s.t3, 0, a[1]), Halves(a[1], 2, a[2])>>]
Second192(s, a, n) == Next192(s, a, Half192(a, 2 * n))

KEXP192(s, n) == Second192(s, Half192(<<s.t1, s.t3>>, 2 * n - 1), n)

Next256(s, t1) == [t1 |-> t1, t3 |-> expand_step256_2(t1, s.t3), sk |-> s.sk \o <<s.t3, t1>>]
KEXP256(s, n) == Next256(s, expand_step256_1(s.t1, aeskeygenassist(s.t3, rcon(n))))

Schedule128(key) == Steps(KEXP128, <<LoadWords(key, 0)>>, [n \in 1 .. 10 |-> n])

Turned192(x) == Halves(x, 2, x)
Ended192(s) == Append(s.sk, s.t1)
Schedule192(key) ==
  Ended192(Steps(KEXP192, [t1 |-> LoadWords(key, 0), sk |-> <<>>,
                           t3 |-> Turned192(LoadWords(key, 8))], <<1, 2, 3, 4>>))

Ended256(s) == s.sk \o <<s.t3, expand_step256_1(s.t1, aeskeygenassist(s.t3, rcon(7)))>>
Schedule256(key) ==
  Ended256(Steps(KEXP256, [t1 |-> LoadWords(key, 0), t3 |-> LoadWords(key, 16), sk |-> <<LoadWords(key, 0)>>],
                 [n \in 1 .. 6 |-> n]))

(* The subkeys; none, and no rounds, for a key of any other length.        *)
x86ni_keysched(key) ==
  CASE Len(key) = 16 -> Schedule128(key)
    [] Len(key) = 24 -> Schedule192(key)
    [] Len(key) = 32 -> Schedule256(key)
    [] OTHER         -> <<>>

br_aes_x86ni_keysched_enc(key) == x86ni_keysched(key)

Backwards(sk) ==
  [u \in DOMAIN sk |-> IF u \in {1, Len(sk)} THEN sk[Len(sk) + 1 - u] ELSE aesimc(sk[Len(sk) + 1 - u])]

br_aes_x86ni_keysched_dec(key) == Backwards(x86ni_keysched(key))
--------------------------------------------------------------------------------
(* The ten, twelve or fourteen rounds of one register.                     *)
Rounds(sk, x) ==
  The({aesenclast(last, Last(sk)) :
       last \in {Steps(LAMBDA t, u : aesenc(t, sk[u + 1]), Xor128(x, sk[1]), [u \in 1 .. Len(sk) - 2 |-> u])}})

CounterBlock(iv, cc) ==
  [LoadWords(iv \o <<0, 0, 0, 0>>, 0) EXCEPT ![4] = br_swap32(u32(cc))]

(* Four registers are enciphered in each turn, whatever is left.           *)
FourBlocks(sk, iv, cc) ==
  The({StoreWords(x[1]) \o StoreWords(x[2]) \o StoreWords(x[3]) \o StoreWords(x[4]) :
       x \in {[n \in 1 .. 4 |-> Rounds(sk, CounterBlock(iv, cc + n - 1))]}})

xorBytes(a, b) == [i \in 1 .. Len(a) |-> xor(a[i], b[i])]

(* The counter moves on over whole blocks only.                            *)
RECURSIVE CtrRun(_, _, _, _, _)
CtrRun(sk, iv, cc, data, acc) ==
  IF data = <<>> THEN [cc |-> cc, data |-> acc]
  ELSE The({CtrRun(sk, iv, u32(cc + Min({4, Len(data) \div 16})), SubSeq(data, 65, Len(data)),
                   acc \o xorBytes(SubSeq(data, 1, Min({64, Len(data)})), stream)) : stream \in {FourBlocks(sk, iv, cc)}})

br_aes_x86ni_ctr_init(key) == br_aes_x86ni_keysched_enc(key)

br_aes_x86ni_ctr_run(sk, iv, cc, data) == CtrRun(sk, iv, cc, data, <<>>)
--------------------------------------------------------------------------------
(* rand/aesctr_drbg.c: a context is [sk, cc].                              *)
Fill(byte, n) == [i \in 1 .. n |-> byte % 2^ByteBits]

(* One block m of the Hirose construction.                                 *)
Enciphered(sk, g) == br_aes_x86ni_ctr_run(sk, SubSeq(g, 1, 12), br_dec32be(SubSeq(g, 13, 16)), g).data
HiroseWith(sk, gs) == [G |-> Enciphered(sk, gs.G), H |-> Enciphered(sk, gs.H)]
Hirose(s, m) ==
  The({HiroseWith(sk, [G |-> s.G, H |-> <<xor(s.G[1], 1)>> \o Tail(s.G)]) :
       sk \in {br_aes_x86ni_ctr_init(s.H \o m)}})

SeedBlocks(seed) ==
  [b \in 1 .. (Len(seed) + 15) \div 16 |->
     [i \in 1 .. 16 |-> LET at == 16 * (b - 1) + i IN IF at <= Len(seed) THEN seed[at] ELSE 0]]

Hashing(blocks) == Steps(Hirose, [G |-> Fill(\hB6, 16), H |-> Fill(\h5A, 16)], blocks)

br_aesctr_drbg_update(ctx, seed) ==
  The({[sk |-> br_aes_x86ni_ctr_init(The({Hashing(blocks).H})), cc |-> 0] :
       blocks \in {<<br_aes_x86ni_ctr_run(ctx.sk, Fill(\hFF, 12), 2^WordBits - 1, Fill(0, 16)).data>> \o SeedBlocks(seed)}})

br_aesctr_drbg_init(seed) ==
  br_aesctr_drbg_update([sk |-> br_aes_x86ni_ctr_init(Fill(0, 16)), cc |-> 0], seed)

(* The generator that lets a run go past the limit and updates afterwards. *)
RunsPastLimit(ctx, len) == IF 16 * MaxRun < len THEN 16 * MaxRun ELSE len

RunLength(ctx, len) ==
  LET clen == IF len > 16 * MaxRun THEN 16 * MaxRun ELSE len
      room == (CtrLimit - ctx.cc) * 16
  IN  IF ctx.cc + (clen + 15) \div 16 <= CtrLimit THEN clen
      ELSE IF room > len THEN len ELSE room

Limited(ctx) == IF ctx.cc >= CtrLimit THEN br_aesctr_drbg_update(ctx, <<>>) ELSE ctx

Turn(g, run) == [ctx |-> Limited([g.ctx EXCEPT !.cc = run.cc]), buf |-> g.buf \o run.data]

RECURSIVE CtrGenerate(_, _)
CtrGenerate(g, len) ==
  LET clen == RunLength(g.ctx, len)
  IN  IF len = 0 THEN g
      ELSE The({CtrGenerate(turned, len - clen) :
                turned \in {Turn(g, br_aes_x86ni_ctr_run(g.ctx.sk, Fill(0, 12), g.ctx.cc, Fill(0, clen)))}})

br_aesctr_drbg_generate(ctx, len) == CtrGenerate([ctx |-> ctx, buf |-> <<>>], len)
================================================================================
