------------------------------- MODULE MCVendored ------------------------------
(***************************************************************************)
(* The vendored code and the library's use of it on chosen inputs: a       *)
(* behaviour is one call, compared with the algorithms as their standards  *)
(* define them, on the narrow words of the model.                          *)
(***************************************************************************)
EXTENDS EncUtils, Curve25519, Cmockery

CONSTANTS
  Calls,          \* the functions called
  Digests0,       \* classes of hash functions
  HashLengths, HashSplits, KeyLengths,
  Seeds,          \* seeds of the generators
  AadLengths, DataLengths, GcmSplits,
  LimbValues, Scalars, BasePoints,
  MaxBody,        \* calls in the body of one test
  MaxTests        \* functions in one list of tests

VARIABLES call, arg, ret, done

vars == <<call, arg, ret, done>>

\* n bytes, the n-th text of its kind.
Text(n, kind) == [i \in 1 .. n |-> (i * i + i \div 3 + kind * (i \div 5) + kind) % 2^ByteBits]

MCBeyond == [i \in 1 .. 16 |-> (i * 3 + i \div 4) % 4]
MCDigests == {br_sha1_vtable, br_sha224_vtable, br_sha256_vtable}
MCScalars == {11 * k : k \in 0 .. 46} \cup (1 .. 8)
--------------------------------------------------------------------------------
(* The standards: what the code is compared with *)

XorBytes(a, b) == [i \in DOMAIN a |-> xor(a[i], b[i])]
Taking(s, n) == SubSeq(s, 1, IF n < Len(s) THEN n ELSE Len(s))
Leaving(s, n) == SubSeq(s, n + 1, Len(s))
Cut(s, n) == [b \in 1 .. Len(s) \div n |-> SubSeq(s, n * (b - 1) + 1, n * b)]
--------------------------------------------------------------------------------
(* FIPS 180-4: the registers are shifted, the whole message is padded.     *)
RefCh(x, y, z) == xor(and(x, y), and(Flip(x), z))
RefMaj(x, y, z) == xor(and(x, y), xor(and(x, z), and(y, z)))

RefRound2(r, kw) ==
  The({<<u32(t[1] + t[2]), r[1], r[2], r[3], u32(r[4] + t[1]), r[5], r[6], r[7]>> :
       t \in {<<r[8] + BSG2_1(r[5]) + RefCh(r[5], r[6], r[7]) + kw, BSG2_0(r[1]) + RefMaj(r[1], r[2], r[3])>>}})

RefRound1(r, t, w) ==
  LET f == CASE t \div 20 = 0 -> RefCh(r[2], r[3], r[4])
             [] t \div 20 = 2 -> RefMaj(r[2], r[3], r[4])
             [] OTHER         -> xor(r[2], xor(r[3], r[4]))
  IN  <<u32(ROTL(r[1], 5) + f + r[5] + K1(t \div 20) + w), r[1], ROTL(r[2], 30), r[3], r[4]>>

RefRounds(dig, h, words) ==
  IF dig.id = "sha1"
  THEN The({Steps(LAMBDA r, t : RefRound1(r, t, w[t + 1]), h, Loop(80)) : w \in {Schedule1(words)}})
  ELSE The({Steps(LAMBDA r, t : RefRound2(r, K2(t) + w[t + 1]), h, Loop(64)) : w \in {Schedule2(words)}})

RECURSIVE RefChained(_, _, _)
RefChained(dig, h, blocks) ==
  IF blocks = <<>> THEN h
  ELSE The({RefChained(dig, [i \in DOMAIN h |-> u32(h[i] + r[i])], Tail(blocks)) :
            r \in {RefRounds(dig, h, [i \in 1 .. 16 |-> br_dec32be(SubSeq(Head(blocks), 4 * i - 3, 4 * i))])}})

RefPadded(m) ==
  m \o <<2^(ByteBits - 1)>> \o Fill(0, (55 - Len(m)) % 64) \o br_enc64be(Len(m) * ByteBits)

RefHash(dig, m) ==
  The({FlattenSeq([i \in 1 .. dig.out |-> br_enc32be(h[i])]) :
       h \in {RefChained(dig, [i \in DOMAIN dig.IV |-> u32(dig.IV[i])], Cut(RefPadded(m), 64))}})

(* FIPS 198: the key is hashed if it is longer than a block.               *)
RefHmac(dig, key, m) ==
  The({RefHash(dig, XorBytes(k, Fill(\h5C, 64)) \o RefHash(dig, XorBytes(k, Fill(\h36, 64)) \o m)) :
       k \in {The({k \o Fill(0, 64 - Len(k)) : k \in {IF Len(key) > 64 THEN RefHash(dig, key) ELSE key}})}})

(* RFC 5869 without further information: block i of the derived key.      *)
RefDerived(prk, i) ==
  Steps(LAMBDA t, k : RefHmac(br_sha256_vtable, prk, t \o <<k + 1>>), <<>>, Loop(i))

(* NIST SP 800-90A, HMAC_DRBG.                                             *)
RefDrbgUpdate(dig, s, data) ==
  Steps(LAMBDA t, x : The({[K |-> K, V |-> RefHmac(dig, K, t.V)] :
                           K \in {RefHmac(dig, t.K, t.V \o <<x>> \o data)}}),
        s, IF data = <<>> THEN <<0>> ELSE <<0, 1>>)

RefOutput(dig, s, n) ==
  Steps(LAMBDA t, i : The({[V |-> V, temp |-> t.temp \o V] : V \in {RefHmac(dig, s.K, t.V)}}),
        [V |-> s.V, temp |-> <<>>], Loop(n))

RefAfter(dig, s, g, len) ==
  [buf |-> Taking(g.temp, len), next |-> RefDrbgUpdate(dig, [K |-> s.K, V |-> g.V], <<>>)]
RefServed(dig, s, len, size) ==
  The({RefAfter(dig, s, g, len) : g \in {RefOutput(dig, s, (len + size - 1) \div size)}})

RefDrbg(dig, seed, len) ==
  LET size == br_digest_size(dig)
  IN  The({RefServed(dig, s, len, size) :
           s \in {RefDrbgUpdate(dig, [K |-> Fill(0, size), V |-> Fill(1, size)], seed)}})
--------------------------------------------------------------------------------
(* FIPS 197: the words of the key schedule, one after the other.           *)
RefExpanded(key) ==
  LET nk == Len(key) \div 4
      Next(w, i) ==
        Append(w, xor(w[i - nk + 1],
                      CASE i % nk = 0 -> Rot(w[i], rcon(i \div nk))
                        [] nk > 6 /\ i % nk = 4 -> subTable[w[i]]
                        [] OTHER -> w[i]))
  IN  Cut(Steps(Next, [i \in 1 .. nk |-> LoadWord(key, 4 * (i - 1))], [i \in 1 .. 4 * (nk + 7) - nk |-> nk + i - 1]), 4)

(* One block of keystream.                                                 *)
RefBlock(sk, iv, cc) == StoreWords(Rounds(sk, LoadWords(iv \o br_enc32be(u32(cc)), 0)))

RefStream(sk, iv, cc, len) ==
  Taking(FlattenSeq([b \in 1 .. (len + 15) \div 16 |-> RefBlock(sk, iv, cc + b - 1)]), len)

(* Block b of the generator: its number among the blocks of its key.       *)
RefKeys(sk, n) == Steps(LAMBDA k, i : br_aesctr_drbg_update([sk |-> k, cc |-> CtrLimit], <<>>).sk, sk, Loop(n))
RefGenerated(sk, blocks) ==
  FlattenSeq([b \in 1 .. blocks |-> RefBlock(RefKeys(sk, (b - 1) \div CtrLimit), Fill(0, 12), (b - 1) % CtrLimit)])
(* Only full blocks are counted: a request starts after the last of them.  *)
BlocksBefore(requests) == FoldLeft(LAMBDA n, len : n + len \div 16, 0, requests)
RefRequests(sk, requests) ==
  The({FlattenSeq([i \in DOMAIN requests |->
                     LET at == 16 * BlocksBefore(SubSeq(requests, 1, i - 1)) IN SubSeq(stream, at + 1, at + requests[i])]) :
       stream \in {RefGenerated(sk, BlocksBefore(requests) + 1)}})
--------------------------------------------------------------------------------
(* NIST SP 800-38D.  Degree d of a polynomial is a bit of byte d \div      *)
(* ByteBits, from its most significant one on.                             *)
Degree == 16 * ByteBits
RefPoly(b) == {d \in 0 .. Degree - 1 : (b[d \div ByteBits + 1] \div 2^(ByteBits - 1 - (d % ByteBits))) % 2 = 1}
RefBytes(p) ==
  [i \in 1 .. 16 |-> MapThenSumSet(LAMBDA k : IF ByteBits * (i - 1) + k \in p THEN 2^(ByteBits - 1 - k) ELSE 0,
                                   0 .. ByteBits - 1)]
RefReduced(p) ==
  Steps(LAMBDA q, d : IF d \in q THEN SymDiff(q, {d, d - Degree, d - Degree + 1, d - Degree + 2, d - Degree + 7})
                      ELSE q,
        p, [i \in 1 .. Degree - 1 |-> 2 * Degree - 1 - i])
RefMul(p, q) ==
  RefReduced({k \in 0 .. 2 * Degree - 2 : Cardinality({i \in p : k - i \in q}) % 2 = 1})
RefZeroPadded(s) == s \o Fill(0, (16 - (Len(s) % 16)) % 16)
RefGhash(h, s) ==
  RefBytes(Steps(LAMBDA y, b : RefMul(SymDiff(y, RefPoly(b)), RefPoly(h)), {}, Cut(s, 16)))
RefLengths(a, c) == br_enc64be(Len(a) * ByteBits) \o br_enc64be(Len(c) * ByteBits)

RefFirst(h, iv) ==
  IF Len(iv) = 12 THEN iv \o br_enc32be(1) ELSE RefGhash(h, RefZeroPadded(iv) \o RefLengths(<<>>, iv))
RefCovered(sk, j0, plain) ==
  XorBytes(plain, RefStream(sk, SubSeq(j0, 1, 12), br_dec32be(SubSeq(j0, 13, 16)) + 1, Len(plain)))
RefTag(sk, h, j0, aad, c) ==
  XorBytes(RefGhash(h, RefZeroPadded(aad) \o RefZeroPadded(c) \o RefLengths(aad, c)),
           RefBlock(sk, SubSeq(j0, 1, 12), br_dec32be(SubSeq(j0, 13, 16))))

RefSealed(sk, h, j0, aad, plain) ==
  The({[data |-> c, tag |-> RefTag(sk, h, j0, aad, c)] : c \in {RefCovered(sk, j0, plain)}})

RefGcm(sk, iv, aad, plain) ==
  The({The({RefSealed(sk, h, j0, aad, plain) : j0 \in {RefFirst(h, iv)}}) : h \in {RefBlock(sk, Fill(0, 12), 0)}})
--------------------------------------------------------------------------------
(* Numbers modulo 2^(5L) - Excess, and the group of the Montgomery curve   *)
(* y^2 = x^3 + A x^2 + x in affine coordinates; <<>> is its zero.          *)
Modulus == 2^(5 * L) - Excess
ValueOf(f) ==
  (f[1] + f[2] * 2^L + f[3] * 2^(2 * L) + f[4] * 2^(3 * L) + f[5] * 2^(4 * L)) % Modulus
(* Doubling keeps the products within TLC's integers.                      *)
RECURSIVE ModularProduct(_, _)
ModularProduct(a, b) ==
  IF b = 0 THEN 0 ELSE ((IF b % 2 = 1 THEN a ELSE 0) + 2 * ModularProduct(a, b \div 2)) % Modulus

CurveA == 486662 % Order
RightSide(x) == Add(Mul(x, Mul(x, x)), Add(Mul(CurveA, Mul(x, x)), x))
OnCurve(x) == \E y \in 0 .. Order - 1 : Mul(y, y) = RightSide(x)
PointAt(x) == <<x, CHOOSE y \in 0 .. Order - 1 : Mul(y, y) = RightSide(x)>>

PointSum(p, q) ==
  IF p = <<>> THEN q
  ELSE IF q = <<>> THEN p
  ELSE IF p[1] = q[1] /\ Add(p[2], q[2]) = 0 THEN <<>>
  ELSE LET slope == IF p = q
                    THEN Mul(Add(Add(Mul(3, Mul(p[1], p[1])), Mul(2 * CurveA, p[1])), 1),
                             Inverse25519(Mul(2, p[2])))
                    ELSE Mul(Sub(q[2], p[2]), Inverse25519(Sub(q[1], p[1])))
           x == Sub(Sub(Sub(Mul(slope, slope), CurveA), p[1]), q[1])
       IN  <<x, Sub(Mul(slope, Sub(p[1], x)), p[2])>>

PointMultiple(n, p) ==
  Steps(LAMBDA s, i : LET d == The({PointSum(t, t) : t \in {s}})
                      IN  IF (n \div 2^(NBits - 1 - i)) % 2 = 1 THEN The({PointSum(t, p) : t \in {d}}) ELSE d,
        <<>>, Loop(NBits))
--------------------------------------------------------------------------------
(* Inputs *)

Doing(fn) == fn \in Calls /\ call = fn

ToCompare ==
  Doing("primitives") /\
  \E x \in {0, 1, 2, 3, 126, 127, 128, 129, 254, 255} \cup {17 * k : k \in 1 .. 14}, y \in Words :
    arg = [x |-> x, y |-> y]

ToHash ==
  Doing("hash") /\
  \E dig \in Digests0, n \in HashLengths, split \in HashSplits :
    split <= n /\ arg = [dig |-> dig, m |-> Text(n, 1), split |-> split]

ToHmac ==
  Doing("hmac") /\
  \E dig \in Digests0, key \in KeyLengths, n \in {0, 60} :
    arg = [dig |-> dig, key |-> Text(key, 2), m |-> Text(n, 1)]

ToHmacDrbg ==
  Doing("hmac_drbg") /\
  \E dig \in {br_sha1_vtable, br_sha256_vtable}, seed \in Seeds, len \in {7, 40} :
    (dig = br_sha1_vtable \/ (len = 40 /\ seed # 0)) /\ arg = [dig |-> dig, seed |-> Text(seed, 3), len |-> len]

ToExpandKey ==
  Doing("keys") /\ \E n \in {8, 16, 24, 32}, kind \in 1 .. 6 : arg = Text(n, kind)

ToRunCounter ==
  Doing("ctr") /\
  \E n \in {16, 24, 32}, cc \in {0, 254}, len \in DataLengths :
    arg = [key |-> Text(n, 5), iv |-> Text(12, 6), cc |-> cc, data |-> Text(len, 1)]

\* Requests that end with a block and inside one.
ToGenerate ==
  Doing("ctr_drbg") /\
  \E seed \in {0, 40}, requests \in [1 .. 3 -> {8, 16, 40, 64}] :
    (seed = 0 => requests = <<16, 40, 64>>) /\ arg = [seed |-> Text(seed, 2), requests |-> requests]

ToDraw ==
  Doing("rand") /\
  \E seed \in {5}, draws \in [1 .. 4 -> {1, 4, 8}] : arg = [seed |-> Text(seed, 4), draws |-> draws]

\* How many tries each word takes, or which one is never answered; what read gives.
ToSeed ==
  Doing("seed") /\
  \/ \E tries \in {1, 10, 11}, at \in 1 .. 8 :
       arg = [rdrand |-> TRUE, fails |-> [u \in 1 .. 8 |-> IF u = at THEN tries - 1 ELSE 0]]
  \/ \E open \in BOOLEAN, reads \in [1 .. 4 -> {0, 8, 16, -1, -2}] :
       arg = [rdrand |-> FALSE, open |-> open,
              reads |-> [i \in 1 .. 4 |-> IF reads[i] = -1 THEN <<"EINTR">>
                                          ELSE IF reads[i] = -2 THEN <<"error">> ELSE Text(reads[i], i)]]

ToSeal ==
  Doing("gcm") /\
  \E iv \in {8, 12}, aad \in AadLengths, n \in DataLengths, split \in GcmSplits :
    (split <= n \/ split <= aad) /\
    arg = [key |-> Text(16, 7), iv |-> Text(iv, 1), aad |-> Text(aad, 2), plain |-> Text(n, 3), split |-> split]

ToWrap ==
  Doing("wrap") /\
  \E n \in DataLengths, spoil \in {"none", "data", "tag", "iv"} :
    (n > 0 \/ spoil # "data") /\ arg = [in |-> Text(n, 5), iv |-> Text(12, 1), spoil |-> spoil]

\* Pointers may be missing, with a length or without, and the tag may differ.
ToSealEnclave ==
  Doing("enclave_gcm") /\
  \E n \in {0, 17}, aad \in {0, 5}, missing \in SUBSET {"key", "src", "dst", "iv", "aad", "mac"}, spoil \in BOOLEAN :
    arg = [missing |-> missing, spoil |-> spoil,
           p |-> LET Given(name, s) == IF name \in missing THEN Null ELSE s
                 IN [key |-> Given("key", Text(16, 3)), iv |-> Given("iv", Text(12, 2)), src_len |-> n,
                     src |-> Given("src", Text(n, 4)), dst |-> Given("dst", Text(n, 5)), aad_len |-> aad,
                     aad |-> Given("aad", Text(aad, 6)), mac |-> Given("mac", Fill(0, 16))]]

ToDerive ==
  Doing("derive") /\
  \E key \in KeyLengths, n, k \in {0, 60} : arg = [key |-> Text(key, 2), m |-> <<Text(n, 1), Text(k, 3)>>]

Limbs == [1 .. 5 -> LimbValues]

ToContract == Doing("limbs") /\ \E f \in Limbs : arg = [f |-> f, g |-> Reverse(f)]

ToMultiply ==
  Doing("ladder") /\
  \E n \in Scalars, x \in BasePoints : OnCurve(x) /\ arg = [n |-> n, x |-> x]

ToAgree ==
  Doing("agree") /\
  \E a \in {64 * k + 5 : k \in 0 .. 7}, b \in {8 * k : k \in 0 .. 5}, x \in {2, 5, 9} :
    arg = [a |-> a, b |-> b, x |-> x]

MockCalls ==
  [op : {"will_return"}, fn : {"f"}, value : {1, 2}, count : {1, 2}]
    \cup [op : {"will_return"}, fn : {"f"}, value : {3}, count : {ALWAYS, 0}]
    \cup [op : {"mock"}, fn : {"f"}]

Bodies(calls, n) == UNION {[1 .. k -> calls] : k \in 0 .. n}

ToMock == Doing("mock") /\ \E body \in Bodies(MockCalls, MaxBody) : arg = [body |-> body]

\* Each kind of check with the values it accepts.
Checks ==
  {[kind |-> "any", data |-> 0, accepts |-> 0 .. 5], [kind |-> "value", data |-> 2, accepts |-> {2}],
   [kind |-> "not_value", data |-> 2, accepts |-> (0 .. 5) \ {2}],
   [kind |-> "in_range", data |-> <<1, 3>>, accepts |-> 1 .. 3],
   [kind |-> "not_in_range", data |-> <<1, 3>>, accepts |-> {0, 4, 5}],
   [kind |-> "in_set", data |-> <<1, 4>>, accepts |-> {1, 4}],
   [kind |-> "not_in_set", data |-> <<1, 4>>, accepts |-> {0, 2, 3, 5}]}

OfSet(check) == check.kind \in {"in_set", "not_in_set"}

\* block: what malloc finds where the size of a set is kept, and a word behind the set.
ToExpect ==
  Doing("expect") /\
  \E check \in Checks, count \in {1, 2, ALWAYS}, values \in UNION {[1 .. k -> 0 .. 5] : k \in 0 .. 3} :
    \E size \in IF OfSet(check) THEN 0 .. 3 ELSE {0} :
      arg = [check |-> check, count |-> count, values |-> values, block |-> [size |-> size, beyond |-> <<5>>]]

TestBodies ==
  {<<>>, <<[op |-> "malloc"], [op |-> "free"]>>, <<[op |-> "malloc"]>>, <<[op |-> "free"]>>,
   <<[op |-> "assert", result |-> FALSE]>>, <<[op |-> "malloc"], [op |-> "assert", result |-> FALSE]>>,
   <<[op |-> "malloc"], [op |-> "overrun"], [op |-> "free"]>>}

\* In any order: a teardown need not have a setup.
ToRunTests ==
  Doing("tests") /\
  \E n \in 1 .. MaxTests : \E kinds \in [1 .. n -> {"setup", "test", "teardown"}], bodies \in [1 .. n -> TestBodies] :
    arg = [i \in 1 .. n |-> [name |-> i, type |-> kinds[i], body |-> bodies[i]]]

Init ==
  /\ ToCompare \/ ToHash \/ ToHmac \/ ToHmacDrbg \/ ToExpandKey \/ ToRunCounter \/ ToGenerate \/ ToDraw
     \/ ToSeed \/ ToSeal \/ ToSealEnclave \/ ToDerive \/ ToWrap \/ ToContract \/ ToMultiply \/ ToAgree \/ ToMock \/ ToExpect \/ ToRunTests
  /\ ret = [x |-> <<>>] /\ done = FALSE
--------------------------------------------------------------------------------
(* Calls *)

Returns(fn, r) ==
  /\ call = fn /\ ~done
  /\ ret' = r /\ done' = TRUE
  /\ UNCHANGED <<call, arg>>

Compares ==
  Returns("primitives",
    LET x == arg.x  y == arg.y
    IN [two |-> <<NEQ(x, y), EQ(x, y), GT(x, y), GE(x, y), LT(x, y), LE(x, y), CMP(x, y), MIN(x, y), MAX(x, y),
                  MUX(1, x, y), MUX(0, x, y)>>,
        one |-> <<EQ0(y), GT0(y), GE0(y), LT0(y), LE0(y), BIT_LENGTH(y), br_swap32(y)>>,
        back |-> <<br_dec16le(br_enc16le(y)), br_dec16be(br_enc16be(y)), br_dec32le(br_enc32le(y)),
                   br_dec32be(br_enc32be(y)), br_dec64le(br_enc64le(256 * x + y)),
                   br_dec64be(br_enc64be(256 * x + y))>>])

Hashes ==
  Returns("hash",
    LET first == update(init(arg.dig), SubSeq(arg.m, 1, arg.split))
        rest == SubSeq(arg.m, arg.split + 1, Len(arg.m))
    IN [digest |-> out(update(first, rest)),
        resumed |-> IF arg.split % 64 # 0 THEN <<>>
                    ELSE out(update(set_state(init(arg.dig), state(first), arg.split), rest))])

Authenticates ==
  Returns("hmac", [mac |-> HMAC(br_hmac_key_init(arg.dig, arg.key), <<arg.m, arg.m>>),
                   short |-> br_hmac_out(br_hmac_update(br_hmac_init(br_hmac_key_init(arg.dig, arg.key), 9),
                                                        arg.m \o arg.m))])

GeneratesHmac ==
  Returns("hmac_drbg", br_hmac_drbg_generate(br_hmac_drbg_init(arg.dig, arg.seed), arg.len))

Expands == Returns("keys", [sk |-> br_aes_x86ni_keysched_enc(arg), dec |-> br_aes_x86ni_keysched_dec(arg)])

RunsCounter ==
  Returns("ctr", br_aes_x86ni_ctr_run(br_aes_x86ni_ctr_init(arg.key), arg.iv, arg.cc, arg.data))

Served(s, g) == [ctx |-> g.ctx, buf |-> s.buf \o g.buf]
Requests(ctx, requests) ==
  Steps(LAMBDA s, n : Served(s, br_aesctr_drbg_generate(s.ctx, n)), [ctx |-> ctx, buf |-> <<>>], requests)

GeneratesCtr == Returns("ctr_drbg", The({Requests(ctx, arg.requests) : ctx \in {br_aesctr_drbg_init(arg.seed)}}))

Outs(s, d) == [g |-> d.g, outs |-> Append(s.outs, d.out)]
Draws ==
  Returns("rand", [x |-> Steps(LAMBDA s, n : Outs(s, rand(s.g, n)), [g |-> RandGen(arg.seed), outs |-> <<>>], arg.draws).outs])

Seeds0 == br_aesctr_drbg_init(<<>>)
Answers(fails) == FlattenSeq([u \in 1 .. 8 |-> [j \in 1 .. fails[u] |-> -1] \o <<29 * u>>])

SeedsGenerator ==
  Returns("seed",
    IF br_prng_seeder_system(arg.rdrand) = "rdrand" THEN seeder_rdrand(Seeds0, Answers(arg.fails))
    ELSE seeder_urandom(Seeds0, arg.open, arg.reads))

RunInTwo(ctx, encrypt, s, n) ==
  Steps(LAMBDA r, x : Joined(r, br_gcm_run(r.ctx, encrypt, x)), [ctx |-> ctx, data |-> <<>>],
        <<Taking(s, n), Leaving(s, n)>>)

Ready(a) ==
  The({br_gcm_flip(Steps(br_gcm_aad_inject, ctx, <<Taking(a.aad, a.split), Leaving(a.aad, a.split)>>)) :
       ctx \in {br_gcm_reset(br_gcm_init(br_aes_x86ni_ctr_init(a.key)), a.iv)}})

\* The text sealed and opened again in two runs each; both of a tag and of another one.
SealedAndOpened(sealed, tag, opened) ==
  [data |-> sealed.data, tag |-> tag, opened |-> opened.data,
   ok |-> br_gcm_check_tag(opened.ctx, tag), part |-> br_gcm_get_tag_trunc(opened.ctx, 7),
   bad |-> br_gcm_check_tag(opened.ctx, [tag EXCEPT ![16] = (@ + 1) % 2^ByteBits])]

Opened(ready, sealed, split) ==
  SealedAndOpened(sealed, br_gcm_get_tag(sealed.ctx), RunInTwo(ready, FALSE, sealed.data, split))
SealsWith(ready, a) == Opened(ready, RunInTwo(ready, TRUE, a.plain, a.split), a.split)

Seals == Returns("gcm", The({SealsWith(ready, arg) : ready \in {Ready(arg)}}))

Spoiled(s) == [s EXCEPT ![Len(s)] = xor(@, 1)]
Stored(e, spoil) ==
  CASE spoil = "data" -> [e EXCEPT !.data = Spoiled(@)]
    [] spoil = "tag" -> [e EXCEPT !.tag = Spoiled(@)]
    [] OTHER -> e

Wraps ==
  Returns("wrap",
    [fresh |-> FreshDecrypt(Stored(FreshEncrypt(arg.in, arg.iv), arg.spoil),
                            IF arg.spoil = "iv" THEN Spoiled(arg.iv) ELSE arg.iv),
     plain |-> Decrypt(Encrypt(arg.in, [r \in 1 .. IO_ROUND |-> Text(12, r)])),
     hash |-> secure_hash_with_salt(arg.in, Text(16, 1))])

\* What the decryption gets: the sealed text, with another tag if it is to be spoiled.
Received(p, sealed, spoil) ==
  [p EXCEPT !.src = IF @ = Null THEN @ ELSE sealed.dst,
            !.mac = IF spoil /\ sealed.mac # Null THEN Spoiled(sealed.mac) ELSE sealed.mac]

SealedThenOpened(p, sealed, spoil) ==
  [sealed |-> sealed, opened |-> sgxsd_aes_gcm_decrypt(Received(p, sealed, spoil))]

SealsInEnclave == Returns("enclave_gcm", SealedThenOpened(arg.p, sgxsd_aes_gcm_encrypt(arg.p), arg.spoil))

Derives ==
  Returns("derive",
    [mac |-> sgxsd_enclave_hmac_sha256(<<arg.key>> \o arg.m),
     rounds |-> Steps(LAMBDA s, i : Append(s, sgxsd_enclave_ra_hkdf_round(arg.key, Last(s))),
                      <<[n |-> 0, t_n |-> Fill(0, 32)]>>, Loop(3))])

Contracts ==
  Returns("limbs",
    [contracted |-> fcontract(arg.f), expanded |-> fexpand(ValueOf(arg.f)), product |-> fmul(arg.f, arg.g),
     square |-> fsquare_times(arg.f, 1), difference |-> fdifference_backwards(arg.f, arg.g),
     sum |-> fsum(arg.f, arg.g), multiple |-> fscalar_product(arg.f, 13),
     swapped |-> swap_conditional(arg.f, arg.g, arg.f[1] % 2)])

Multiplies == Returns("ladder", cmult(arg.n, arg.x))

Agrees ==
  Returns("agree", [ab |-> curve25519_donna(arg.a, curve25519_donna(arg.b, arg.x)),
                    ba |-> curve25519_donna(arg.b, curve25519_donna(arg.a, arg.x)),
                    exponent |-> crecip({0})])

Mocks == Returns("mock", run_test(Fresh, [type |-> "test", body |-> arg.body], Head0))

Expects ==
  Returns("expect",
    run_test(Fresh,
      [type |-> "test",
       body |-> <<[op |-> IF OfSet(arg.check) THEN "expect_set" ELSE "expect", symbol |-> <<"f", "p">>,
                   check |-> arg.check, count |-> arg.count, block |-> arg.block]>>
                  \o [i \in DOMAIN arg.values |-> [op |-> "check", symbol |-> <<"f", "p">>, value |-> arg.values[i]]]],
      Head0))

RunsTests == Returns("tests", run_tests(Fresh, arg))

Next ==
  \/ Compares \/ Hashes \/ Authenticates \/ GeneratesHmac \/ Expands \/ RunsCounter \/ GeneratesCtr \/ Draws
  \/ SeedsGenerator \/ Seals \/ SealsInEnclave \/ Derives \/ Wraps \/ Contracts \/ Multiplies \/ Agrees \/ Mocks \/ Expects \/ RunsTests

Spec == Init /\ [][Next]_vars
--------------------------------------------------------------------------------
(* Properties *)

Returned(fn) == call = fn /\ done
One(b) == IF b THEN 1 ELSE 0

\* The branch-free primitives of inner.h are the comparisons they are named after, for
\* words on both sides of the sign bit, and every encoding is undone by its decoding.
PrimitivesExact ==
  Returned("primitives") =>
    LET x == arg.x  y == arg.y  s == Signed(arg.y)
        bits == CHOOSE k \in 0 .. WordBits : y < 2^k /\ (k > 0 => y >= 2^(k - 1))
    IN /\ ret.two = <<One(x # y), One(x = y), One(x > y), One(x >= y), One(x < y), One(x <= y),
                      One(x > y) - One(x < y), IF x < y THEN x ELSE y, IF x < y THEN y ELSE x, x, y>>
       /\ ret.one = <<One(s = 0), One(s > 0), One(s >= 0), One(s < 0), One(s <= 0), bits, br_dec32le(br_enc32be(y))>>
       /\ ret.back = <<y % 16, y % 16, y, y, 256 * x + y, 256 * x + y>>

\* Wherever the updates and a saved state cut the message, and on both sides of the
\* padding's block boundary, the streaming hashes, HMAC for keys around one block and
\* HMAC_DRBG with its inlined update return what their standards define; so do the
\* enclave's HMAC over several buffers and its key derivation, round after round.
DigestsMatch ==
  /\ Returned("hash") =>
       LET digest == RefHash(arg.dig, arg.m) IN ret.digest = digest /\ ret.resumed \in {<<>>, digest}
  /\ Returned("hmac") =>
       LET mac == RefHmac(arg.dig, arg.key, arg.m \o arg.m) IN ret.mac = mac /\ ret.short = SubSeq(mac, 1, 9)
  /\ Returned("hmac_drbg") =>
       LET g == RefDrbg(arg.dig, arg.seed, arg.len)
       IN ret.buf = g.buf /\ ret.ctx.K = g.next.K /\ ret.ctx.V = g.next.V
  /\ Returned("derive") =>
       /\ ret.mac = RefHmac(br_sha256_vtable, arg.key, FlattenSeq(arg.m))
       /\ \A i \in 1 .. 3 : ret.rounds[i + 1] = [n |-> i, t_n |-> RefDerived(arg.key, i)]

\* Where the draws of a generator lie in the stream of its buffers: a draw that does not
\* fit into the rest of a buffer starts the next one.
Places(draws) ==
  Steps(LAMBDA s, n : LET left == BufferSize - (Last(s) % BufferSize)
                          at == IF left < n THEN Last(s) + left ELSE Last(s)
                      IN Append(Front(s), at) \o <<at + n>>,
        <<0>>, draws)

\* The key schedules are those of FIPS 197; a run covers its data with consecutive
\* counters, also when they wrap, and counts its full blocks; the generator takes a new
\* key after CtrLimit full blocks, however requests and runs divide them, and a request
\* goes on after the last full block of the ones before;
\* the numbers of RandGen come from disjoint places of that stream; and a seeder feeds
\* the generator only if it has all 32 bytes.
CiphersMatch ==
  /\ Returned("keys") =>
       /\ ret.sk = IF Len(arg) = 8 THEN <<>> ELSE RefExpanded(arg)
       /\ Len(ret.dec) = Len(ret.sk) /\ \A u \in DOMAIN ret.sk :
            ret.dec[u] = IF u \in {1, Len(ret.sk)} THEN ret.sk[Len(ret.sk) + 1 - u] ELSE aesimc(ret.sk[Len(ret.sk) + 1 - u])
  /\ Returned("ctr") =>
       ret = [data |-> XorBytes(arg.data, RefStream(RefExpanded(arg.key), arg.iv, arg.cc, Len(arg.data))),
              cc |-> u32(arg.cc + Len(arg.data) \div 16)]
  /\ Returned("ctr_drbg") =>
       ret.buf = RefRequests(br_aesctr_drbg_init(arg.seed).sk, arg.requests)
  /\ Returned("rand") =>
       LET places == Places(arg.draws)
           stream == RefGenerated(br_aesctr_drbg_init(arg.seed).sk, (Last(places) + 15) \div 16)
       IN \A i \in DOMAIN arg.draws :
            LET bytes == SubSeq(stream, places[i] + 1, places[i] + arg.draws[i])
            IN ret.x[i] = IF arg.draws[i] = 1 THEN <<bytes[1] % 2>> ELSE bytes
  /\ Returned("seed") =>
       /\ ret.ok \/ ret.ctx = Seeds0
       /\ arg.rdrand => ret.ok = \A u \in 1 .. 8 : arg.fails[u] < 10
       /\ ~arg.rdrand /\ ret.ok =>
            arg.open /\ FoldLeft(LAMBDA n, a : n + IF a \in {<<"EINTR">>, <<"error">>} THEN 0 ELSE Len(a), 0, arg.reads) >= 32

\* However the calls cut the additional data and the text, GCM makes the ciphertext and
\* the tag of SP 800-38D, opens what it sealed and refuses another tag; an object that
\* was stored enciphered is read back as it was, and one whose bytes, tag or nonce
\* differ is never read.  The enclave's variant reports a missing pointer whose bytes it
\* would need, touches nothing then, and clears what it could not authenticate.
GcmMatches ==
  /\ Returned("gcm") =>
       LET g == RefGcm(RefExpanded(arg.key), arg.iv, arg.aad, arg.plain)
       IN /\ ret.data = g.data /\ ret.tag = g.tag /\ ret.part = SubSeq(g.tag, 1, 7)
          /\ ret.opened = arg.plain /\ ret.ok = 1 /\ ret.bad = 0
  /\ Returned("wrap") =>
       /\ ret.fresh = IF arg.spoil = "none" THEN [out |-> arg.in, aborted |-> FALSE]
                      ELSE [out |-> Fill(0, Len(arg.in)), aborted |-> TRUE]
       /\ ret.plain = arg.in
       /\ ret.hash = SubSeq(RefHash(br_sha256_vtable, Text(16, 1) \o arg.in), 1, 8)
  /\ Returned("enclave_gcm") =>
       LET needed == {"key", "iv", "mac"} \cup (IF arg.p.src_len > 0 THEN {"src", "dst"} ELSE {})
                       \cup (IF arg.p.aad_len > 0 THEN {"aad"} ELSE {})
           full == needed \cap arg.missing = {}
           g == RefGcm(RefExpanded(arg.p.key), arg.p.iv, Taking(arg.p.aad, arg.p.aad_len), Taking(arg.p.src, arg.p.src_len))
       IN IF ~full THEN /\ ret.sealed.mac = arg.p.mac
                        /\ \A r \in {ret.sealed, ret.opened} : r.status = "INVALID_PARAMETER" /\ r.dst = arg.p.dst
          ELSE /\ ret.sealed.status = "SUCCESS" /\ ret.sealed.mac = g.tag
               /\ ret.opened.status = IF arg.spoil THEN "MAC_MISMATCH" ELSE "SUCCESS"
               /\ arg.p.src_len > 0 => /\ ret.sealed.dst = g.data
                                      /\ ret.opened.dst = IF arg.spoil THEN Fill(0, Len(g.data)) ELSE arg.p.src

\* The limb operations compute modulo 2^(5L) - Excess with a unique contracted form, the
\* exponent of crecip is p - 2 for p = 2^255 - 19, the ladder multiplies points as
\* repeated addition does, and both sides of an agreement get the same secret.
CurveAgrees ==
  /\ Returned("limbs") =>
       LET a == ValueOf(arg.f)  b == ValueOf(arg.g)
       IN /\ ret.contracted = a /\ ValueOf(ret.expanded) = a
          /\ ValueOf(ret.product) = ModularProduct(a, b) /\ ValueOf(ret.square) = ModularProduct(a, a)
          /\ ValueOf(ret.difference) = (b - a) % Modulus /\ ValueOf(ret.sum) = (a + b) % Modulus
          /\ ValueOf(ret.multiple) = (13 * a) % Modulus
          /\ ret.swapped = IF arg.f[1] % 2 = 1 THEN <<arg.g, arg.f>> ELSE <<arg.f, arg.g>>
  /\ Returned("ladder") =>
       LET p == PointMultiple(arg.n, PointAt(arg.x))
       IN IF p = <<>> THEN ret.z = 0 ELSE ret.z # 0 /\ Mul(ret.x, Inverse25519(ret.z)) = p[1]
  /\ Returned("agree") => ret.ab = ret.ba /\ ret.exponent = (0 .. 254) \ {2, 4}

\* The values a body declares for f, repeated as often as declared; an unbounded one as
\* often as there are calls.
Declared(ops) ==
  FlattenSeq([i \in DOMAIN ops |->
    IF ops[i].op = "mock" THEN <<>>
    ELSE [k \in 1 .. IF ops[i].count = ALWAYS THEN MaxBody ELSE ops[i].count |-> ops[i].value]])
MocksIn(ops) == Cardinality({i \in DOMAIN ops : ops[i].op = "mock"})
\* Declared values that are neither used up nor, if unbounded, used and last.
Unused(ops) ==
  LET used == MocksIn(ops)
      Ahead(i) == Len(Declared(SubSeq(ops, 1, i - 1)))
  IN \E i \in DOMAIN ops :
       /\ ops[i].op = "will_return"
       /\ \/ used < Ahead(i) + IF ops[i].count = ALWAYS THEN 1 ELSE ops[i].count
          \/ \E j \in 1 .. i - 1 : ops[j].op = "will_return" /\ ops[j].count = ALWAYS

Plain(tests) == \A i \in DOMAIN tests : tests[i].body \in {<<>>, <<[op |-> "malloc"], [op |-> "free"]>>}
TypesOf(tests, type) == {i \in DOMAIN tests : tests[i].type = type}
FailsOf(tests) == {i \in TypesOf(tests, "test") : \E k \in DOMAIN tests[i].body : tests[i].body[k].op = "assert"}

Before(tests, i, type) == Cardinality({j \in TypesOf(tests, type) : j <= i})
Balanced(tests) == Cardinality(TypesOf(tests, "setup")) = Cardinality(TypesOf(tests, "teardown"))
Unmatched(tests) == \E i \in DOMAIN tests : Before(tests, i, "teardown") > Before(tests, i, "setup")
IsFixture(tests) == [i \in DOMAIN tests |-> tests[i].type] = <<"setup", "test", "teardown">>

\* The size a set of expected values is read with is the set's.  expect_set stores none.
SizeFits == OfSet(arg.check) => arg.block.size = Len(arg.check.data)

\* Mocked values come back in the order and as often as declared, and a test passes only
\* if none is missing or left over; parameters are checked in the same way, sets of
\* values only where SizeFits.  A run of
\* tests reports every test that fails, by name, and counts none twice, nor a teardown
\* that fails after its test; it exits early only if a teardown has no setup or a failed
\* function left a block behind, and comes back with balanced setups and teardowns
\* and without a block left on the heap.
TestsReported ==
  /\ Returned("mock") =>
       LET ops == arg.body
           valid == \A i \in DOMAIN ops : ops[i].op = "mock" \/ ops[i].count # 0
           inTime == \A i \in DOMAIN ops :
                       ops[i].op = "mock" => MocksIn(SubSeq(ops, 1, i)) <= Len(Declared(SubSeq(ops, 1, i)))
       IN /\ ret.rc = One(~ (valid /\ inTime) \/ Unused(ops))
          /\ ret.rc = 0 => ret.s.returned = SubSeq(Declared(ops), 1, MocksIn(ops))
  /\ Returned("expect") /\ SizeFits =>
       ret.rc = One(\/ (Range(arg.values) \ arg.check.accepts) # {}
                    \/ IF arg.count = ALWAYS THEN arg.values = <<>> ELSE Len(arg.values) # arg.count)
  /\ Returned("tests") /\ ~ ret.s.undefined =>
       /\ Plain(arg) =>
            /\ ret.s.exited = Unmatched(arg)
            /\ ret.s.exited \/ ret.total_failed = IF Balanced(arg) THEN 0 ELSE -1
       /\ ~ ret.s.exited =>
            /\ ret.s.blocks = <<>>
            /\ IsFixture(arg) /\ arg[1].body = <<>> => ret.total_failed <= 1
            /\ ret.total_failed >= 0 =>
                 LET names == [i \in 0 .. ret.total_failed - 1 |-> ret.failed_names[i]]
                 IN /\ Balanced(arg)
                    /\ FailsOf(arg) \subseteq Range(names) /\ Range(names) \subseteq DOMAIN arg
                    /\ \A i, j \in DOMAIN names : names[i] = names[j] => i = j
================================================================================
