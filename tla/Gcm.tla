---------------------------------- MODULE Gcm ----------------------------------
(***************************************************************************)
(* GHASH with the carryless multiplication (hash/ghash_pclmul.c) and the   *)
(* GCM mode (aead/gcm.c) of the vendored BearSSL.  A polynomial is the set *)
(* of its bits.  Of a 128-bit register that holds a 64-bit value only the  *)
(* low half is modelled; HalfBits is 64 for bytes of eight bits.           *)
(***************************************************************************)
EXTENDS Ciphers

HalfBits == 8 * ByteBits
Lo(x) == {b \in x : b < HalfBits}
Hi(x) == {b - HalfBits : b \in x \ Lo(x)}
Join(hi, lo) == {b + HalfBits : b \in hi} \cup lo
slli(x, n) == Lo({b + n : b \in x})
srli(x, n) == {b - n : b \in {c \in x : c >= n}}
Xor4(a, b, c, d) == SymDiff(SymDiff(a, b), SymDiff(c, d))

(* A register loaded from 16 bytes and byte-swapped, and back: the last    *)
(* byte is the least significant one.                                      *)
Load(bytes) ==
  {b \in 0 .. 2 * HalfBits - 1 : (bytes[16 - (b \div ByteBits)] \div 2^(b % ByteBits)) % 2 = 1}

Store(x) ==
  [i \in 1 .. 16 |->
     MapThenSumSet(LAMBDA b : IF ByteBits * (16 - i) + b \in x THEN 2^b ELSE 0, 0 .. ByteBits - 1)]

clmul(x, y) ==
  {k \in 0 .. 2 * HalfBits - 2 : Cardinality({i \in x : k - i \in y}) % 2 = 1}

pclmulqdq00(x, y) == clmul(Lo(x), Lo(y))

pclmulqdq11(x, y) == clmul(Hi(x), Hi(y))

BK(kw) == SymDiff(Lo(kw), Hi(kw))

(* x = <<x0, x1, x2, x3>>, x0 the most significant.                        *)
SL_256(x) ==
  LET Carry(a, b) == slli(a, 1) \cup srli(b, HalfBits - 1)
  IN  <<Carry(x[1], x[2]), Carry(x[2], x[3]), Carry(x[3], x[4]), slli(x[4], 1)>>

(* The three shifted copies a word leaves in itself and in its neighbour.  *)
FoldDown(x) == Xor4(x, srli(x, 1), srli(x, 2), srli(x, 7))
FoldOver(x) == SymDiff(SymDiff(slli(x, HalfBits - 1), slli(x, HalfBits - 2)), slli(x, HalfBits - 7))

Reduced(x, x2) == <<SymDiff(x[1], FoldDown(x2)), SymDiff(SymDiff(x[2], FoldDown(x[4])), FoldOver(x2))>>

REDUCE_F128(x) == Reduced(x, SymDiff(x[3], FoldOver(x[4])))

(* From the products of the high halves, of the sums and of the low        *)
(* halves: the tail of every multiplication.                               *)
Tail128(z1, z2, z3) ==
  LET x == REDUCE_F128(SL_256(<<Hi(z1), SymDiff(Lo(z1), Hi(z2)), SymDiff(Lo(z2), Hi(z3)), Lo(z3)>>))
  IN  Join(x[1], x[2])

Combine(t1, tx, t3) == Tail128(t1, SymDiff(tx, SymDiff(t1, t3)), t3)

SQUARE_F128(kw) == Tail128(pclmulqdq11(kw, kw), {}, pclmulqdq00(kw, kw))

Times(aw, hw) ==
  Combine(pclmulqdq11(aw, hw), clmul(BK(aw), BK(hw)), pclmulqdq00(aw, hw))

(* Four blocks at once, against the powers hs = <<h4, h3, h2, h1>>.        *)
FourTimes(yw, a, hs) ==
  LET aw(n) == IF n = 1 THEN SymDiff(a[1], yw) ELSE a[n]
      Sum(P(_)) == Xor4(P(1), P(2), P(3), P(4))
  IN  Combine(Sum(LAMBDA n : pclmulqdq11(aw(n), hs[n])),
              Sum(LAMBDA n : clmul(BK(aw(n)), BK(hs[n]))),
              Sum(LAMBDA n : pclmulqdq00(aw(n), hs[n])))

PowersFrom(h1, h2) == <<SQUARE_F128(h2), Times(h1, h2), h2, h1>>
Powers(h1) == PowersFrom(h1, SQUARE_F128(h1))

(* Block n of the data, padded with zeros.                                 *)
Block(data, n) ==
  Load([i \in 1 .. 16 |-> IF 16 * n + i <= Len(data) THEN data[16 * n + i] ELSE 0])

(* The runs of four blocks, and the rest of the data, block by block.      *)
RECURSIVE Fours(_, _, _)
Fours(yw, hs, data) ==
  IF Len(data) < 64 THEN <<yw, data>>
  ELSE Fours(FourTimes(yw, [n \in 1 .. 4 |-> Block(data, n - 1)], hs), hs, SubSeq(data, 65, Len(data)))

RECURSIVE Ones(_, _, _)
Ones(yw, h1w, data) ==
  IF data = <<>> THEN yw
  ELSE Ones(Times(SymDiff(Block(data, 0), yw), h1w), h1w, SubSeq(data, 17, Len(data)))

Hashed(left, h1w) == Store(Ones(left[1], h1w, left[2]))

br_ghash_pclmul(y, h, data) ==
  The({Hashed(left, Load(h)) : left \in {Fours(Load(y), Powers(Load(h)), data)}})
--------------------------------------------------------------------------------
(* A context holds the key, h, the nonce, the counters, the running hash,  *)
(* the lengths so far and a buffer of one block.                           *)
Zeros(n) == [i \in 1 .. n |-> 0]

br_gcm_init(sk) ==
  [sk |-> sk, h |-> br_aes_x86ni_ctr_run(sk, Zeros(12), 0, Zeros(16)).data,
   j0_1 |-> Zeros(12), j0_2 |-> 0, jc |-> 0, y |-> Zeros(16),
   count_aad |-> 0, count_ctr |-> 0, buf |-> Fill(\hA7, 16)]

Bits(count) == count * ByteBits

(* The nonce and counter to start from: iv itself if it has 12 bytes, else *)
(* its hash.                                                               *)
FirstBlock(ctx, iv) ==
  IF Len(iv) = 12 THEN iv \o br_enc32be(1)
  ELSE br_ghash_pclmul(br_ghash_pclmul(Zeros(16), ctx.h, iv), ctx.h, Zeros(8) \o br_enc64be(Bits(Len(iv))))

Reset(ctx, j) ==
  [ctx EXCEPT !.j0_1 = SubSeq(j, 1, 12), !.j0_2 = br_dec32be(SubSeq(j, 13, 16)),
              !.jc = u32(br_dec32be(SubSeq(j, 13, 16)) + 1), !.y = Zeros(16), !.count_aad = 0, !.count_ctr = 0]

br_gcm_reset(ctx, iv) == Reset(ctx, FirstBlock(ctx, iv))

(* buf with data written from place ptr on.                                *)
Over(buf, ptr, data) ==
  [i \in 1 .. 16 |-> IF i \in ptr + 1 .. ptr + Len(data) THEN data[i - ptr] ELSE buf[i]]

(* The aligned part: whole blocks are hashed, the rest is kept.            *)
Aligned(ctx, data) ==
  LET dlen == Len(data) - (Len(data) % 16)
  IN  [ctx EXCEPT !.y = br_ghash_pclmul(@, ctx.h, SubSeq(data, 1, dlen)),
                  !.buf = Over(@, 0, SubSeq(data, dlen + 1, Len(data))),
                  !.count_aad = @ + Len(data)]

(* The part of the data, none if nothing is pending, that completes a      *)
(* block or comes closer to that.                                          *)
Pending(count, data) == IF count % 16 = 0 THEN 0 ELSE Min({Len(data), 16 - (count % 16)})
Completing(ctx, data, clen) ==
  LET ptr  == ctx.count_aad % 16
      full == Over(ctx.buf, ptr, SubSeq(data, 1, clen))
  IN  [ctx EXCEPT !.buf = full, !.count_aad = @ + clen,
                  !.y = IF ptr > 0 /\ ptr + clen = 16 THEN br_ghash_pclmul(@, ctx.h, full) ELSE @]

br_gcm_aad_inject(ctx, data) ==
  LET clen == Pending(ctx.count_aad, data)
  IN  Aligned(Completing(ctx, data, clen), SubSeq(data, clen + 1, Len(data)))

br_gcm_flip(ctx) ==
  LET ptr == ctx.count_aad % 16
  IN  IF ptr = 0 THEN ctx
      ELSE [ctx EXCEPT !.y = br_ghash_pclmul(@, ctx.h, SubSeq(ctx.buf, 1, ptr))]

(* The stored keystream from place ptr on covers x; the buffer keeps the   *)
(* encrypted bytes.                                                        *)
CoverPart(ctx, encrypt, ptr, x) ==
  LET y == [u \in 1 .. Len(x) |-> xor(x[u], ctx.buf[ptr + u])]
  IN  [ctx |-> [ctx EXCEPT !.buf = Over(@, ptr, IF encrypt THEN y ELSE x),
                           !.count_ctr = @ + Len(x)],
       data |-> y]

(* Full blocks; what is hashed is the ciphertext.                          *)
Ran(ctx, encrypt, x, run) ==
  [ctx |-> [ctx EXCEPT !.y = br_ghash_pclmul(@, ctx.h, IF encrypt THEN run.data ELSE x),
                       !.jc = run.cc, !.count_ctr = @ + Len(x)],
   data |-> run.data]
FullBlocks(ctx, encrypt, x) ==
  The({Ran(ctx, encrypt, x, run) : run \in {br_aes_x86ni_ctr_run(ctx.sk, ctx.j0_1, ctx.jc, x)}})

(* The last partial block starts a new buffer of keystream.                *)
NewStream(ctx, run) == [ctx EXCEPT !.buf = run.data, !.jc = run.cc]
PartialBlock(ctx, encrypt, x) ==
  IF x = <<>> THEN [ctx |-> ctx, data |-> <<>>]
  ELSE The({CoverPart(NewStream(ctx, run), encrypt, 0, x) :
            run \in {br_aes_x86ni_ctr_run(ctx.sk, ctx.j0_1, ctx.jc, Zeros(16))}})

(* r, the data so far and its context, followed by the rest of the run.    *)
Joined(r, next) == [next EXCEPT !.data = r.data \o @]
Ending(r, encrypt, x) == Joined(r, PartialBlock(r.ctx, encrypt, x))
AlignedRun(r, encrypt, x) ==
  LET dlen == Len(x) - (Len(x) % 16)
  IN  The({Joined(r, Ending(full, encrypt, SubSeq(x, dlen + 1, Len(x)))) :
           full \in {FullBlocks(r.ctx, encrypt, SubSeq(x, 1, dlen))}})

(* A completed block is hashed.                                            *)
Completed(r, full) ==
  IF full THEN [r EXCEPT !.ctx = [@ EXCEPT !.y = br_ghash_pclmul(@, r.ctx.h, r.ctx.buf)]] ELSE r

(* A run that hashes the completed block only when it encrypts.            *)
HashesOwnOnly(ctx, encrypt, x) ==
  LET ptr  == ctx.count_ctr % 16
      clen == Pending(ctx.count_ctr, x)
  IN  AlignedRun(Completed(CoverPart(ctx, encrypt, ptr, SubSeq(x, 1, clen)),
                           encrypt /\ ptr > 0 /\ ptr + clen = 16),
                 encrypt, SubSeq(x, clen + 1, Len(x)))

br_gcm_run(ctx, encrypt, x) ==
  LET ptr  == ctx.count_ctr % 16
      clen == Pending(ctx.count_ctr, x)
  IN  AlignedRun(Completed(CoverPart(ctx, encrypt, ptr, SubSeq(x, 1, clen)), ptr > 0 /\ ptr + clen = 16),
                 encrypt, SubSeq(x, clen + 1, Len(x)))

HashOfBuffer(ctx, ptr) ==
  IF ptr > 0 THEN br_ghash_pclmul(ctx.y, ctx.h, SubSeq(ctx.buf, 1, ptr)) ELSE ctx.y

br_gcm_get_tag(ctx) ==
  The({br_aes_x86ni_ctr_run(ctx.sk, ctx.j0_1, ctx.j0_2, tag).data :
       tag \in {br_ghash_pclmul(HashOfBuffer(ctx, ctx.count_ctr % 16), ctx.h,
                                br_enc64be(Bits(ctx.count_aad)) \o br_enc64be(Bits(ctx.count_ctr)))}})

br_gcm_get_tag_trunc(ctx, len) == SubSeq(br_gcm_get_tag(ctx), 1, len)

Differing(t, tag, len) == Steps(LAMBDA x, u : or(x, xor(t[u + 1], tag[u + 1])), 0, Loop(len))

br_gcm_check_tag_trunc(ctx, tag, len) == The({EQ0(Differing(t, tag, len)) : t \in {br_gcm_get_tag(ctx)}})

br_gcm_check_tag(ctx, tag) == br_gcm_check_tag_trunc(ctx, tag, 16)
================================================================================
