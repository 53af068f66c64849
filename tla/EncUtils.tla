------------------------------- MODULE EncUtils --------------------------------
(***************************************************************************)
(* What the sorting library makes of the vendored ciphers: the enclave     *)
(* branch of osort/common/encutils.cpp and the wrappers of encrypted.hpp,  *)
(* which hold an object's bytes enciphered.  KEY has 16 bytes and is used  *)
(* as a key of 32: Beyond is what lies behind it in memory.                *)
(*                                                                         *)
(* What the enclave of sgxsd-enclave.c makes of the vendored ciphers and   *)
(* digests: authenticated encryption that checks its pointers, a hash and  *)
(* an HMAC over several buffers, and the rounds of a key derivation.  A    *)
(* pointer to bytes is the sequence of these bytes; its length is given    *)
(* beside it, since the two need not agree when it is Null.  The clearing  *)
(* of the stack and of local buffers is left out.                          *)
(***************************************************************************)
EXTENDS Gcm

CONSTANTS
  BufferSize,   \* bytes in the buffer of a generator: 4096
  IO_ROUND,     \* rounds of each encryption, more than one to measure them
  Beyond        \* the sixteen bytes behind KEY

KEY == Fill(\h41, 16)

SgxKey == KEY \o Beyond

\* Null pointers, which the callers do not pass, are left out.
Injected(c, aad) == IF aad = <<>> THEN c ELSE br_gcm_aad_inject(c, aad)
RunOver(c, encrypt, src) == IF src = <<>> THEN [ctx |-> c, data |-> <<>>] ELSE br_gcm_run(c, encrypt, src)
Ended(encrypt, r, mac) ==
  IF encrypt THEN [ok |-> TRUE, dst |-> r.data, mac |-> br_gcm_get_tag(r.ctx)]
  ELSE IF br_gcm_check_tag(r.ctx, mac) = 1 THEN [ok |-> TRUE, dst |-> r.data, mac |-> mac]
  ELSE [ok |-> FALSE, dst |-> Fill(0, Len(r.data)), mac |-> mac]

sgxsd_aes_gcm_run(encrypt, key, src, iv, aad, mac) ==
  The({Ended(encrypt, r, mac) :
    r \in {The({RunOver(c, encrypt, src) :
      c \in {br_gcm_flip(Injected(The({br_gcm_reset(br_gcm_init(sk), iv) : sk \in {br_aes_x86ni_ctr_init(key)}}), aad))}})}})

aes_256_gcm_encrypt(plaintext, key, iv) == sgxsd_aes_gcm_run(TRUE, key, plaintext, iv, <<>>, <<>>)

aes_256_gcm_decrypt(ciphertext, key, iv, tag) == sgxsd_aes_gcm_run(FALSE, key, ciphertext, iv, <<>>, tag)

sgxsd_aes_ctr_run(encrypt, key, src, iv) ==
  br_aes_x86ni_ctr_run(br_aes_x86ni_ctr_init(key), iv, 0, src).data

aes_256_ctr_encrypt(plaintext, key, iv) == sgxsd_aes_ctr_run(TRUE, key, plaintext, iv)

aes_256_ctr_decrypt(ciphertext, key, iv) == sgxsd_aes_ctr_run(FALSE, key, ciphertext, iv)
--------------------------------------------------------------------------------
(* Encrypted and FreshEncrypted.  ivs: one for each round. *)

Encrypt(in, ivs) ==
  Steps(LAMBDA e, r : [data |-> aes_256_ctr_encrypt(in, SgxKey, ivs[r + 1]), iv |-> ivs[r + 1]],
        [data |-> <<>>, iv |-> <<>>], Loop(IO_ROUND))

Decrypt(e) == Steps(LAMBDA o, r : aes_256_ctr_decrypt(e.data, SgxKey, e.iv), <<>>, Loop(IO_ROUND))

Wrapped(c) == [data |-> c.dst, tag |-> c.mac]
FreshEncrypt(in, iv) ==
  Steps(LAMBDA e, r : Wrapped(aes_256_gcm_encrypt(in, SgxKey, iv)), [data |-> <<>>, tag |-> <<>>], Loop(IO_ROUND))

\* A failed round aborts.
Unwrapped(d) == [out |-> d.dst, aborted |-> ~ d.ok]
FreshDecrypt(e, iv) ==
  Steps(LAMBDA o, r : IF o.aborted THEN o ELSE Unwrapped(aes_256_gcm_decrypt(e.data, SgxKey, iv, e.tag)),
        [out |-> <<>>, aborted |-> FALSE], Loop(IO_ROUND))
--------------------------------------------------------------------------------
(* RandGen: a generator and a buffer of its output. *)

Buffered(d) == [ctx |-> d.ctx, buffer |-> d.buf, idx |-> 0]
Refill(g) == Buffered(br_aesctr_drbg_generate(g.ctx, BufferSize))

RandGen(seed) == Refill([ctx |-> br_aesctr_drbg_init(seed), buffer |-> <<>>, idx |-> 0])

\* rand64, rand32 and rand1 draw n = 8, 4 and 1 bytes; rand1 gives the low bit of its.
Drawn(g, n) == [g |-> [g EXCEPT !.idx = @ + n], out |-> SubSeq(g.buffer, g.idx + 1, g.idx + n)]
Low(d, n) == IF n = 1 THEN [d EXCEPT !.out = <<@[1] % 2>>] ELSE d

rand(g, n) == Low(Drawn(IF g.idx > BufferSize - n THEN Refill(g) ELSE g, n), n)

\* The stand-in for a pseudorandom permutation without OpenSSL.
prp(shift, val) == u32(val + shift)

\* The library's hash is external; it is fed the salt first.
secure_hash_with_salt(data, salt) ==
  SubSeq(out(update(update(init(br_sha256_vtable), salt), data)), 1, 8)
--------------------------------------------------------------------------------
(* rand/sysrng.c.  answers: what each call of the processor's generator, or *)
(* of read, gives.                                                          *)

\* Ten tries for each of the eight words; a try is -1 if it failed.
Try(answers, s, j) ==
  IF s.got THEN s ELSE [s EXCEPT !.at = @ + 1, !.got = answers[s.at] >= 0, !.x = answers[s.at]]
WordRead(s, w) == [at |-> w.at, ok |-> w.got, tmp |-> IF w.got THEN s.tmp \o br_enc32le(w.x) ELSE s.tmp]
ReadWord(answers, s, u) ==
  IF ~ s.ok THEN s
  ELSE WordRead(s, Steps(LAMBDA w, j : Try(answers, w, j), [at |-> s.at, got |-> FALSE, x |-> 0], Loop(10)))
Seeded(ctx, s) ==
  [ok |-> s.ok, ctx |-> IF s.ok THEN br_aesctr_drbg_update(ctx, s.tmp) ELSE ctx, tries |-> s.at - 1]

seeder_rdrand(ctx, answers) ==
  Seeded(ctx, Steps(LAMBDA s, u : ReadWord(answers, s, u), [at |-> 1, ok |-> TRUE, tmp |-> <<>>], Loop(8)))

\* An answer is a run of bytes, "EINTR" or "error"; reads go on until the buffer is
\* full, also past an end of file.
ReadSome(s, a) ==
  IF s.over \/ Len(s.tmp) = 32 \/ a = <<"EINTR">> THEN s
  ELSE IF a = <<"error">> THEN [s EXCEPT !.over = TRUE]
  ELSE [s EXCEPT !.tmp = SubSeq(@ \o a, 1, Min({Len(@ \o a), 32}))]
SeededWith(ctx, tmp) ==
  [ok |-> Len(tmp) = 32, ctx |-> IF Len(tmp) = 32 THEN br_aesctr_drbg_update(ctx, tmp) ELSE ctx]

seeder_urandom(ctx, opened, answers) ==
  SeededWith(ctx, Steps(ReadSome, [over |-> ~ opened, tmp |-> <<>>], answers).tmp)

br_prng_seeder_system(rdrand_supported) == IF rdrand_supported THEN "rdrand" ELSE "urandom"

--------------------------------------------------------------------------------
(* sgxsd-enclave.c *)

Null == <<-1>>

InvalidParameter(p) ==
  \/ Null \in {p.key, p.iv, p.mac}
  \/ Null \in {p.src, p.dst} /\ p.src_len # 0
  \/ p.aad = Null /\ p.aad_len # 0

\* dst, of src_len bytes unless it is Null, is not touched if there is nothing to do.
Reported(p, r) ==
  [status |-> IF r.ok THEN "SUCCESS" ELSE "MAC_MISMATCH", dst |-> IF p.src_len = 0 THEN p.dst ELSE r.dst,
   mac |-> r.mac]

enclave_aes_gcm_run(encrypt, p) ==
  IF InvalidParameter(p) THEN [status |-> "INVALID_PARAMETER", dst |-> p.dst, mac |-> p.mac]
  ELSE Reported(p, sgxsd_aes_gcm_run(encrypt, p.key, IF p.src_len = 0 THEN <<>> ELSE p.src, p.iv,
                                     IF p.aad_len = 0 THEN <<>> ELSE p.aad, p.mac))

sgxsd_aes_gcm_encrypt(p) == enclave_aes_gcm_run(TRUE, p)

sgxsd_aes_gcm_decrypt(p) == enclave_aes_gcm_run(FALSE, p)

--------------------------------------------------------------------------------
sgxsd_enclave_sha256(bufs) == out(Steps(update, init(br_sha256_vtable), bufs))

key_pad(key, byte) ==
  [i \in 1 .. 64 |-> IF i <= Len(key) THEN xor(byte % 2^ByteBits, key[i]) ELSE byte % 2^ByteBits]

\* The key is the first buffer; the pads replace it.
Mac(key, bufs) ==
  sgxsd_enclave_sha256(<<key_pad(key, \h5C), sgxsd_enclave_sha256(<<key_pad(key, \h36)>> \o bufs)>>)

sgxsd_enclave_hmac_sha256(bufs) ==
  Mac(IF Len(Head(bufs)) > 64 THEN sgxsd_enclave_sha256(<<Head(bufs)>>) ELSE Head(bufs), Tail(bufs))

\* n is a byte.  The hash goes where the data of the second buffer was, once it is read.
sgxsd_enclave_ra_hkdf_round(prk, buf) ==
  LET n == (buf.n + 1) % 2^ByteBits
  IN [n |-> n, t_n |-> sgxsd_enclave_hmac_sha256(<<prk, IF n = 1 THEN <<n>> ELSE Append(buf.t_n, n)>>)]
================================================================================
