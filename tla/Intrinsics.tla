------------------------------- MODULE Intrinsics ------------------------------
(***************************************************************************)
(* Conditional moves, swaps and comparisons of objects of any size         *)
(* (mov_intrinsics.hpp, cmp_intrinsics.hpp) and the wrappers of elements   *)
(* that use them (sort_def.hpp).  An object is the sequence of its bytes,  *)
(* a byte has two bits; isa is the instruction set of the build: 3 for     *)
(* AVX512VL, 2 for AVX2, 1 for SSE2 and 0 for none.  p is a pair of        *)
(* objects [a, b], at an offset from 0.                                    *)
(***************************************************************************)
EXTENDS Utils, Bitwise

CONSTANT TagBits   \* of TaggedT::tag, the dummy flag included: 64

Load(x, at, size) == SubSeq(x, at + 1, at + size)
Store(x, at, bytes) == SubSeq(x, 1, at) \o bytes \o SubSeq(x, at + Len(bytes) + 1, Len(x))

\* test; cmovnz
CMOV(cond, guy1, guy2) == IF cond THEN guy2 ELSE guy1

\* CXCHG1, CXCHG2, CXCHG4 and CXCHG8
CXCHG(cond, p, at, size) ==
  LET A == Load(p.a, at, size)
      B == Load(p.b, at, size)
      C == A
  IN [a |-> Store(p.a, at, CMOV(cond, A, B)), b |-> Store(p.b, at, CMOV(cond, B, C))]

Mask(cond) == IF cond THEN 3 ELSE 0

\* One vector register of each object: xor with the masked difference, or, with
\* AVX512VL, a blend of each by the other.
CXCHG_vector(isa, cond, p, at, size) ==
  LET x == Load(p.a, at, size)
      y == Load(p.b, at, size)
      temp == [i \in 1 .. size |-> (x[i] ^^ y[i]) & Mask(cond)]
      Blend(u, v) == IF cond THEN v ELSE u
      NewA == IF isa = 3 THEN Blend(x, y) ELSE [i \in 1 .. size |-> x[i] ^^ temp[i]]
      NewB == IF isa = 3 THEN Blend(y, x) ELSE [i \in 1 .. size |-> y[i] ^^ temp[i]]
  IN [a |-> Store(p.a, at, NewA), b |-> Store(p.b, at, NewB)]

\* Where the part of an object of sz bytes that has w bytes lies, if it has one.
HasPart(sz, w) == sz % (2 * w) >= w
PartAt(sz, w) == 2 * w * (sz \div (2 * w))

RECURSIVE CXCHG_internal(_, _, _, _, _)
CXCHG_internal(isa, cond, p, at, sz) ==
  LET Halves(q, off, w) ==
        CXCHG_internal(isa, cond, CXCHG_internal(isa, cond, q, off, w), off + w, w)
      by32 == IF sz < 32 THEN p
              ELSE IF isa >= 2 THEN CXCHG_vector(isa, cond, p, at, 32) ELSE Halves(p, at, 16)
      Part(q, w) == IF ~HasPart(sz, w) THEN q
                    ELSE IF w < 16 THEN CXCHG(cond, q, at + PartAt(sz, w), w)
                    ELSE IF isa >= 1 THEN CXCHG_vector(isa, cond, q, at + PartAt(sz, w), 16)
                    ELSE Halves(q, at + PartAt(sz, w), 8)
  IN IF sz = 64 THEN Halves(p, at, 32) ELSE Steps(Part, by32, <<16, 8, 4, 2, 1>>)

\* An object of sz bytes in pieces of 64 and a rest.
RECURSIVE swapFrom(_, _, _, _, _)
swapFrom(isa, mov, p, at, sz) ==
  IF sz - at >= 64 THEN swapFrom(isa, mov, CXCHG_internal(isa, mov, p, at, 64), at + 64, sz)
  ELSE IF sz > at THEN CXCHG_internal(isa, mov, p, at, sz - at)
  ELSE p

\* Mutant of obliSwap: the rest is swapped from the start of the object.
obliSwapRestFirst(isa, mov, p, sz) ==
  CXCHG_internal(isa, mov, swapFrom(isa, mov, p, 0, 64 * (sz \div 64)), 0, sz % 64)

obliSwap(isa, mov, p, sz) == swapFrom(isa, mov, p, 0, sz)

--------------------------------------------------------------------------------
\* One register: a blend, or with SSE2 the and, and-not and or with the mask.
CMOV_vector(isa, cond, dest, src, at, size) ==
  LET x == Load(dest, at, size)
      y == Load(src, at, size)
  IN Store(dest, at, IF isa >= 2 /\ size > 16 THEN (IF cond THEN y ELSE x)
                     ELSE [i \in 1 .. size |-> (y[i] & Mask(cond)) | (x[i] & (3 - Mask(cond)))])

RECURSIVE CMOV_internal(_, _, _, _, _, _)
CMOV_internal(isa, cond, dest, src, at, sz) ==
  LET Halves(d, off, w) ==
        CMOV_internal(isa, cond, CMOV_internal(isa, cond, d, src, off, w), src, off + w, w)
      by32 == IF sz < 32 THEN dest
              ELSE IF isa >= 2 THEN CMOV_vector(isa, cond, dest, src, at, 32)
              ELSE Halves(dest, at, 16)
      Part(d, w) ==
        LET off == at + PartAt(sz, w)
        IN IF ~HasPart(sz, w) THEN d
           ELSE IF w < 16 THEN Store(d, off, CMOV(cond, Load(d, off, w), Load(src, off, w)))
           ELSE IF isa >= 1 THEN CMOV_vector(isa, cond, d, src, off, 16)
           ELSE Halves(d, off, 8)
  IN IF sz < 64 THEN Steps(Part, by32, <<16, 8, 4, 2, 1>>)
     ELSE IF isa = 3 THEN CMOV_vector(isa, cond, dest, src, at, 64)
     ELSE Halves(dest, at, 32)

RECURSIVE moveFrom(_, _, _, _, _, _)
moveFrom(isa, mov, dest, src, at, sz) ==
  IF sz - at >= 64
  THEN moveFrom(isa, mov, CMOV_internal(isa, mov, dest, src, at, 64), src, at + 64, sz)
  ELSE IF sz > at THEN CMOV_internal(isa, mov, dest, src, at, sz - at)
  ELSE dest

obliMove(isa, mov, dest, src, sz) == moveFrom(isa, mov, dest, src, 0, sz)

--------------------------------------------------------------------------------
(* Comparisons: the machine is little-endian.                              *)

RECURSIVE Word64(_, _, _)
Word64(x, at, sz) == IF sz = 0 THEN 0 ELSE x[at + 1] + 4 * Word64(x, at + 1, sz - 1)

CE_internal(a, b, at, sz) == Word64(a, at, sz) = Word64(b, at, sz)
CL_internal(a, b, at, sz) == Word64(a, at, sz) < Word64(b, at, sz)

obliCheckEqual(a, b, sz) ==
  LET rem == sz % 8
  IN /\ \A w \in 0 .. sz \div 8 - 1 : CE_internal(a, b, 8 * w, 8)
     /\ rem > 0 => CE_internal(a, b, sz - rem, rem)

obliCheckLess(a, b, sz) ==
  LET rem == ((sz - 1) % 8) + 1
      last == sz - rem
      Next8(s, w) == [less |-> s.less \/ (s.eq /\ CL_internal(a, b, 8 * w, 8)),
                      eq |-> s.eq /\ CE_internal(a, b, 8 * w, 8)]
      s == Steps(Next8, [less |-> FALSE, eq |-> TRUE], Loop(last \div 8))
  IN s.less \/ (s.eq /\ CL_internal(a, b, last, rem))


--------------------------------------------------------------------------------
(* TaggedT: the highest bit of tag is the dummy flag.                      *)

Flag == 2^(TagBits - 1)
setTag(e, tag) == [e EXCEPT !.tag = tag % Flag]
setData(e, v, random) == [e EXCEPT !.v = v, !.tag = random % Flag]
isDummyT(e) == e.tag \div Flag = 1
setDummy(e) == [e EXCEPT !.tag = @ | Flag]
isMarkedT(e, bitMask) == e.tag & bitMask = 0
condChangeMark(e, cond, bitMask) == [e EXCEPT !.tag = IF cond THEN @ ^^ bitMask ELSE @]
getMarkAndUpdate(e, k) ==
  LET realTag == e.tag % Flag
  IN [mark |-> realTag % k, e |-> [e EXCEPT !.tag = (@ & Flag) | (realTag \div k)]]

(* Block *)

setBlock(x, data, tag) == [x EXCEPT !.data = data, !.tag = tag, !.dummyFlag = FALSE]
blockLess(x, y) == x.data < y.data \/ (x.data = y.data /\ x.tag < y.tag)
setAndGetMarked(x, pivot) == [x EXCEPT !.lessFlag = ~blockLess(pivot, x)]
condChangeLess(x, cond) == [x EXCEPT !.lessFlag = @ # cond]
setDummyFlagCond(x, cond, flag) == [x EXCEPT !.dummyFlag = IF cond THEN flag ELSE @]

\* IsSorted, of blocks
IsSortedVector(v) ==
  \A i \in 2 .. Len(v) : blockLess(v[i - 1], v[i]) \/ ~blockLess(v[i], v[i - 1])
================================================================================
