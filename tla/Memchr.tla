------------------------------- MODULE Memchr -------------------------------
(***************************************************************************)
(* The bounded scan memchr(haystack, c, size) of x32/memchr.c, in its      *)
(* three tiers memchr_fallback, memchr_sse2 and memchr_avx2.               *)
(*                                                                         *)
(* The state is the code's own: the pointer haystack (p) and the count     *)
(* size, which every step decrements by what it consumed.  Each action is  *)
(* one iteration of one loop, or one if, of the code.  Memory is           *)
(* abstracted to Hit(a), "the byte at a equals the needle": the input is  *)
(* the start address modulo Line (every alignment tested divides it), the  *)
(* size n, the offset k of the first matching byte (k = n: the byte just   *)
(* past the buffer; k = n + Line: none near it) and whether the bytes      *)
(* after it match too.                                                     *)
(*                                                                         *)
(* The word test (m - lowbits) & ~m & highbits is exact for "some byte of  *)
(* the word matches", and the byte loop that follows it stops at the       *)
(* first such byte; the two are modelled together as Locate.               *)
(***************************************************************************)
EXTENDS Integers, Sequences, SequencesExt

CONSTANTS
  Tiers,    \* the implementations checked: "fallback", "sse2", "avx2"
  SizeT,    \* sizeof(size_t) of the build
  Line,     \* 128: the largest alignment the code tests
  Sizes,    \* the sizes n passed
  Beyond    \* whether the bytes after the first match match as well

ASSUME /\ Tiers \subseteq {"fallback", "sse2", "avx2"}
       /\ SizeT \in {4, 8} /\ Line = 128
       /\ Sizes \subseteq Nat /\ Beyond \subseteq BOOLEAN

NULL == -1

VARIABLES
  tier, start, n, k, beyond,   \* the implementation and the input
  p,        \* haystack
  size,     \* size
  phase,    \* the loop the code is in; "done" once it has returned
  result,   \* the returned pointer
  rd        \* the loads of the last step: [at, w, al]

input == <<tier, start, n, k, beyond>>
vars  == <<input, p, size, phase, result, rd>>

(* The offsets of the first match for a buffer of m bytes.                 *)
Offsets(m) == (0 .. m) \cup {m + Line}

(* The byte at a equals the needle.                                        *)
Hit(a) == a - start = k \/ (a - start > k /\ beyond)

(* What memchr must return: the first matching byte among the n.           *)
Ref == IF k < n THEN start + k ELSE NULL

(* The lanes of the w-byte block at b that match: the bits of a movemask. *)
HitsIn(b, w) == {i \in 0 .. w - 1 : Hit(b + i)}

(* nb consecutive blocks of w bytes from p.                                *)
Blocks(nb, w) == [j \in 1 .. nb |-> p + (j - 1) * w]

AnyHit(bs, w) == \E j \in DOMAIN bs : HitsIn(bs[j], w) # {}

(* Mutant: the returns test the blocks from the last one back.             *)
LocateLast(bs, w) ==
  LET js == {j \in DOMAIN bs : HitsIn(bs[j], w) # {}}
  IN  IF js = {} THEN NULL
      ELSE LET j == Max(js) IN bs[j] + Min(HitsIn(bs[j], w))

(* The returns after a detected group: the first block whose mask is not   *)
(* zero, at trailing_zeros(mask); NULL when none is (the return NULL of    *)
(* the four-vector loops).                                                 *)
Locate(bs, w) ==
  LET js == {j \in DOMAIN bs : HitsIn(bs[j], w) # {}}
  IN  IF js = {} THEN NULL
      ELSE LET j == Min(js) IN bs[j] + Min(HitsIn(bs[j], w))

(* One test of the code: load the blocks, return if one matches, else     *)
(* advance haystack and take the consumed bytes off size.                  *)
Step(bs, w, al, nxt) ==
  /\ rd' = {[at |-> b, w |-> w, al |-> al] : b \in Range(bs)}
  /\ IF AnyHit(bs, w)
       THEN /\ result' = Locate(bs, w)
            /\ phase' = "done"
            /\ UNCHANGED <<p, size>>
       ELSE /\ p' = p + Len(bs) * w
            /\ size' = size - Len(bs) * w
            /\ phase' = nxt
            /\ UNCHANGED result
  /\ UNCHANGED input

(* A loop or if condition that fails: go on to the next phase.            *)
Skip(nxt) ==
  /\ phase' = nxt
  /\ rd' = {}
  /\ UNCHANGED <<input, p, size, result>>

(* The loop ends with size = 0: return NULL.                              *)
ReturnNull ==
  /\ result' = NULL
  /\ phase' = "done"
  /\ rd' = {}
  /\ UNCHANGED <<input, p, size>>

(* The phases each implementation goes through, in order.                 *)
Phases(t) ==
  CASE t = "fallback" -> {"fpeel", "fpair", "btail", "done"}
    [] t = "sse2" -> {"peel4", "word16", "x1", "x2", "xloop", "v16", "btail", "done"}
    [] t = "avx2" -> {"peel4", "word16", "x16", "y2", "yloop", "v16", "btail", "done"}

Init ==
  /\ tier \in Tiers
  /\ start \in 0 .. Line - 1
  /\ n \in Sizes
  /\ k \in Offsets(n)
  /\ beyond \in Beyond
  /\ p = start
  /\ size = n
  /\ phase = IF tier = "fallback" THEN "fpeel" ELSE "peel4"
  /\ result = NULL
  /\ rd = {}

-----------------------------------------------------------------------------
(* memchr_fallback                                                         *)

(* Mutant: the first loop drops its size > 0 test.                         *)
FPeelNoSize ==
  /\ phase = "fpeel"
  /\ IF p % SizeT # 0 THEN Step(<<p>>, 1, FALSE, "fpeel")
                      ELSE Skip("fpair")

(* while (haystack % sizeof(size_t) && size > 0): one byte.                *)
FPeel ==
  /\ phase = "fpeel"
  /\ IF p % SizeT # 0 /\ size > 0 THEN Step(<<p>>, 1, FALSE, "fpeel")
                                  ELSE Skip("fpair")

(* while (size >= 2*sizeof(size_t)): the words m1, m2, then the byte loop  *)
(* to the match.                                                           *)
FPair ==
  /\ phase = "fpair"
  /\ IF size >= 2 * SizeT THEN Step(Blocks(2, SizeT), SizeT, FALSE, "fpair")
                          ELSE Skip("btail")

(* The last loop of every tier: while (size): one byte; return NULL.      *)
BTail ==
  /\ phase = "btail"
  /\ IF size # 0 THEN Step(<<p>>, 1, FALSE, "btail")
                 ELSE ReturnNull

-----------------------------------------------------------------------------
(* memchr_sse2 and memchr_avx2                                              *)

(* while (haystack % 4 && size > 0): one byte.                             *)
Peel4 ==
  /\ phase = "peel4"
  /\ IF p % 4 # 0 /\ size > 0 THEN Step(<<p>>, 1, FALSE, "peel4")
                              ELSE Skip("word16")

(* Mutant: the word loop stops at an 8 boundary.                            *)
Word16Mod8 ==
  /\ phase = "word16"
  /\ LET nxt == IF tier = "sse2" THEN "x1" ELSE "x16" IN
     IF p % 8 # 0 /\ size >= 4 THEN Step(<<p>>, 4, FALSE, "word16")
                               ELSE Skip(nxt)

(* while (haystack % 16 && size >= 4): one uint32_t, then the byte loop.   *)
Word16 ==
  /\ phase = "word16"
  /\ LET nxt == IF tier = "sse2" THEN "x1" ELSE "x16" IN
     IF p % 16 # 0 /\ size >= 4 THEN Step(<<p>>, 4, FALSE, "word16")
                                ELSE Skip(nxt)

(* sse2: if (haystack % 32 && size >= 16): one __m128i.                    *)
X1 ==
  /\ phase = "x1"
  /\ IF p % 32 # 0 /\ size >= 16 THEN Step(<<p>>, 16, TRUE, "x2")
                                 ELSE Skip("x2")

(* Mutant: the two-vector step asks for 16 bytes only.                    *)
X2Size16 ==
  /\ phase = "x2"
  /\ IF p % 64 # 0 /\ size >= 16 THEN Step(Blocks(2, 16), 16, TRUE, "xloop")
                                 ELSE Skip("xloop")

(* sse2: if (haystack % 64 && size >= 32): two __m128i.                    *)
X2 ==
  /\ phase = "x2"
  /\ IF p % 64 # 0 /\ size >= 32 THEN Step(Blocks(2, 16), 16, TRUE, "xloop")
                                 ELSE Skip("xloop")

(* sse2: while (size >= 64): four __m128i, or3 = eqa | eqb | eqc | eqd.   *)
XLoop ==
  /\ phase = "xloop"
  /\ IF size >= 64 THEN Step(Blocks(4, 16), 16, TRUE, "xloop")
                   ELSE Skip("v16")

(* avx2: while (haystack % 64 && size >= 16): one __m128i.                 *)
X16 ==
  /\ phase = "x16"
  /\ IF p % 64 # 0 /\ size >= 16 THEN Step(<<p>>, 16, TRUE, "x16")
                                 ELSE Skip("y2")

(* avx2: if (haystack % 128 && size >= 64): two __m256i.                   *)
Y2 ==
  /\ phase = "y2"
  /\ IF p % 128 # 0 /\ size >= 64 THEN Step(Blocks(2, 32), 32, TRUE, "yloop")
                                  ELSE Skip("yloop")

(* avx2: while (size >= 128): four __m256i.                                *)
YLoop ==
  /\ phase = "yloop"
  /\ IF size >= 128 THEN Step(Blocks(4, 32), 32, TRUE, "yloop")
                    ELSE Skip("v16")

(* Both: while (size >= 16): one __m128i.                                  *)
V16 ==
  /\ phase = "v16"
  /\ IF size >= 16 THEN Step(<<p>>, 16, TRUE, "v16")
                   ELSE Skip("btail")

(* The call has returned.                                                  *)
Returned ==
  /\ phase = "done"
  /\ UNCHANGED vars

Next ==
  \/ FPeel \/ FPair \/ BTail
  \/ Peel4 \/ Word16 \/ X1 \/ X2 \/ XLoop \/ X16 \/ Y2 \/ YLoop \/ V16
  \/ Returned

Spec == Init /\ [][Next]_vars

-----------------------------------------------------------------------------

TypeOK ==
  /\ tier \in Tiers /\ start \in 0 .. Line - 1 /\ n \in Sizes /\ k \in Offsets(n)
  /\ beyond \in Beyond
  /\ p \in Nat /\ size \in Nat
  /\ phase \in Phases(tier)
  /\ result \in Nat \cup {NULL}
  /\ rd \in SUBSET [at : Nat, w : Nat, al : BOOLEAN]

(* memchr returns the first byte of the n equal to c, or NULL when none   *)
(* is, whichever size class and vector group the code found it in: the     *)
(* return NULL at the end of the tail loop and the group returns agree    *)
(* with a byte-at-a-time scan, also when a match lies just past size.      *)
Correct ==
  phase = "done" => result = Ref

(* No load of any tier touches a byte outside haystack[0 .. n-1]: every    *)
(* word and vector step is guarded by a size test that accounts for all    *)
(* the bytes it reads, and size stays in step with haystack.               *)
InBounds ==
  \A l \in rd : start <= l.at /\ l.at + l.w <= start + n

(* Every _mm_load_si128 / _mm256_load_si256 is aligned to its width.      *)
AlignedLoads ==
  \A l \in rd : l.al => l.at % l.w = 0
====
