----------------------------- MODULE ScanFirst -----------------------------
(***************************************************************************)
(* The unbounded forward scans: rawmemchr (x86_64/rawmemchr.c, and the     *)
(* generic src/string/rawmemchr.c); strspn1 (x32/strspn.c), the scan for   *)
(* the first byte that differs from n that strspn uses for a one-byte      *)
(* accept set; rawmemchr2 (x86_64/strchrnul.c) and rawmemchr3              *)
(* (x86_64/strcspn.c), the scans for the first byte equal to one of two or *)
(* three bytes that strchrnul and strcspn use; and wcslen                  *)
(* (x86_64/wcslen.c), the same scan over 4-byte wchar_t units; and        *)
(* strrchr (x86_64/strrchr.c), which walks the same phases to the          *)
(* terminator keeping pn, the last byte equal to c; strspn2 (x32/strspn.c), *)
(* the scan for the first byte equal to neither n1 nor n2; and the byteset  *)
(* loops of strspn (x32/strspn.c) and strcspn (x86_64/strcspn.c) for       *)
(* longer accept and reject sets.                                          *)
(*                                                                         *)
(* Both walk a pointer p through the same phases: a byte loop to a 4 (or   *)
(* sizeof(size_t)) boundary, a word loop to a 16 boundary, then aligned    *)
(* vector loads of growing groups.  The tiers differ only in the groups.   *)
(* One action is one iteration of one loop of the code.                    *)
(*                                                                         *)
(* Memory is abstracted to the predicate Hit(a): "the byte at a is one     *)
(* the scan stops at" (== n for rawmemchr, != n for strspn1).  The input   *)
(* is the start address modulo Line (every alignment the code tests        *)
(* divides Line = 128), the offset k of the first hit, the offset          *)
(* k + gap of the last byte the caller guarantees to be readable (the      *)
(* terminator of strspn1's string; the match itself for rawmemchr), and    *)
(* whether the bytes between and beyond those are hits.                    *)
(*                                                                         *)
(* The word loops test "some byte of m = word ^ repeated_n is zero", with  *)
(* (m - lowbits) & ~m & highbits or with m != 0; both tests are exact for  *)
(* the existence of such a byte, so a word test is modelled as that.       *)
(***************************************************************************)
EXTENDS Integers, Sequences, SequencesExt

CONSTANTS
  Cases,       \* the <<scan, implementation>> pairs checked
  Line,        \* 128: the largest alignment the code relies on
  MaxK,        \* bound on the offset of the first hit
  Gaps,        \* offsets of the last readable byte past the first hit
  TailHits,    \* whether the bytes between the first hit and the last readable one hit
  BeyondHits,  \* whether the bytes after the last readable one hit
  Needles,     \* strrchr's c: "ascii" (1..127), "nul" (0), "high" (128..255)
  Residues,    \* the starts' residues modulo 4, which set the peel's length
  Sames        \* whether strspn2's n1 and n2 are the same byte

Variants == {"rawmemchr", "strspn1", "rawmemchr2", "rawmemchr3", "wcslen",
             "strrchr", "strspn2", "strspn", "strcspn"}
Tiers    == {"generic", "fallback", "sse2", "avx2", "byteset"}

ASSUME /\ Cases \subseteq Variants \X Tiers
       /\ Line = 128
       /\ Residues \subseteq 0 .. 3
       /\ Gaps \subseteq Nat /\ TailHits \subseteq BOOLEAN
       /\ BeyondHits \subseteq BOOLEAN
       /\ Needles \subseteq {"ascii", "nul", "high"}
       /\ Sames \subseteq BOOLEAN

NULL == -1

VARIABLES
  variant, tier,                       \* the function and its implementation
  start, k, gap, tail, beyond, needle, \* the input
  same,     \* strspn2: n1 = n2
  p,        \* haystack / ptr
  phase,    \* the loop the code is in; "done" once it has returned
  result,   \* the returned pointer
  pn,       \* strrchr: the last match seen, NULL before one
  rd        \* the loads of the last step: [at, w, al] (al: an aligned vector load)

input == <<variant, tier, start, k, gap, tail, beyond, needle, same>>
vars  == <<input, p, phase, result, pn, rd>>

(* The scans of strspn; sizeof(size_t): strspn.c is x32 code (ILP32), the *)
(* others x86_64 (LP64).                                                   *)
Spans == {"strspn1", "strspn2", "strspn"}
SizeT == IF variant \in Spans THEN 4 ELSE 8

(* The unit the scan steps over and compares: a wchar_t for wcslen.       *)
Unit == IF variant = "wcslen" THEN 4 ELSE 1

(* The byte at address a is one the scan must stop at.                     *)
Hit(a) ==
  LET o == a - start IN
  /\ o % Unit = 0
  /\ \/ o = k \/ o = k + gap
     \/ k < o /\ o < k + gap /\ tail
     \/ o > k + gap /\ beyond

(* The last byte the caller guarantees to be readable.                     *)
LastByte == start + k + (IF variant \in Spans THEN gap ELSE 0)

(* strrchr: the terminator is at offset k.  The last byte equal to c      *)
(* before it is at k - gap (none for gap = 0), every byte before that one *)
(* matches when tail holds, and the bytes after the terminator match      *)
(* when beyond does.  For c = 0 the matches are the zero bytes.            *)
Term(a) == LET o == a - start IN o = k \/ (needle = "nul" /\ o > k /\ beyond)

Match(a) ==
  LET o == a - start IN
  IF needle = "nul" THEN Term(a)
  ELSE \/ gap > 0 /\ o = k - gap
       \/ o < k - gap /\ tail
       \/ o > k /\ beyond

(* The word loops compare the byte haystack[i] as a plain char, signed on *)
(* x86, with n, so they never see an n of 128..255.                        *)
WordMatch(a) == Match(a) /\ needle # "high"

(* What strrchr must return: the last byte equal to (char)c up to and      *)
(* including the terminator, or NULL: a byte loop back from the            *)
(* terminator to s.                                                        *)
RECURSIVE RefLastFrom(_)
RefLastFrom(a) ==
  IF a < start THEN NULL ELSE IF Match(a) THEN a ELSE RefLastFrom(a - 1)

RefLast == RefLastFrom(start + k)

(* The reference: the byte loop for (; *s != c; s++) of the generic code.  *)
RECURSIVE RefFrom(_)
RefFrom(a) == IF Hit(a) THEN a ELSE RefFrom(a + 1)

(* The lanes of the w-byte block at b that hit; trailing_zeros of a mask.  *)
HitsIn(b, w) == {i \in 0 .. w - 1 : Hit(b + i)}

(* nb consecutive blocks of w bytes from p: a, b, c, d of a group.         *)
Blocks(nb, w) == [j \in 1 .. nb |-> p + (j - 1) * w]

(* Mutant: the group test looks at the first block only.                 *)
AnyHitFirstOnly(bs, w) == HitsIn(bs[1], w) # {}

(* Some lane of some block hits: an exact test, and what rawmemchr's       *)
(* movemask(or(eqa, eqb, ..)) != 0 computes.                               *)
AnyHit(bs, w) == \E j \in DOMAIN bs : HitsIn(bs[j], w) # {}

(* strspn1, and strspn2_sse2's pair loop: movemask(or(eqa, eqb, ..)) !=   *)
(* all-ones, true when in some lane every block differs from n (from n1   *)
(* and n2).                                                                *)
OrLaneHit(bs, w) == \E i \in 0 .. w - 1 : \A j \in DOMAIN bs : Hit(bs[j] + i)

GroupHit(bs, w) ==
  IF variant \in {"strspn1", "strspn2"} THEN OrLaneHit(bs, w) ELSE AnyHit(bs, w)

(* rawmemchr2, rawmemchr3 and strrchr test one word per fallback          *)
(* iteration and a pair of vectors per loop iteration, with no 64 / 128    *)
(* step before.                                                            *)
Paired == variant \in {"rawmemchr2", "rawmemchr3", "strrchr", "strspn2"}

(* The first loop of the vector tiers runs to a 4 boundary, in rawmemchr3  *)
(* to a sizeof(size_t) one, in wcslen to a 16 one (it has no word loop).   *)
PeelTo == CASE variant = "rawmemchr3" -> SizeT
            [] variant = "wcslen"     -> 16
            [] OTHER                  -> 4

(* The has-zero test of one word of the fallback pair loops.  In wcslen    *)
(* lowbits = ~(size_t)0 / (size_t)~(wchar_t)0 is 1, wchar_t being a signed *)
(* int, and highbits = 1 << 31: the test sees the low wchar_t of the word  *)
(* only.                                                                   *)
WordTest(b) == IF variant = "wcslen" THEN Hit(b) ELSE HitsIn(b, SizeT) # {}

(* Mutant: the returns test the blocks from the last one back.           *)
LocateLast(bs, w) ==
  LET js == {j \in DOMAIN bs : HitsIn(bs[j], w) # {}}
  IN  IF js = {} THEN NULL
      ELSE LET j == Max(js) IN bs[j] + Min(HitsIn(bs[j], w))

(* The returns after a detected group: the first block, in address order,  *)
(* whose mask is not trivial, at its first lane; NULL when there is none.  *)
Locate(bs, w) ==
  LET js == {j \in DOMAIN bs : HitsIn(bs[j], w) # {}}
  IN  IF js = {} THEN NULL
      ELSE LET j == Min(js) IN bs[j] + Min(HitsIn(bs[j], w))

(* One test of strrchr over the blocks bs.  A byte of the peel or of a     *)
(* word's byte loop is tested for c before the terminator, so a match at  *)
(* the terminator counts (c = 0); the vector code keeps the matches below  *)
(* the first terminator lane, mask1 % (1 << trailing_zeros(mask2)), and    *)
(* returns pn when there are none.  Without a terminator pn becomes the    *)
(* last match (31 - leading_zeros(mask1)) and the scan goes on.            *)
LastStep(bs, w, al, nxt) ==
  LET as   == {bs[j] + i : j \in DOMAIN bs, i \in 0 .. w - 1}
      ts   == {a \in as : Term(a)}
      seen == {a \in as : IF al \/ w = 1 THEN Match(a) ELSE WordMatch(a)}
      upto == IF ts = {} THEN seen
              ELSE {a \in seen : a < Min(ts) \/ (~al /\ a = Min(ts))}
      last == IF upto = {} THEN pn ELSE Max(upto)
  IN  /\ IF ts # {}
           THEN /\ result' = last
                /\ phase' = "done"
                /\ UNCHANGED <<p, pn>>
           ELSE /\ pn' = last
                /\ p' = p + Len(bs) * w
                /\ phase' = nxt
                /\ UNCHANGED result

(* strspn2's return from a pair: ptr + trailing_zeros(~mask1 & ~mask2),  *)
(* and in avx2 mask1 != -1 ? trailing_zeros(~mask1) : 32 +                 *)
(* trailing_zeros(~mask1 & ~mask2).  With n1 # n2 a lane never equals both, *)
(* so ~mask1 | ~mask2 is all-ones and the AND keeps only the lanes above   *)
(* 16 (sse2: ptr + 16) or none (avx2: trailing_zeros(0); __builtin_ctz(0) *)
(* is undefined: tzcnt gives 32, bsf leaves its register as it was,       *)
(* modelled as NULL; helpers.h's portable loop gives 31).  The return is  *)
(* right when the first block a has a hit, or n1 = n2.                     *)
Strspn2Pair(bs, w) ==
  IF HitsIn(bs[1], w) # {} \/ same THEN {Locate(bs, w)}
  ELSE IF w = 16 THEN {bs[1] + 16}
  ELSE {bs[1] + 31, bs[1] + 32, NULL}

Returns(bs, w) ==
  IF variant = "strspn2" /\ Len(bs) = 2 THEN Strspn2Pair(bs, w)
  ELSE {Locate(bs, w)}

(* One test of the code: load the blocks, return if found, else advance.   *)
Step(bs, w, al, found, nxt) ==
  /\ rd' = {[at |-> b, w |-> w, al |-> al] : b \in Range(bs)}
  /\ IF variant = "strrchr" THEN LastStep(bs, w, al, nxt)
     ELSE IF found
       THEN /\ result' \in Returns(bs, w)
            /\ phase' = "done"
            /\ UNCHANGED <<p, pn>>
       ELSE /\ p' = p + Len(bs) * w
            /\ phase' = nxt
            /\ UNCHANGED <<result, pn>>
  /\ UNCHANGED input

(* A loop or if condition that fails: go on to the next phase.            *)
Skip(nxt) ==
  /\ phase' = nxt
  /\ rd' = {}
  /\ UNCHANGED <<input, p, result, pn>>

(* The phases each implementation goes through, in order.                 *)
Phases(t) ==
  CASE t = "generic"  -> {"gpeel", "gword", "gtail", "done"}
    [] t = "fallback" -> {"fpeel", "fpair", "fword", "done"}
    [] t = "sse2"     -> {"peel4", "word16", "x1", "x2", "xloop", "xpair", "done"}
    [] t = "avx2"     -> {"peel4", "word16", "x16", "y2", "yloop", "ypair", "done"}
    [] t = "byteset"  -> {"bset", "done"}

FirstPhase(t) ==
  CASE t = "generic"  -> "gpeel"
    [] t = "fallback" -> "fpeel"
    [] t = "byteset"  -> "bset"
    [] OTHER          -> "peel4"

(* The alignments the scans' loops test divide Line, and for strrchr 64:  *)
(* its start modulo that span decides which phases run and for how long.   *)
(* The byteset loops test no alignment: one start stands for all.         *)
SpanOf(v) == CASE v = "strrchr"                -> 64
               [] v \in {"strspn", "strcspn"} -> 1
               [] OTHER                       -> Line

(* The rawmemchr scans are only promised readable memory up to the match;  *)
(* strspn1 up to the terminator, gap bytes past the first differing byte. *)
Init ==
  /\ \E c \in Cases : variant = c[1] /\ tier = c[2]
  /\ start \in {s \in 0 .. Line - 1 : /\ s % Unit = 0 /\ s < SpanOf(variant)
                                     /\ s % 4 \in Residues}
  /\ k \in {o \in 0 .. MaxK : o % Unit = 0}
  /\ gap \in CASE variant \in Spans -> Gaps
             [] variant = "strrchr" -> {g \in Gaps : g <= k}
             [] OTHER               -> {0}
  /\ tail \in IF variant \in Spans \cup {"strrchr"} THEN TailHits ELSE {FALSE}
  /\ beyond \in BeyondHits
  /\ needle \in IF variant = "strrchr" THEN Needles ELSE {"ascii"}
  /\ same \in IF variant = "strspn2" /\ tier \in {"sse2", "avx2"} THEN Sames
             ELSE {FALSE}
  /\ pn = NULL
  /\ p = start
  /\ phase = FirstPhase(tier)
  /\ result = NULL
  /\ rd = {}

-----------------------------------------------------------------------------
(* src/string/rawmemchr.c                                                  *)

(* for (; (s & ALIGN) && *s != c; s++); if (s[0] != c) ..                *)
GPeel ==
  /\ phase = "gpeel"
  /\ rd' = {[at |-> p, w |-> 1, al |-> FALSE]}
  /\ IF Hit(p) THEN phase' = "gtail" /\ UNCHANGED p
     ELSE IF p % SizeT # 0 THEN p' = p + 1 /\ UNCHANGED phase
     ELSE phase' = "gword" /\ UNCHANGED p
  /\ UNCHANGED <<input, result, pn>>

(* for (w = s; !HASZERO(w[0] ^ k); w++); s = w;                             *)
GWord ==
  /\ phase = "gword"
  /\ rd' = {[at |-> p, w |-> SizeT, al |-> FALSE]}
  /\ IF HitsIn(p, SizeT) # {} THEN phase' = "gtail" /\ UNCHANGED p
     ELSE p' = p + SizeT /\ UNCHANGED phase
  /\ UNCHANGED <<input, result, pn>>

(* for (; *s != c; s++); return s;                                       *)
GTail ==
  /\ phase = "gtail"
  /\ rd' = {[at |-> p, w |-> RefFrom(p) - p + 1, al |-> FALSE]}
  /\ result' = RefFrom(p)
  /\ phase' = "done"
  /\ UNCHANGED <<input, p, pn>>

-----------------------------------------------------------------------------
(* rawmemchr_fallback, strspn1_fallback, rawmemchr2/3_fallback,           *)
(* wcslen_fallback                                                         *)

(* while (haystack % sizeof(size_t)) { if (hit) return haystack; .. }      *)
FPeel ==
  /\ phase = "fpeel"
  /\ IF p % SizeT # 0 THEN Step(<<p>>, Unit, FALSE, Hit(p), "fpeel")
                      ELSE Skip(IF Paired THEN "fword" ELSE "fpair")

(* Two words per iteration, m1 and m2, then the byte (unit) loop to the   *)
(* hit.  The test on m1, m2 is exact except in wcslen (WordTest).         *)
FPair ==
  /\ phase = "fpair"
  /\ LET bs == Blocks(2, SizeT)
     IN  Step(bs, SizeT, FALSE, \E j \in DOMAIN bs : WordTest(bs[j]), "fpair")

(* rawmemchr2/3_fallback: one word per iteration.                          *)
FWord ==
  /\ phase = "fword"
  /\ Step(<<p>>, SizeT, FALSE, HitsIn(p, SizeT) # {}, "fword")

-----------------------------------------------------------------------------
(* The _sse2 and _avx2 tiers.                                              *)

(* while (haystack % 4) (rawmemchr3: % sizeof(size_t); wcslen: % 16)     *)
(* { if (hit) return haystack; haystack++; }                               *)
Peel4 ==
  /\ phase = "peel4"
  /\ IF p % PeelTo # 0 THEN Step(<<p>>, Unit, FALSE, Hit(p), "peel4")
     ELSE IF variant # "wcslen" THEN Skip("word16")
     ELSE Skip(IF tier = "sse2" THEN "x1" ELSE "x16")

(* Mutant: the word loop stops at an 8 boundary.                          *)
Word16Mod8 ==
  /\ phase = "word16"
  /\ LET nxt == IF tier = "sse2" THEN "x1" ELSE "x16" IN
     IF p % 8 # 0 THEN Step(<<p>>, 4, FALSE, HitsIn(p, 4) # {}, "word16")
                  ELSE Skip(nxt)

(* Mutant: the avx2 word loop goes on to the sse2 groups.                  *)
Word16SSE2Next ==
  /\ phase = "word16"
  /\ IF p % 16 # 0 THEN Step(<<p>>, 4, FALSE, HitsIn(p, 4) # {}, "word16")
                   ELSE Skip("x1")

(* while (haystack % 16): one uint32_t, then the byte scan of that word.   *)
Word16 ==
  /\ phase = "word16"
  /\ LET nxt == IF tier = "sse2" THEN "x1" ELSE "x16" IN
     IF p % 16 # 0 THEN Step(<<p>>, 4, FALSE, HitsIn(p, 4) # {}, "word16")
                   ELSE Skip(nxt)

(* sse2: if (haystack % 32): one __m128i.                                  *)
X1 ==
  /\ phase = "x1"
  /\ LET nxt == IF Paired THEN "xpair" ELSE "x2" IN
     IF p % 32 # 0 THEN Step(<<p>>, 16, TRUE, HitsIn(p, 16) # {}, nxt)
                   ELSE Skip(nxt)

(* sse2: if (haystack % 64): two __m128i, or1 = eqa | eqb.                 *)
X2 ==
  /\ phase = "x2"
  /\ IF p % 64 # 0
       THEN Step(Blocks(2, 16), 16, TRUE, GroupHit(Blocks(2, 16), 16), "xloop")
       ELSE Skip("xloop")

(* sse2: for (;;) four __m128i, or3 = or1 | or2.                           *)
XLoop ==
  /\ phase = "xloop"
  /\ Step(Blocks(4, 16), 16, TRUE, GroupHit(Blocks(4, 16), 16), "xloop")

(* rawmemchr2/3_sse2, strspn2_sse2: for (;;) two __m128i (strspn2 tests   *)
(* or3 = eq1a | eq2a | eq1b | eq2b).                                       *)
XPair ==
  /\ phase = "xpair"
  /\ Step(Blocks(2, 16), 16, TRUE, GroupHit(Blocks(2, 16), 16), "xpair")

(* Mutant: the avx2 __m128i loop stops at a 32 boundary.                  *)
X16Mod32 ==
  /\ phase = "x16"
  /\ IF p % 32 # 0 THEN Step(<<p>>, 16, TRUE, HitsIn(p, 16) # {}, "x16")
                   ELSE Skip(IF Paired THEN "ypair" ELSE "y2")

(* avx2: while (haystack % 64): one __m128i.                               *)
X16 ==
  /\ phase = "x16"
  /\ IF p % 64 # 0 THEN Step(<<p>>, 16, TRUE, HitsIn(p, 16) # {}, "x16")
                   ELSE Skip(IF Paired THEN "ypair" ELSE "y2")

(* avx2: if (haystack % 128): two __m256i.                                 *)
Y2 ==
  /\ phase = "y2"
  /\ IF p % 128 # 0
       THEN Step(Blocks(2, 32), 32, TRUE, GroupHit(Blocks(2, 32), 32), "yloop")
       ELSE Skip("yloop")

(* avx2: for (;;) four __m256i.                                            *)
YLoop ==
  /\ phase = "yloop"
  /\ Step(Blocks(4, 32), 32, TRUE, GroupHit(Blocks(4, 32), 32), "yloop")

(* rawmemchr2/3_avx2, strspn2_avx2: for (;;) two __m256i (strspn2 tests   *)
(* the AND of each block's eq1 | eq2).                                     *)
YPair ==
  /\ phase = "ypair"
  /\ Step(Blocks(2, 32), 32, TRUE, AnyHit(Blocks(2, 32), 32), "ypair")

-----------------------------------------------------------------------------
(* The byteset loops of strspn (x32/strspn.c), for an accept set of three *)
(* or more bytes, and strcspn (x86_64/strcspn.c), for a reject set of      *)
(* three or more: the set of the bytes is built in byteset, then         *)
(* while (byteset[s[i]/64] & 1 << s[i]%64) i++; (strcspn: while not, with  *)
(* the terminator put in the set first).  strspn's set never holds the    *)
(* terminator, so for both Hit is "s[i] ends the span".                    *)
BSet ==
  /\ phase = "bset"
  /\ Step(<<p>>, 1, FALSE, Hit(p), "bset")

(* The call has returned.                                                  *)
Returned ==
  /\ phase = "done"
  /\ UNCHANGED vars

Next ==
  \/ GPeel \/ GWord \/ GTail
  \/ FPeel \/ FPair \/ FWord \/ BSet
  \/ Peel4 \/ Word16 \/ X1 \/ X2 \/ XLoop \/ XPair \/ X16 \/ Y2 \/ YLoop \/ YPair
  \/ Returned

Spec == Init /\ [][Next]_vars

-----------------------------------------------------------------------------

TypeOK ==
  /\ <<variant, tier>> \in Cases /\ start \in 0 .. Line - 1 /\ k \in 0 .. MaxK
  /\ gap \in Gaps /\ tail \in TailHits /\ beyond \in BeyondHits
  /\ p \in Nat
  /\ phase \in Phases(tier)
  /\ needle \in Needles \cup {"ascii"} /\ same \in BOOLEAN
  /\ result \in Nat \cup {NULL} /\ pn \in Nat \cup {NULL}
  /\ rd \in SUBSET [at : Nat, w : Nat, al : BOOLEAN]

(* The pointer returned is the one the byte-at-a-time reference returns:  *)
(* the first hit, whichever word and vector group the code found it in;    *)
(* for strrchr the last byte equal to c, whichever block held it and       *)
(* whichever block held the terminator.                                    *)
Correct ==
  phase = "done" =>
    result = IF variant = "strrchr" THEN RefLast ELSE RefFrom(start)

(* Every _mm_load_si128 / _mm256_load_si256 is at an address aligned to   *)
(* its width, as those instructions require.                              *)
AlignedLoads ==
  \A l \in rd : l.al => l.at % l.w = 0

(* No load touches a byte past the Line-sized block holding the last      *)
(* byte the caller guarantees.  Pages are whole blocks, and the code only  *)
(* depends on start modulo Line, so such a load crosses into an unmapped   *)
(* page for some placement of the string.                                  *)
NoOverread ==
  \A l \in rd : l.at + l.w - 1 <= LastByte - (LastByte % Line) + Line - 1

(* The vector loads of every tier stay in the Line-sized block of the     *)
(* last byte the caller guarantees: each group starts at a boundary of its *)
(* own size and the code returns from the group that holds that byte.      *)
(* (The word loads of the fallback pairs do not: NoOverread.)              *)
VectorNoOverread ==
  \A l \in rd : l.al => l.at + l.w - 1 <= LastByte - (LastByte % Line) + Line - 1

(* Until the call returns, p never moves past the first hit.  Every step  *)
(* that does not return advances p or the phase, so with this the loops   *)
(* end, and a group test that misses a hit shows up here first.           *)
NeverPassesHit ==
  phase # "done" => p <= start + k
=============================================================================
