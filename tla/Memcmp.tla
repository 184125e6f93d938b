------------------------------- MODULE Memcmp -------------------------------
(***************************************************************************)
(* memcmp(s1, s2, n) of x32/memcmp.c, in its three tiers memcmp_naive,     *)
(* memcmp_sse2 and memcmp_avx2, and wmemcmp(s1, s2, n) of i386/wmemcmp.c, *)
(* whose tiers have the same size classes, loops and else-if chains over   *)
(* 4-byte wchar_t units: every offset, size and lane below counts units    *)
(* of U bytes, V units to a __m128i and Y to a __m256i.                    *)
(*                                                                         *)
(* The loads are unaligned (loadu), so addresses do not matter, only       *)
(* offsets from s1 and s2: off is l - s1 (= r - s2) and cnt is n.  Memory *)
(* is abstracted to Diff(a), "l[a] != r[a]": the input is n, the offset d  *)
(* of the first differing unit (d = n: the unit just past both buffers;    *)
(* d = n + Far: none near them) and whether the bytes after it differ too. *)
(* A returned l[o] - r[o] is represented by o: its value is the sign of    *)
(* that byte pair, so it is right exactly when o is the first difference,  *)
(* or when both are "no difference" (0).                                   *)
(*                                                                         *)
(* A mask test movemask(cmpeq(l, r)) != all-ones is exact for "some lane   *)
(* differs", and trailing_zeros(~mask) / U is the first differing unit.    *)
(* The 16-lane masks are ints, so ~0xffff has bit 16 as its lowest set     *)
(* bit: trailing_zeros(~0xffff) / U = V (TzNotV).                          *)
(***************************************************************************)
EXTENDS Integers, FiniteSets, FiniteSetsExt

CONSTANTS
  Fns,      \* the functions checked: "memcmp", "wmemcmp"
  Tiers,    \* the implementations checked: "naive", "sse2", "avx2"
  Builds,   \* whether __x86_64__ is defined (the 256-byte avx2 loop)
  Sizes,    \* the sizes n passed to memcmp (bytes)
  WSizes,   \* the sizes n passed to wmemcmp (wchar_t units)
  Beyond,   \* whether the bytes after the first difference differ as well
  Far,      \* the offset past n of "no difference near the buffers"
  Sse2Fourth \* whether memcmp_sse2 is given the inputs of InFourthVector

ASSUME /\ Fns \subseteq {"memcmp", "wmemcmp"} /\ WSizes \subseteq Nat
       /\ Tiers \subseteq {"naive", "sse2", "avx2"}
       /\ Builds \subseteq BOOLEAN /\ Sizes \subseteq Nat
       /\ Beyond \subseteq BOOLEAN /\ Far \in Nat \ {0}
       /\ Sse2Fourth \in BOOLEAN

EQ == -1   \* memcmp_naive's return 0

VARIABLES
  fn, tier, x86_64, n, d, beyond,   \* the function, implementation, build, input
  off,      \* l - s1 and r - s2
  cnt,      \* n
  phase,    \* the loop the code is in; "done" once it has returned
  result,   \* the offset o of the returned l[o] - r[o], or EQ
  rd        \* the bytes read (of both buffers) by the last step

input == <<fn, tier, x86_64, n, d, beyond>>
vars  == <<input, off, cnt, phase, result, rd>>

Offsets(m) == (0 .. m) \cup {m + Far}

(* sizeof the unit compared, and the units in a __m128i and a __m256i.     *)
U == IF fn = "wmemcmp" THEN 4 ELSE 1
V == 16 \div U
Y == 32 \div U

(* l[a] != r[a].                                                           *)
Diff(a) == a = d \/ (a > d /\ beyond)

(* What memcmp must return: the first differing pair, or 0.               *)
Ref == IF d < n THEN d ELSE EQ

(* The value returned, seen through its sign: the pair at o, or 0.        *)
Val(o) == IF o # EQ /\ Diff(o) THEN o ELSE EQ

(* The units of a block of w units at b where l and r differ.             *)
DiffLanes(b, w) == {i \in 0 .. w - 1 : Diff(b + i)}

(* The lanes of n1 = and(cmpeq(l1, r1), cmpeq(l2, r2)) over the two blocks *)
(* at b and b + w: a lane differs if it differs in either block.          *)
PairLanes(b, w) == {i \in 0 .. w - 1 : Diff(b + i) \/ Diff(b + w + i)}

(* trailing_zeros(~movemask) / U of a 16-lane mask: the first differing    *)
(* unit, or V when there is none.                                          *)
TzNotV(lanes) == IF lanes = {} THEN V ELSE Min(lanes)

(* The first differing unit at or after a: while (l[0] == r[0]) l++.  When *)
(* no unit from a on differs the loop runs off both buffers; the model    *)
(* stops it at Horizon, past every unit the code reads.                    *)
Horizon == n + 8 * Y

FirstDiffFrom(a) == Min({x \in a .. Horizon : Diff(x) \/ x = Horizon})

(* Units a .. a+w-1 of both buffers.                                       *)
Span(a, w) == a .. a + w - 1

(* The chain if ((o = movemask(n1)) != all) .. else if (n2) ..: the first  *)
(* of the masks ms (sets of differing lanes) that is not all-equal, at its *)
(* first lane, plus that mask's stride.  Undefined when all are equal.    *)
Chain(ms, stride) ==
  LET j == Min({i \in DOMAIN ms : ms[i] # {}}) IN (j - 1) * stride + Min(ms[j])

(* The inputs whose first difference falls in the fourth vector of the     *)
(* sse2 tiers' four-vector class, where the last else reads n2's mask.     *)
InFourthVector ==
  LET base == n - (n % (8 * V))
  IN  n % (8 * V) >= 4 * V /\ base + 3 * V <= d /\ d <= base + 4 * V - 1

Init ==
  /\ fn \in Fns
  /\ tier \in Tiers
  /\ x86_64 \in Builds
  /\ n \in IF fn = "memcmp" THEN Sizes ELSE WSizes
  /\ d \in Offsets(n)
  /\ beyond \in Beyond
  /\ Sse2Fourth \/ ~(tier = "sse2" /\ InFourthVector)
  /\ off = 0
  /\ cnt = n
  /\ phase = CASE tier = "naive" -> "naive"
               [] tier = "sse2"  -> "s128"
               [] tier = "avx2"  -> IF x86_64 THEN "a256" ELSE "a128"
  /\ result = EQ
  /\ rd = {}

(* Go on to the next size class.                                           *)
Skip(nxt) ==
  /\ phase' = nxt
  /\ rd' = {}
  /\ UNCHANGED <<input, off, cnt, result>>

(* A size class with no difference: l += w; r += w; n -= w.                *)
Advance(w, nxt) ==
  /\ off' = off + w
  /\ cnt' = cnt - w
  /\ phase' = nxt
  /\ rd' = Span(off, w)
  /\ UNCHANGED <<input, result>>

(* return l[o] - r[o] after reading the blocks of w units.                 *)
ReturnAt(o, w) ==
  /\ result' = off + o
  /\ phase' = "done"
  /\ rd' = Span(off, w) \cup {off + o}
  /\ UNCHANGED <<input, off, cnt>>

(* One size class of w units: when some unit differs, return the pair at  *)
(* the offset o the code computes; else advance.                           *)
Class(w, o, nxt) ==
  IF \E a \in Span(off, w) : Diff(a) THEN ReturnAt(o, w) ELSE Advance(w, nxt)

(* The return path of the large loops: l += o, reload w bytes at l, step   *)
(* to their first differing lane (o2), then while (l[0] == r[0]) l++.      *)
Rescan(o, w, o2) ==
  LET l1 == off + o
      l2 == l1 + o2
  IN  /\ result' = FirstDiffFrom(l2)
      /\ phase' = "done"
      /\ rd' = Span(off, 8 * w) \cup Span(l1, w) \cup (l2 .. FirstDiffFrom(l2))
      /\ UNCHANGED <<input, off, cnt>>

-----------------------------------------------------------------------------
(* memcmp_naive, wmemcmp_naive                                             *)

(* Mutant: the loop does not stop at n = 0.                               *)
NaiveNoStop ==
  /\ phase = "naive"
  /\ IF Diff(off)
       THEN /\ result' = off /\ phase' = "done" /\ rd' = {off}
            /\ UNCHANGED <<input, off, cnt>>
       ELSE /\ off' = off + 1 /\ cnt' = cnt - 1 /\ rd' = {off}
            /\ UNCHANGED <<input, phase, result>>

(* while (n) { if (l[0] != r[0]) return l[0]-r[0]; l++; r++; n--; }       *)
(* return 0;                                                               *)
Naive ==
  /\ phase = "naive"
  /\ IF cnt = 0
       THEN /\ result' = EQ /\ phase' = "done" /\ rd' = {}
            /\ UNCHANGED <<input, off, cnt>>
       ELSE IF Diff(off)
       THEN /\ result' = off /\ phase' = "done" /\ rd' = {off}
            /\ UNCHANGED <<input, off, cnt>>
       ELSE /\ off' = off + 1 /\ cnt' = cnt - 1 /\ rd' = {off}
            /\ UNCHANGED <<input, phase, result>>

-----------------------------------------------------------------------------
(* memcmp_sse2, wmemcmp_sse2                                               *)

(* Mutant: the pairs' offsets are taken four vectors apart.                *)
S128Stride64 ==
  /\ phase = "s128"
  /\ IF cnt < 8 * V THEN Skip("s64")
     ELSE IF \E a \in Span(off, 8 * V) : Diff(a)
       THEN LET o == Chain(<<PairLanes(off, V), PairLanes(off + 2 * V, V),
                             PairLanes(off + 4 * V, V), PairLanes(off + 6 * V, V)>>, 4 * V)
            IN  Rescan(o, V, TzNotV(DiffLanes(off + o, V)))
       ELSE Advance(8 * V, "s128")

(* while (n >= 128) (wmemcmp: n >= 32): eight __m128i of each, n1..n4 the  *)
(* pairs' ANDs; on a difference l += o, reload, and the unit loop.         *)
S128 ==
  /\ phase = "s128"
  /\ IF cnt < 8 * V THEN Skip("s64")
     ELSE IF \E a \in Span(off, 8 * V) : Diff(a)
       THEN LET o == Chain(<<PairLanes(off, V), PairLanes(off + 2 * V, V),
                             PairLanes(off + 4 * V, V), PairLanes(off + 6 * V, V)>>, 2 * V)
            IN  Rescan(o, V, TzNotV(DiffLanes(off + o, V)))
       ELSE Advance(8 * V, "s128")

(* if (n >= 64) (wmemcmp: n >= 16): four __m128i; the last else takes     *)
(* n2's mask.                                                              *)
S64 ==
  /\ phase = "s64"
  /\ IF cnt < 4 * V THEN Skip("s32")
     ELSE LET ms == <<DiffLanes(off, V), DiffLanes(off + V, V), DiffLanes(off + 2 * V, V)>>
              o  == IF \E i \in 1 .. 3 : ms[i] # {} THEN Chain(ms, V)
                    ELSE TzNotV(DiffLanes(off + V, V)) + 3 * V
          IN  Class(4 * V, o, "s32")

(* if (n >= 32) (wmemcmp: n >= 8): two __m128i.                            *)
S32 ==
  /\ phase = "s32"
  /\ IF cnt < 2 * V THEN Skip("s16")
     ELSE Class(2 * V, Chain(<<DiffLanes(off, V), DiffLanes(off + V, V)>>, V), "s16")

(* while (n >= 16) (wmemcmp: n >= 4): one __m128i; then the naive loop on  *)
(* the rest.                                                               *)
S16 ==
  /\ phase = "s16"
  /\ IF cnt < V THEN Skip("naive")
     ELSE Class(V, Chain(<<DiffLanes(off, V)>>, V), "s16")

-----------------------------------------------------------------------------
(* memcmp_avx2, wmemcmp_avx2                                               *)

(* #ifdef __x86_64__ while (n >= 256) (wmemcmp: n >= 64): eight __m256i of *)
(* each; on a difference, reload at l += o and take o == -1 ? 32 (8) :     *)
(* trailing_zeros(~o), then the unit loop.                                 *)
A256 ==
  /\ phase = "a256"
  /\ IF cnt < 8 * Y THEN Skip("a128")
     ELSE IF \E a \in Span(off, 8 * Y) : Diff(a)
       THEN LET o  == Chain(<<PairLanes(off, Y), PairLanes(off + 2 * Y, Y),
                              PairLanes(off + 4 * Y, Y), PairLanes(off + 6 * Y, Y)>>, 2 * Y)
                ls == DiffLanes(off + o, Y)
            IN  Rescan(o, Y, IF ls = {} THEN Y ELSE Min(ls))
       ELSE Advance(8 * Y, "a256")

(* Mutant: the avx2 four-vector loop runs while two vectors are left.      *)
A128Guard64 ==
  /\ phase = "a128"
  /\ IF cnt < 2 * Y THEN Skip("a64")
     ELSE Class(4 * Y, Chain(<<DiffLanes(off, Y), DiffLanes(off + Y, Y),
                               DiffLanes(off + 2 * Y, Y), DiffLanes(off + 3 * Y, Y)>>, Y), "a128")

(* while (n >= 128) (wmemcmp: n >= 32): four __m256i.                      *)
A128 ==
  /\ phase = "a128"
  /\ IF cnt < 4 * Y THEN Skip("a64")
     ELSE Class(4 * Y, Chain(<<DiffLanes(off, Y), DiffLanes(off + Y, Y),
                               DiffLanes(off + 2 * Y, Y), DiffLanes(off + 3 * Y, Y)>>, Y), "a128")

(* if (n >= 64) (wmemcmp: n >= 16): two __m256i.                           *)
A64 ==
  /\ phase = "a64"
  /\ IF cnt < 2 * Y THEN Skip("a32")
     ELSE Class(2 * Y, Chain(<<DiffLanes(off, Y), DiffLanes(off + Y, Y)>>, Y), "a32")

(* if (n >= 32) (wmemcmp: n >= 8): one __m256i.                            *)
A32 ==
  /\ phase = "a32"
  /\ IF cnt < Y THEN Skip("a16")
     ELSE Class(Y, Chain(<<DiffLanes(off, Y)>>, Y), "a16")

(* if (n >= 16) (wmemcmp: n >= 4): one __m128i; then the naive loop on the *)
(* rest.                                                                   *)
A16 ==
  /\ phase = "a16"
  /\ IF cnt < V THEN Skip("naive")
     ELSE Class(V, Chain(<<DiffLanes(off, V)>>, V), "naive")

(* The call has returned.                                                  *)
Returned ==
  /\ phase = "done"
  /\ UNCHANGED vars

Next ==
  \/ Naive
  \/ S128 \/ S64 \/ S32 \/ S16
  \/ A256 \/ A128 \/ A64 \/ A32 \/ A16
  \/ Returned

Spec == Init /\ [][Next]_vars

-----------------------------------------------------------------------------

TypeOK ==
  /\ fn \in Fns /\ tier \in Tiers /\ x86_64 \in Builds
  /\ n \in Sizes \cup WSizes /\ d \in Offsets(n)
  /\ beyond \in Beyond
  /\ off \in Nat /\ cnt \in Nat
  /\ phase \in {"naive", "s128", "s64", "s32", "s16",
                "a256", "a128", "a64", "a32", "a16", "done"}
  /\ result \in Nat \cup {EQ}
  /\ rd \in SUBSET Nat

(* memcmp's and wmemcmp's result has the sign of the first differing pair, *)
(* and is 0 when the n units are equal: the lane picked by the else-if     *)
(* chains of every size class, and the rescan of the large loops, land on  *)
(* the first difference, also when later units differ as well.             *)
Correct ==
  phase = "done" => Val(result) = Val(Ref)

(* No unit outside the n compared ones is read: every size class is        *)
(* guarded by its n test, and the returns read only inside the class.     *)
InBounds ==
  \A a \in rd : a < n
====
