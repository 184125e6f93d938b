----------------------------- MODULE StrCaseCmp -----------------------------
(***************************************************************************)
(* strcasecmp of i386/strcasecmp.c: a loop over strdiff(s1, s2), which     *)
(* returns the index of the first byte where s1 ends or s1 and s2 differ,  *)
(* in its three tiers strdiff_naive, strdiff_sse2 and strdiff_avx2; and,   *)
(* selected by fn, strncasecmp of x32/strncasecmp.c, the same loop over an *)
(* n-bounded strdiff(s1, s2, n), and strncmp of i386/strncmp.c, whose     *)
(* three tiers have the control of that strdiff and return the difference  *)
(* themselves.                                                             *)
(*                                                                         *)
(* strdiff computes padding1 and padding2, the distance of s1 and s2 to    *)
(* the next 128-byte boundary, and reads groups of 64, 32, 16 bytes while  *)
(* the lesser padding allows; a byte loop while both paddings are nonzero; *)
(* then either a loop of aligned 64-byte groups (both paddings 0) or a    *)
(* loop that re-derives a budget n from the paddings.  The n-bounded       *)
(* strdiff guards each group by padding = min(padding1, padding2) and by   *)
(* n, runs an aligned loop when padding1 = padding2, and then a loop that  *)
(* recomputes padding from both pointers.  One action is one if, or one   *)
(* iteration of one loop.                                                  *)
(*                                                                         *)
(* Memory is abstracted to the kind of each byte pair, by offset from the  *)
(* original s1 and s2: "same" (equal, not 0), and the stops strdiff        *)
(* returns at: "fold" (different bytes with equal tolower), "term" (both   *)
(* 0), "diff" (different tolower).  The input is the addresses modulo 128, *)
(* the first stop k and its kind, and, after a fold, a second stop at      *)
(* k + gap.  Both strings are readable up to End; the bytes after it are   *)
(* not the caller's and are modelled as "garbage" (a difference).         *)
(***************************************************************************)
EXTENDS Integers, FiniteSets, FiniteSetsExt, Bitwise

CONSTANTS
  Fns,      \* "strcasecmp" (i386), "strncasecmp" (x32), "strncmp" (i386)
  Sizes,    \* the n passed to strncasecmp and strncmp
  Tiers,    \* "naive", "sse2", "avx2"
  Starts1,  \* s1 modulo 128
  Starts2,  \* s2 modulo 128
  MaxK,     \* bound on the first stop
  Kinds1,   \* the kinds of the first stop
  Gaps,     \* distances from a fold to the next stop
  Kinds2,   \* the kinds of the stop after a fold
  EqualStrcasecmp  \* whether strcasecmp is given strings equal up to case

ASSUME /\ Fns \subseteq {"strcasecmp", "strncasecmp", "strncmp"}
       /\ Sizes \subseteq Nat
       /\ Tiers \subseteq {"naive", "sse2", "avx2"}
       /\ Starts1 \subseteq 0 .. 127 /\ Starts2 \subseteq 0 .. 127
       /\ Kinds1 \subseteq {"fold", "term", "diff"}
       /\ Kinds2 \subseteq {"term", "diff"}
       /\ Gaps \subseteq Nat \ {0}
       /\ EqualStrcasecmp \in BOOLEAN

EQ == -1   \* strcasecmp returns 0

VARIABLES
  fn, tier, a1, a2, k, kind1, gap, kind2,   \* the function, tier, input
  nArg,     \* n of strncasecmp / strncmp (0 for strcasecmp)
  base,     \* s1 - (original s1) at the current strdiff call
  l,        \* l - (original s1) = r - (original s2)
  pad1, pad2,   \* padding1, padding2
  n,        \* i386 strdiff: the budget of its last loop; x32 strdiff and
            \* strncmp: the bytes of n left
  padding,  \* x32 strdiff and strncmp: padding
  phase,    \* where the code is; "done" once strcasecmp returned
  ret,      \* the value strdiff returned last, -1 before the first
  result,   \* the offset of the returned tolower(s1[0]) - tolower(s2[0]), or EQ
  rd        \* the loads of the last step: [at, w]

input == <<fn, tier, a1, a2, k, kind1, gap, kind2, nArg>>
vars  == <<input, base, l, pad1, pad2, n, padding, phase, ret, result, rd>>

(* The last stop, and the last byte both strings are known to hold.       *)
Last     == IF kind1 = "fold" THEN k + gap ELSE k
LastKind == IF kind1 = "fold" THEN kind2 ELSE kind1
End      == Last + (IF LastKind = "diff" THEN 1 ELSE 0)

Kind(i) ==
  CASE i = k                        -> kind1
    [] kind1 = "fold" /\ i = k + gap -> kind2
    [] i > End                      -> "garbage"
    [] OTHER                        -> "same"

(* strdiff's stop condition !*l || *l != *r.                               *)
Stop(i) == Kind(i) # "same"

(* The stops up to End, and the first stop at or after i (every byte past  *)
(* End is one).                                                            *)
Stops == {k} \cup (IF kind1 = "fold" THEN {k + gap} ELSE {})
StopFrom(i) == Min({j \in Stops \cup {IF i > End THEN i ELSE End + 1} : j >= i})

(* What the function must return: 0 at the first terminator, the         *)
(* difference at the first difference (case-insensitive but for strncmp), *)
(* whichever comes first; 0 when neither is among the first n bytes.      *)
Ref ==
  LET js == {j \in Stops : /\ fn = "strcasecmp" \/ j < nArg
                           /\ fn = "strncmp" \/ Kind(j) # "fold"}
  IN  IF js = {} THEN EQ
      ELSE IF Kind(Min(js)) = "term" THEN EQ ELSE Min(js)

(* 127 - ((uintptr_t)(s - 1) % 128): bytes from s to the next 128 boundary *)
(* (0 when s is aligned).                                                   *)
Padding(a) == 127 - ((a - 1) % 128)

(* The lanes of the w-byte block at b that stop: the zero bits of the      *)
(* movemask of andnot(cmpeq(l, zero), cmpeq(l, r)).                        *)
StopLanes(b, w) == {i \in 0 .. w - 1 : Stop(b + i)}

(* trailing_zeros(~o) of a 16-lane mask o (an int): 16 when o = 0xffff.    *)
TzNot16(lanes) == IF lanes = {} THEN 16 ELSE Min(lanes)

(* Mutant: the avx2 64-byte test looks at n1 only.                         *)
GroupFoundFirstOnly(w) ==
  IF tier = "sse2" /\ w > 16 THEN TRUE
  ELSE StopLanes(l, IF w = 64 THEN 32 ELSE w) # {}

(* A group of w bytes from l tests some lane stopping.  In strdiff_sse2    *)
(* the 64- and 32-byte groups compare 16-lane movemasks (0 .. 0xffff) with *)
(* -1, which is never equal, so the test and the first else-if always     *)
(* hold.                                                                   *)
GroupFound(w) ==
  IF fn = "strcasecmp" /\ tier = "sse2" /\ w > 16 THEN TRUE ELSE StopLanes(l, w) # {}

(* Mutant: avx2's n2 lanes are offset by 16.                               *)
GroupOffsetN2At16(w) ==
  CASE tier = "sse2" /\ w > 16 -> TzNot16(StopLanes(l, 16))
    [] w = 64 -> IF StopLanes(l, 32) # {} THEN Min(StopLanes(l, 32))
                 ELSE 16 + Min(StopLanes(l + 32, 32))
    [] OTHER  -> Min(StopLanes(l, w))

(* The o of return l-s1+o: sse2's groups take trailing_zeros(~n1); avx2's  *)
(* 64-byte groups n1, then n2 + 32; single vectors their first lane.       *)
GroupOffset(w) ==
  CASE fn = "strcasecmp" /\ tier = "sse2" /\ w > 16 -> TzNot16(StopLanes(l, 16))
    [] w = 64 -> IF StopLanes(l, 32) # {} THEN Min(StopLanes(l, 32))
                 ELSE 32 + Min(StopLanes(l + 32, 32))
    [] OTHER  -> Min(StopLanes(l, w))

(* strdiff returns l - s1 + o to its caller; strncmp returns l[o] - r[o]   *)
(* itself, 0 when both bytes are the terminator.                          *)
ReturnAt(o) ==
  /\ IF fn = "strncmp"
       THEN /\ result' = IF Kind(l + o) = "term" THEN EQ ELSE l + o
            /\ phase' = "done"
            /\ UNCHANGED ret
       ELSE /\ ret' = l + o - base
            /\ phase' = "cmp"
            /\ UNCHANGED result
  /\ UNCHANGED <<input, base, l, pad1, pad2, n, padding>>

(* if (!n) return l-s1-1 (x32 strdiff; strdiff_naive's return n-1), or    *)
(* strncmp's return 0.                                                     *)
ReturnLast ==
  /\ IF fn = "strncmp"
       THEN /\ result' = EQ /\ phase' = "done" /\ UNCHANGED ret
       ELSE /\ ret' = l - 1 - base /\ phase' = "cmp" /\ UNCHANGED result
  /\ rd' = {}
  /\ UNCHANGED <<input, base, l, pad1, pad2, n, padding>>

(* One group of w bytes: return at the stop, or advance l (and r) by w and *)
(* take w off the counters cs ("pad": padding1/2, "n": n, "padn": padding  *)
(* and n, "none").                                                         *)
Group(w, nxt, cs) ==
  /\ rd' = {[at |-> l, w |-> w]}
  /\ IF GroupFound(w)
       THEN ReturnAt(GroupOffset(w))
       ELSE /\ l' = l + w
            /\ phase' = nxt
            /\ pad1' = IF cs = "pad" THEN pad1 - w ELSE pad1
            /\ pad2' = IF cs = "pad" THEN pad2 - w ELSE pad2
            /\ n' = IF cs \in {"n", "padn"} THEN n - w ELSE n
            /\ padding' = IF cs = "padn" THEN padding - w ELSE padding
            /\ UNCHANGED <<input, base, ret, result>>

(* One byte: if (!l[0] || l[0] != r[0]) return l-s1; l++; r++; and n--   *)
(* (dn = 1), padding-- (dp = 1) where the loop counts them.                *)
Byte(dp, dn) ==
  /\ rd' = {[at |-> l, w |-> 1]}
  /\ IF Stop(l)
       THEN ReturnAt(0)
       ELSE /\ l' = l + 1
            /\ n' = n - dn
            /\ padding' = padding - dp
            /\ UNCHANGED <<input, base, pad1, pad2, phase, ret, result>>

Skip(nxt) ==
  /\ phase' = nxt
  /\ rd' = {}
  /\ UNCHANGED <<input, base, l, pad1, pad2, n, padding, ret, result>>

MinPad == IF pad1 < pad2 THEN pad1 ELSE pad2

Init ==
  /\ fn \in Fns
  /\ nArg \in IF fn = "strcasecmp" THEN {0} ELSE Sizes
  /\ padding = 0
  /\ tier \in Tiers
  /\ a1 \in Starts1 /\ a2 \in Starts2
  /\ k \in 0 .. MaxK
  /\ kind1 \in Kinds1 /\ gap \in Gaps /\ kind2 \in Kinds2
  /\ EqualStrcasecmp \/ fn # "strcasecmp" \/ LastKind # "term"
  /\ base = 0 /\ l = 0 /\ pad1 = 0 /\ pad2 = 0 /\ n = 0
  /\ phase = "call"
  /\ ret = -1
  /\ result = EQ
  /\ rd = {}

-----------------------------------------------------------------------------
(* strcasecmp and strncasecmp                                              *)

(* strncasecmp: if (!n) return 0; then size_t o = strdiff_impl(s1, s2[, n]) *)
(* (strncmp: the call of strncmp_impl): padding1, padding2 and padding of  *)
(* the current s1, s2, and n, the bytes of the caller's n left.            *)
Call ==
  /\ phase = "call"
  /\ IF fn = "strncasecmp" /\ nArg = base
       THEN /\ result' = EQ /\ phase' = "done"
            /\ UNCHANGED <<l, pad1, pad2, n, padding>>
       ELSE /\ l' = base
            /\ pad1' = Padding(a1 + base)
            /\ pad2' = Padding(a2 + base)
            /\ padding' = IF pad1' < pad2' THEN pad1' ELSE pad2'
            /\ n' = IF fn = "strcasecmp" THEN 0 ELSE nArg - base
            /\ phase' = CASE fn = "strcasecmp" -> IF tier = "naive" THEN "naive" ELSE "st64"
                           [] OTHER -> IF tier = "naive" THEN "nnaive" ELSE "n64"
            /\ UNCHANGED result
  /\ rd' = {}
  /\ UNCHANGED <<input, base, ret>>

(* Mutant: the bytes are compared without tolower.                         *)
CmpNoFold ==
  /\ phase = "cmp"
  /\ LET q == base + ret IN
     /\ rd' = {[at |-> q, w |-> 1]}
     /\ IF Kind(q) \in {"diff", "garbage", "fold"}
          THEN /\ result' = q /\ phase' = "done"
               /\ UNCHANGED base
          ELSE /\ base' = q + 1 /\ phase' = "call"
               /\ UNCHANGED result
  /\ UNCHANGED <<input, l, pad1, pad2, n, padding, ret>>

(* s1 += o; s2 += o; [n -= o;] if (tolower(s1[0]) != tolower(s2[0]))      *)
(* return ..; strncasecmp only: if (s1[0] == 0) return 0; s1++; s2++;     *)
(* [n--;]                                                                  *)
Cmp ==
  /\ phase = "cmp"
  /\ LET q == base + ret IN
     /\ rd' = {[at |-> q, w |-> 1]}
     /\ IF Kind(q) \in {"diff", "garbage"} \/ (fn = "strncasecmp" /\ Kind(q) = "term")
          THEN /\ result' = IF Kind(q) = "term" THEN EQ ELSE q
               /\ phase' = "done"
               /\ UNCHANGED base
          ELSE /\ base' = q + 1 /\ phase' = "call"
               /\ UNCHANGED result
  /\ UNCHANGED <<input, l, pad1, pad2, n, padding, ret>>

-----------------------------------------------------------------------------
(* strdiff_naive: for (i = 0; ; i++) if (!s1[i] || s1[i] != s2[i]) return i *)

Naive ==
  /\ phase = "naive"
  /\ Byte(0, 0)

-----------------------------------------------------------------------------
(* strdiff_sse2 and strdiff_avx2                                           *)

(* if (min(padding1, padding2) >= 64): a 64-byte group.                    *)
St64 ==
  /\ phase = "st64"
  /\ IF MinPad >= 64 THEN Group(64, "st32", "pad") ELSE Skip("st32")

(* Mutant: the 32-byte group asks for a padding of 16.                     *)
St32Guard16 ==
  /\ phase = "st32"
  /\ IF MinPad >= 16 THEN Group(32, "st16", "pad") ELSE Skip("st16")

(* if (min(padding1, padding2) >= 32): a 32-byte group.                    *)
St32 ==
  /\ phase = "st32"
  /\ IF MinPad >= 32 THEN Group(32, "st16", "pad") ELSE Skip("st16")

(* if (min(padding1, padding2) >= 16): one __m128i.                        *)
St16 ==
  /\ phase = "st16"
  /\ IF MinPad >= 16 THEN Group(16, "bytes", "pad") ELSE Skip("bytes")

(* while (padding1 && padding2) { byte } -- the paddings are not           *)
(* decremented; then padding = padding1 | padding2, and the aligned loop   *)
(* when it is 0, else n = padding.                                         *)
Bytes ==
  /\ phase = "bytes"
  /\ IF pad1 # 0 /\ pad2 # 0
       THEN Byte(0, 0)
       ELSE /\ n' = (pad1 | pad2)
            /\ phase' = IF (pad1 | pad2) = 0 THEN "aligned" ELSE "p64"
            /\ rd' = {}
            /\ UNCHANGED <<input, base, l, pad1, pad2, padding, ret, result>>

(* if (!padding) for (;;): a 64-byte group.                               *)
Aligned ==
  /\ phase = "aligned"
  /\ Group(64, "aligned", "none")

(* for (;;) { if (n >= 64) ..                                              *)
P64 ==
  /\ phase = "p64"
  /\ IF n >= 64 THEN Group(64, "p32", "n") ELSE Skip("p32")

(* if (n >= 32) ..                                                         *)
P32 ==
  /\ phase = "p32"
  /\ IF n >= 32 THEN Group(32, "p16", "n") ELSE Skip("p16")

(* if (n >= 16) ..                                                         *)
P16 ==
  /\ phase = "p16"
  /\ IF n >= 16 THEN Group(16, "pbytes", "n") ELSE Skip("pbytes")

(* while (n) { byte; n--; } n = 128 - n; }                                  *)
PBytes ==
  /\ phase = "pbytes"
  /\ IF n # 0
       THEN Byte(0, 1)
       ELSE /\ n' = 128 - n
            /\ phase' = "p64"
            /\ rd' = {}
            /\ UNCHANGED <<input, base, l, pad1, pad2, padding, ret, result>>

-----------------------------------------------------------------------------
(* x32 strdiff_naive, strdiff_sse2, strdiff_avx2 (strncasecmp) and i386    *)
(* strncmp_naive, strncmp_sse2, strncmp_avx2: the same loops, bounded by n *)
(* as well as by padding, and returning as ReturnAt and ReturnLast say.   *)

(* for (i = 0; i < n; i++) if (..) return i; return n-1 (strncmp: while   *)
(* (n) .. return 0).                                                       *)
NNaive ==
  /\ phase = "nnaive"
  /\ IF n # 0 THEN Byte(0, 1) ELSE ReturnLast

(* Mutant: a group is guarded by padding only.                             *)
NGroupNoSize(ph, w, nxt) ==
  /\ phase = ph
  /\ IF padding >= w THEN Group(w, nxt, "padn") ELSE Skip(nxt)

(* if (padding >= w && n >= w): a group of w bytes, both counters less w. *)
NGroup(ph, w, nxt) ==
  /\ phase = ph
  /\ IF padding >= w /\ n >= w THEN Group(w, nxt, "padn") ELSE Skip(nxt)

N64 == NGroup("n64", 64, "n32")
N32 == NGroup("n32", 32, "n16")
N16 == NGroup("n16", 16, "nbytes")

(* while (padding && n) { byte; n--; padding--; } then the aligned loop if *)
(* padding1 == padding2, else the last loop.                               *)
NBytes ==
  /\ phase = "nbytes"
  /\ IF padding # 0 /\ n # 0
       THEN Byte(1, 1)
       ELSE Skip(IF pad1 = pad2 THEN "naligned" ELSE "qtop")

(* The aligned loop reads four vectors: 64 bytes for sse2, 128 for avx2.   *)
AlignedWidth == IF tier = "avx2" THEN 128 ELSE 64

(* if (padding1 == padding2) while (n >= 64 | 128): an aligned group.      *)
NAligned ==
  /\ phase = "naligned"
  /\ IF n >= AlignedWidth THEN Group(AlignedWidth, "naligned", "n")
                          ELSE Skip("qtop")

(* for (;;) { padding = padding1 | padding2 of the current l, r;          *)
(* if (!padding) padding = 128;                                           *)
QTop ==
  /\ phase = "qtop"
  /\ padding' = LET p == Padding(a1 + l) | Padding(a2 + l)
                IN  IF p = 0 THEN 128 ELSE p
  /\ phase' = "q64"
  /\ rd' = {}
  /\ UNCHANGED <<input, base, l, pad1, pad2, n, ret, result>>

Q64 == NGroup("q64", 64, "q32")
Q32 == NGroup("q32", 32, "q16")
Q16 == NGroup("q16", 16, "qbytes")

(* while (padding && n) { byte }  if (!n) return l-s1-1; }                 *)
QBytes ==
  /\ phase = "qbytes"
  /\ IF padding # 0 /\ n # 0 THEN Byte(1, 1)
     ELSE IF n = 0 THEN ReturnLast ELSE Skip("qtop")

Returned ==
  /\ phase = "done"
  /\ UNCHANGED vars

Next ==
  \/ Call \/ Cmp \/ Naive
  \/ St64 \/ St32 \/ St16 \/ Bytes \/ Aligned \/ P64 \/ P32 \/ P16 \/ PBytes
  \/ NNaive \/ N64 \/ N32 \/ N16 \/ NBytes \/ NAligned
  \/ QTop \/ Q64 \/ Q32 \/ Q16 \/ QBytes
  \/ Returned

Spec == Init /\ [][Next]_vars

-----------------------------------------------------------------------------

Phases == {"call", "cmp", "done", "naive", "st64", "st32", "st16", "bytes",
           "aligned", "p64", "p32", "p16", "pbytes", "nnaive", "n64", "n32",
           "n16", "nbytes", "naligned", "qtop", "q64", "q32", "q16", "qbytes"}

TypeOK ==
  /\ fn \in Fns /\ nArg \in Sizes \cup {0} /\ padding \in 0 .. 128
  /\ tier \in Tiers /\ a1 \in Starts1 /\ a2 \in Starts2 /\ k \in 0 .. MaxK
  /\ kind1 \in Kinds1 /\ gap \in Gaps /\ kind2 \in Kinds2
  /\ base \in Nat /\ l \in Nat /\ pad1 \in 0 .. 127 /\ pad2 \in 0 .. 127
  /\ n \in Nat
  /\ phase \in Phases
  /\ ret \in Nat \cup {-1}
  /\ result \in Nat \cup {EQ}
  /\ rd \in SUBSET [at : Nat, w : Nat]

(* strcasecmp returns 0 for strings equal up to case and the difference   *)
(* at the first case-insensitive difference otherwise: the loop over       *)
(* strdiff, which steps over folds with s1++, s2++, stops at the right     *)
(* byte pair and never reads past both terminators.                        *)
Correct ==
  phase = "done" => result = Ref

(* strdiff never moves past the first stop from where it was called, and   *)
(* never returns an index past it: strcasecmp depends on it to see every   *)
(* case-insensitive difference.                                            *)
NeverPassesStop ==
  /\ phase \notin {"call", "cmp", "done"} => l <= StopFrom(base)
  /\ phase = "cmp" => base + ret <= StopFrom(base)

(* Every strdiff but i386's strdiff_sse2 returns exactly the index of the  *)
(* first stop, the first lane in memory order where s1 ends or the strings *)
(* differ, or, in x32's, n-1 when no stop is among the n bytes left.       *)
(* (i386 strdiff_sse2 tests its 16-lane masks against -1, so a group wider *)
(* than 16 bytes always counts as found and it may return earlier: only   *)
(* NeverPassesStop holds of it.)                                           *)
DiffExact ==
  phase = "cmp" /\ ~(fn = "strcasecmp" /\ tier = "sse2") =>
    base + ret = IF fn = "strcasecmp" THEN StopFrom(base)
                 ELSE Min({StopFrom(base), nArg - 1})

(* No load of s1 or s2 touches a byte past the 128-byte block holding the  *)
(* last byte the caller guarantees: the groups are sized by the lesser     *)
(* padding so that a load never crosses a boundary either string may end  *)
(* before.                                                                 *)
NoOverread ==
  \A ld \in rd :
    /\ (a1 + ld.at + ld.w - 1) \div 128 <= (a1 + End) \div 128
    /\ (a2 + ld.at + ld.w - 1) \div 128 <= (a2 + End) \div 128

(* The n-bounded strdiff of strncasecmp and strncmp reads no byte past the *)
(* n the caller passed, nor past the 128-byte block holding the last byte  *)
(* the strings are known to have: its groups are guarded by n and by a    *)
(* padding recomputed from both pointers after every boundary.             *)
BoundedNoOverread ==
  fn # "strcasecmp" =>
    \A ld \in rd :
      /\ ld.at + ld.w <= nArg
      /\ (a1 + ld.at + ld.w - 1) \div 128 <= (a1 + End) \div 128
      /\ (a2 + ld.at + ld.w - 1) \div 128 <= (a2 + End) \div 128
====
