----------------------------- MODULE MCSearch -----------------------------
(* The inputs the runs of Search check.  A string is a run of the byte 1   *)
(* with a few bytes set to another value at any positions: which lanes of *)
(* a window differ, and where, is what the routines tell apart.            *)
EXTENDS Search

(* The sets of at most d (<= 2) positions of 1 .. len.                    *)
Spots(len, d) ==
  {{}} \cup {{x} : x \in IF d >= 1 THEN 1 .. len ELSE {}}
       \cup {{x, y} : x \in IF d >= 2 THEN 1 .. len ELSE {}, y \in 1 .. len}

(* The strings of length len of 1s with at most d bytes from others.      *)
Sparse(len, others, d) ==
  UNION {{[x \in 1 .. len |-> IF x \in S THEN f[x] ELSE 1] : f \in [S -> others]}
         : S \in Spots(len, d)}

(* The string 1 1 2 1 1 2 .. of length len: a needle of period 3.        *)
Period3(len) == [x \in 1 .. len |-> IF x % 3 = 0 THEN 2 ELSE 1]

(* s with at most d of its bytes swapped between 1 and 2.                 *)
Flips(s, d) ==
  {[x \in 1 .. Len(s) |-> IF x \in S THEN 3 - s[x] ELSE s[x]] : S \in Spots(Len(s), d)}

(* Needles with at most one byte 2, haystacks as long as the needle, one   *)
(* shorter, and two and three longer, with at most two bytes 2 for short   *)
(* needles and one for the vector lengths.                                 *)
SearchNeedles(L) == Sparse(L, {2}, 1) \cup (IF L >= 12 THEN {Period3(L)} ELSE {})

SearchHays(L) ==
  UNION {Sparse(m, {2}, IF L <= 8 THEN 2 ELSE 1) : m \in {L - 1, L, L + 2, L + 3} \cap Nat}
  \cup (IF L >= 12 THEN UNION {Flips(Period3(m), 1) : m \in {L + 2, L + 5}} ELSE {})

(* Every routine on every processor: the words (2, 3, 4, 5, 8), the       *)
(* __m128i (9, 12, 16), memcmp / strncmp loops (9 without sse2, 17 for     *)
(* strstr and without avx2) and the wrapper's early returns (0, 1).        *)
PassLens == {0, 1, 2, 3, 4, 5, 8, 9, 12, 16, 17}

PassCalls ==
  {c \in Fns \X Tiers \X PassLens : ~(c[1] = "memmem" /\ c[2] = "avx2" /\ c[3] >= 17)}

(* memmem on AVX2 with a needle of 17 to 32 bytes.                         *)
Avx2Calls == {"memmem"} \X {"avx2"} \X {17, 24, 32}
=============================================================================
