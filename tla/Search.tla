------------------------------- MODULE Search -------------------------------
(***************************************************************************)
(* memmem (x32/memmem.c) and strstr (x86_64/strstr.c).                     *)
(*                                                                         *)
(* Both wrappers move h to the first byte equal to n[0] (memchr, strchr),  *)
(* then pick a routine by the needle's length l: for l <= 8 a loop that    *)
(* keeps the window h[0..l-1] in an integer register and shifts one byte   *)
(* in per step; for l <= 16 (has_sse2) the same with an __m128i; for       *)
(* memmem and l <= 32 (has_avx2) with an __m256i; then a loop of memcmp    *)
(* (strncmp) at every offset, and for l >= 512 the two-way search.         *)
(*                                                                         *)
(* Bytes are small naturals and the register hw is a function from its     *)
(* lanes (lane 0 is the byte at h) to bytes, so shifts, ORs and compares   *)
(* are those of the code.  The haystack hay and needle ndl are sequences;  *)
(* At(s, i) is s[i] for the 0-based i of the code.  strstr's strings end   *)
(* at a 0 just past the sequence; a byte past a memmem haystack is junk,   *)
(* read as 0.                                                              *)
(***************************************************************************)
EXTENDS Integers, Sequences, FiniteSets, Bitwise

CONSTANTS
  Calls,       \* the <<function, processor, needle length>> triples checked
  Needles(_),  \* the needles of a length, sequences of bytes
  Hays(_),     \* the haystacks for a needle length, sequences of bytes
  TwoWayMin    \* 512: the needle length from which the two-way search is used

(* The processors: "fallback", "sse2" (has_sse2), "avx2" (and has_avx2).   *)
Fns   == {"memmem", "strstr"}
Tiers == {"fallback", "sse2", "avx2"}

ASSUME /\ Calls \subseteq Fns \X Tiers \X Nat
       /\ TwoWayMin \in Nat

NULL == -1

VARIABLES
  fn, tier, hay, ndl,  \* the call
  phase,    \* the routine the code is in; "done" once it has returned
  h,        \* h: the haystack pointer, an offset into hay
  k,        \* memmem: the bytes left from h
  i,        \* the offset the memcmp / strncmp loop compares at
  hw, nw,   \* the window registers: lane -> byte
  result,   \* the pointer returned, an offset into hay, or NULL
  rd,       \* the offsets of hay read by the last step
  tw        \* the two-way search: [ms, p, mem, mem0, z]

input == <<fn, tier, hay, ndl>>
vars  == <<input, phase, h, k, i, hw, nw, result, rd, tw>>

At(s, x) == IF x \in 0 .. Len(s) - 1 THEN s[x + 1] ELSE 0

l == Len(ndl)

(* A needle that occurs at offset x of the haystack.                      *)
OccursAt(x) == x + l <= Len(hay) /\ \A j \in 0 .. l - 1 : At(hay, x + j) = At(ndl, j)

(* The reference: the first occurrence, or NULL.                          *)
First ==
  LET xs == {x \in 0 .. Len(hay) : OccursAt(x)}
  IN  IF xs = {} THEN NULL ELSE CHOOSE x \in xs : \A y \in xs : x <= y

(* memchr(h0, n[0], k) and strchr(h, n[0]): the first byte equal to n[0], *)
(* or NULL (strchr: also at the terminator, which n[0] # 0 never is).      *)
Chr ==
  LET xs == {x \in 0 .. Len(hay) - 1 : At(hay, x) = At(ndl, 0)}
  IN  IF xs = {} THEN NULL ELSE CHOOSE x \in xs : \A y \in xs : x <= y

(* The longest needle a window routine takes on this processor.           *)
WinMax == CASE fn = "strstr" -> IF tier = "fallback" THEN 8 ELSE 16
            [] tier = "avx2" -> 32
            [] tier = "sse2" -> 16
            [] OTHER         -> 8

(* The register of memmemL / strstrL, in bytes: uint16_t, uint32_t,       *)
(* uint64_t, __m128i, __m256i.                                             *)
W == CASE l = 2  -> 2
       [] l <= 4  -> 4
       [] l <= 8  -> 8
       [] l <= 16 -> 16
       [] OTHER   -> 32

(* The lanes the prologue fills.  For 17 <= L <= 31 the upper lanes come   *)
(* from _mm256_bslli_epi128 of _mm256_castsi128_si256(load(n + L - 16)):   *)
(* the shift is within each 128-bit lane, so the bytes shifted go to the   *)
(* low half, which _mm256_insertf128_si256(.., load(n), 0) then replaces.  *)
(* The cast leaves the upper half undefined, but the shift fills its lanes *)
(* 16 .. L - 1, the ones compared, with 0; the undefined lanes L .. 31     *)
(* only ever move down into lane L - 1, which each step's insert replaces, *)
(* so they are modelled as 0.                                              *)
Loaded == IF 17 <= l /\ l <= 31 THEN 16 ELSE l

Load(s, at) == [j \in 0 .. W - 1 |-> IF j < Loaded THEN At(s, at + j) ELSE 0]

(* Mutant: the movemask mask drops the needle's last lane.               *)
CmpShort == 0 .. l - 2

(* The lanes compared: all of the register, but for 17 <= L <= 31 the     *)
(* movemask is masked with (1 << L) - 1.                                   *)
Cmp == IF 17 <= l /\ l <= 31 THEN 0 .. l - 1 ELSE 0 .. W - 1

(* Mutant: the integer window ORs in h[L - 1] instead of h[L].           *)
ShiftOff ==
  LET sh == [j \in 0 .. W - 1 |-> IF j = W - 1 THEN 0 ELSE hw[j + 1]]
  IN  [sh EXCEPT ![l - 1] = @ | At(hay, h + l - 1)]

(* One shift of the window: hw <<= 8 (lane j takes lane j + 1) then        *)
(* hw |= h[L] into lane L - 1; for the __m128i, _mm_bsrli_si128(hw, 1) OR  *)
(* _mm_bslli_si128(loadu_si64(h + L - 7), L - 8), lanes L - 8 .. L - 1;   *)
(* for the __m256i, _mm256_bsrli_epi128(hw, 1), which shifts each 128-bit *)
(* half (lanes 15 and 31 take 0), then _mm256_insert_epi8(.., h[L], L - 1).*)
(* hw <<= 8 of the integer windows, _mm_bsrli_si128(hw, 1), and          *)
(* _mm256_bsrli_epi128(hw, 1), a byte shift within each 128-bit half:     *)
(* lane j takes lane j + 1, and the top lane of each half takes 0.         *)
ByteShift(v) == [j \in 0 .. W - 1 |-> IF j = W - 1 \/ j % 16 = 15 THEN 0 ELSE v[j + 1]]

Shift ==
  LET sh == ByteShift(hw)
  IN  CASE W <= 8  -> [sh EXCEPT ![l - 1] = @ | At(hay, h + l)]
        [] W = 16  -> [j \in 0 .. W - 1 |->
                         IF j >= l - 8 /\ j < l THEN sh[j] | At(hay, h + j + 1)
                         ELSE sh[j]]
        [] OTHER   -> [sh EXCEPT ![l - 1] = At(hay, h + l)]

(* The bytes the shift loads.                                              *)
ShiftReads == IF W = 16 THEN h + l - 7 .. h + l ELSE {h + l}

Done(r) == result' = r /\ phase' = "done"

(* Return r from the call.                                                 *)
Stop(r) == Done(r) /\ UNCHANGED <<h, k, i, hw, nw, tw>>

(* The routine the wrapper calls for this needle and processor.           *)
Route == CASE l <= WinMax   -> "wload"
           [] l < TwoWayMin -> "naive"
           [] OTHER         -> "twinit"

(* The bytes memchr / strchr reads: up to the match, or the whole buffer  *)
(* (strstr: to the terminator).                                            *)
ChrReads == IF Chr = NULL THEN 0 .. Len(hay) - 1 + (IF fn = "strstr" THEN 1 ELSE 0)
            ELSE 0 .. Chr

(* memmem: if (!l) return h0; if (k < l) return NULL; h = memchr(h0, *n, *)
(* k); if (!h || l == 1) return h; k -= h - h0; if (k < l) return NULL;    *)
(* then the switch on l, has_sse2 and has_avx2.                            *)
MemmemCall ==
  /\ phase = "call" /\ fn = "memmem"
  /\ rd' = IF l = 0 \/ Len(hay) < l THEN {} ELSE ChrReads
  /\ CASE l = 0                     -> Stop(0)
       [] Len(hay) < l              -> Stop(NULL)
       [] Chr = NULL \/ l = 1       -> Stop(Chr)
       [] Len(hay) - Chr < l        -> Stop(NULL)
       [] OTHER -> /\ h' = Chr /\ k' = Len(hay) - Chr /\ phase' = Route
                   /\ UNCHANGED <<i, hw, nw, result, tw>>
  /\ UNCHANGED input

(* The bytes h[1 .. Upto] the strstr wrapper tests for 0 before it calls  *)
(* strstrL, or all it tests when no window routine takes the needle.      *)
Upto == IF l <= WinMax THEN l - 1 ELSE WinMax

(* strstr: if (!n[0]) return h; h = strchr(h, n[0]); if (!h || !n[1])     *)
(* return h; then for L = 2, 3, ..: if (!h[L - 1]) return NULL; if (!n[L])  *)
(* return strstrL(h, n); up to L = 8, and with has_sse2 up to 16; past     *)
(* those the strnlen(n, 512) loop or the two-way search.                  *)
StrstrCall ==
  /\ phase = "call" /\ fn = "strstr"
  /\ LET zeros == {j \in 1 .. Upto : At(hay, Chr + j) = 0}
         z     == IF zeros = {} THEN Upto ELSE CHOOSE j \in zeros : \A y \in zeros : j <= y
     IN  /\ rd' = IF l = 0 THEN {}
                  ELSE ChrReads \cup (IF Chr = NULL \/ l = 1 THEN {} ELSE Chr + 1 .. Chr + z)
         /\ CASE l = 0                -> Stop(0)
              [] Chr = NULL \/ l = 1  -> Stop(Chr)
              [] zeros # {}           -> Stop(NULL)
              [] OTHER -> /\ h' = Chr /\ phase' = Route
                          /\ UNCHANGED <<k, i, hw, nw, result, tw>>
  /\ UNCHANGED input

(* The prologue of memmemL / strstrL: nw and hw from n and h.              *)
WLoad ==
  /\ phase = "wload"
  /\ hw' = Load(hay, h) /\ nw' = Load(ndl, 0)
  /\ rd' = h .. h + l - 1
  /\ phase' = "wloop"
  /\ UNCHANGED <<input, h, k, i, result, tw>>

(* while (k >= L) (strstr: while (h[L - 1])) { if (hw == nw) return h;    *)
(* shift; h++; k--; } return NULL;                                         *)
WLoop ==
  /\ phase = "wloop"
  /\ LET go    == IF fn = "memmem" THEN k >= l ELSE At(hay, h + l - 1) # 0
         test  == IF fn = "strstr" THEN {h + l - 1} ELSE {}
         equal == \A j \in Cmp : hw[j] = nw[j]
     IN  /\ rd' = test \cup (IF go /\ ~equal THEN ShiftReads ELSE {})
         /\ IF ~go THEN Stop(NULL)
            ELSE IF equal THEN Stop(h)
            ELSE /\ hw' = Shift /\ h' = h + 1
                 /\ k' = IF fn = "memmem" THEN k - 1 ELSE k
                 /\ UNCHANGED <<i, nw, phase, result, tw>>
  /\ UNCHANGED input

(* memmem, l < 512: for (i = 0; i <= k - l; i++) if (!memcmp(h + i, n, l)) *)
(* return h + i; return NULL;                                              *)
MemmemNaive ==
  /\ phase = "naive" /\ fn = "memmem"
  /\ IF i > k - l THEN Stop(NULL) /\ rd' = {}
     ELSE /\ rd' = h + i .. h + i + l - 1
          /\ IF OccursAt(h + i) THEN Stop(h + i)
             ELSE i' = i + 1 /\ UNCHANGED <<h, k, hw, nw, phase, result, tw>>
  /\ UNCHANGED input

(* strstr, l < 512: do if (!strncmp(h, n, l)) return h; while (h[1]), h++ *)
(* strncmp reads to the first difference, terminator or l-th byte.        *)
StrstrNaive ==
  /\ phase = "naive" /\ fn = "strstr"
  /\ LET x    == h + i
         ds   == {j \in 0 .. l - 1 : At(hay, x + j) # At(ndl, j) \/ At(hay, x + j) = 0}
         last == IF ds = {} THEN l - 1 ELSE CHOOSE j \in ds : \A y \in ds : j <= y
     IN  /\ rd' = (x .. x + last) \cup {x + 1}
         /\ IF ds = {} THEN Stop(x)
            ELSE IF At(hay, x + 1) = 0 THEN Stop(NULL)
            ELSE i' = i + 1 /\ UNCHANGED <<h, k, hw, nw, phase, result, tw>>
  /\ UNCHANGED input

-----------------------------------------------------------------------------
(* twoway_memmem and twoway_strstr (Rich Felker's two-way search).        *)

Larger(a, b) == IF a > b THEN a ELSE b

(* Mutant: the shift table keeps the first index of a byte, not the last.*)
ShiftOfFirst(b) == 1 + (CHOOSE x \in 0 .. l - 1 : At(ndl, x) = b /\
                          \A y \in 0 .. l - 1 : At(ndl, y) = b => x <= y)

(* BITOP(byteset, n[i], |=), shift[n[i]] = i + 1 for i = 0 .. l - 1: the  *)
(* bytes of the needle, and one past the last index of each.               *)
InNeedle(b) == \E x \in 0 .. l - 1 : At(ndl, x) = b

ShiftOf(b) == 1 + (CHOOSE x \in 0 .. l - 1 : At(ndl, x) = b /\
                     \A y \in 0 .. l - 1 : At(ndl, y) = b => y <= x)

(* "Compute maximal suffix": ip = -1 (size_t -1, which ip + k brings back *)
(* to k - 1); jp = 0; k = p = 1; while (jp + k < l) ..; gt chooses the     *)
(* comparison n[ip + k] > n[jp + k] of the first loop or < of the second. *)
RECURSIVE MaxSuf(_, _, _, _, _)
MaxSuf(ip, jp, kk, pp, gt) ==
  IF jp + kk >= l THEN <<ip, pp>>
  ELSE LET a == At(ndl, ip + kk)
           b == At(ndl, jp + kk)
       IN  IF a = b
             THEN IF kk = pp THEN MaxSuf(ip, jp + pp, 1, pp, gt)
                             ELSE MaxSuf(ip, jp, kk + 1, pp, gt)
           ELSE IF (a > b) = gt THEN MaxSuf(ip, jp + kk, 1, jp + kk - ip, gt)
           ELSE MaxSuf(jp, jp + 1, 1, 1, gt)

(* memcmp(n, n + p, ms + 1) == 0: the needle has period p.               *)
Periodic(ms, p) == \A x \in 0 .. ms : At(ndl, x) = At(ndl, x + p)

(* Mutant: mem0 = l - p whether or not the memcmp found a period.          *)
Mem0Always(ms, p) == l - p

(* mem0: l - p for a periodic needle, else 0.                             *)
Mem0(ms, p) == IF Periodic(ms, p) THEN l - p ELSE 0

(* Mutant: the search loop has lost its end-of-haystack test.             *)
ShortNever(zz) == FALSE

(* if ((size_t)(z - h) < l): fewer than l bytes are left from h.          *)
Short(zz) == zz - h < l

(* Mutant: z += grow whatever memchr found.                                *)
NextZBlind(z) == z + (l | 63)

(* twoway_strstr: z2 = memchr(z, 0, l | 63); z = z2 ? z2 : z + grow.      *)
NextZ(z) == IF Len(hay) - z < (l | 63) THEN Len(hay) ELSE z + (l | 63)

(* The prologue: both maximal suffixes, the larger ip + 1 giving ms and p; *)
(* if (memcmp(n, n + p, ms + 1)) { mem0 = 0; p = MAX(ms, l - ms - 1) + 1; } *)
(* else mem0 = l - p.  twoway_strstr first walks n and h together to the   *)
(* needle's end and returns 0 if h ends first; z, its incremental end of   *)
(* the haystack, starts at h; twoway_memmem's is h + k.                    *)
TwoWayInit ==
  /\ phase = "twinit"
  /\ LET s1   == MaxSuf(-1, 0, 1, 1, TRUE)
         s2   == MaxSuf(-1, 0, 1, 1, FALSE)
         ms   == IF s2[1] + 1 > s1[1] + 1 THEN s2[1] ELSE s1[1]
         p    == IF s2[1] + 1 > s1[1] + 1 THEN s2[2] ELSE s1[2]
         per  == Periodic(ms, p)
     IN  IF fn = "strstr" /\ h + l > Len(hay)
           THEN Stop(NULL) /\ rd' = h .. Len(hay)
           ELSE /\ tw' = [ms   |-> ms,
                          p    |-> IF per THEN p ELSE Larger(ms, l - ms - 1) + 1,
                          mem  |-> 0,
                          mem0 |-> Mem0(ms, p),
                          z    |-> IF fn = "memmem" THEN h + k ELSE h]
                /\ rd' = IF fn = "strstr" THEN h .. h + l - 1 ELSE {}
                /\ phase' = "twoway"
                /\ UNCHANGED <<h, k, i, hw, nw, result>>
  /\ UNCHANGED input

(* for (k = MAX(ms + 1, mem); k < l && n[k] == h[k]; k++); (strstr: n[k] *)
(* for k < l): the first mismatch of the right half, or l.                 *)
RightStop(ms, mem) ==
  LET bad == {x \in Larger(ms + 1, mem) .. l - 1 : At(ndl, x) # At(hay, h + x)}
  IN  IF bad = {} THEN l ELSE CHOOSE x \in bad : \A y \in bad : x <= y

(* for (k = ms + 1; k > mem && n[k - 1] == h[k - 1]; k--): the left half  *)
(* from the right down to mem; k <= mem when all of it matches.            *)
LeftStop(ms, mem) ==
  LET bad == {x \in mem + 1 .. ms + 1 : At(ndl, x - 1) # At(hay, h + x - 1)}
  IN  CASE ms + 1 <= mem -> ms + 1
        [] bad = {}      -> mem
        [] OTHER         -> CHOOSE x \in bad : \A y \in bad : x >= y

(* One iteration of the search loop.  strstr first grows z when fewer     *)
(* than l bytes are known: z2 = memchr(z, 0, l | 63); at the terminator,   *)
(* return 0 if h has fewer than l bytes left.  Both: if z - h < l return  *)
(* 0; the last byte of the window, if not in the needle, moves h by l,    *)
(* else by l - shift[..] unless that is 0 (at least mem); then the right  *)
(* half n[MAX(ms + 1, mem) ..] is compared, a mismatch at k moving h by    *)
(* k - ms; then the left half n[ms .. mem] from the right: all equal       *)
(* returns h, else h += p and mem = mem0.                                  *)
TwoWayStep ==
  /\ phase = "twoway"
  /\ LET ms   == tw.ms
         mem  == tw.mem
         grow == l | 63
         term == Len(hay)
         more == fn = "strstr" /\ tw.z - h < l
         zz   == IF more THEN NextZ(tw.z) ELSE tw.z
         zrd  == IF more THEN tw.z .. (IF term - tw.z < grow THEN term ELSE tw.z + grow - 1)
                 ELSE {}
         last == At(hay, h + l - 1)
         skip == l - ShiftOf(last)
         from == Larger(ms + 1, mem)
         kr   == RightStop(ms, mem)
         kl   == LeftStop(ms, mem)
         Go(nh, nm) == /\ h' = nh /\ tw' = [tw EXCEPT !.mem = nm, !.z = zz]
                       /\ UNCHANGED <<phase, result>>
     IN  IF Short(zz)
           THEN Stop(NULL) /\ rd' = zrd
           ELSE /\ rd' = zrd \cup {h + l - 1}
                         \cup (IF InNeedle(last) /\ skip = 0
                               THEN h + from .. h + (IF kr < l THEN kr ELSE l - 1) ELSE {})
                         \cup (IF InNeedle(last) /\ skip = 0 /\ kr = l
                               THEN h + (IF kl > mem THEN kl - 1 ELSE kl) .. h + ms ELSE {})
                /\ CASE ~InNeedle(last) -> Go(h + l, 0)
                     [] skip # 0        -> Go(h + Larger(skip, mem), 0)
                     [] kr < l          -> Go(h + kr - ms, 0)
                     [] kl <= mem       -> Stop(h)
                     [] OTHER           -> Go(h + tw.p, tw.mem0)
  /\ UNCHANGED <<input, k, i, hw, nw>>

(* The call has returned.                                                  *)
Returned == phase = "done" /\ UNCHANGED vars

Init ==
  /\ \E c \in Calls : /\ fn = c[1] /\ tier = c[2]
                     /\ ndl \in Needles(c[3]) /\ hay \in Hays(c[3])
  /\ fn = "strstr" => \A x \in 0 .. Len(hay) - 1 : At(hay, x) # 0
  /\ fn = "strstr" => \A x \in 0 .. Len(ndl) - 1 : At(ndl, x) # 0
  /\ phase = "call"
  /\ h = 0 /\ k = 0 /\ i = 0
  /\ hw = <<>> /\ nw = <<>>
  /\ result = NULL /\ rd = {}
  /\ tw = [ms |-> 0, p |-> 0, mem |-> 0, mem0 |-> 0, z |-> 0]

Next ==
  \/ MemmemCall \/ StrstrCall
  \/ WLoad \/ WLoop
  \/ MemmemNaive \/ StrstrNaive
  \/ TwoWayInit \/ TwoWayStep
  \/ Returned

Spec == Init /\ [][Next]_vars

-----------------------------------------------------------------------------

TypeOK ==
  /\ <<fn, tier, l>> \in Calls
  /\ hay \in Seq(Nat) /\ ndl \in Seq(Nat)
  /\ phase \in {"call", "wload", "wloop", "naive", "twinit", "twoway", "done"}
  /\ tw \in [ms : Int, p : Nat, mem : Nat, mem0 : Nat, z : Nat]
  /\ h \in 0 .. Len(hay) /\ k \in Nat /\ i \in Nat
  /\ result \in 0 .. Len(hay) \cup {NULL}
  /\ rd \subseteq Nat

(* Every call returns the first occurrence of the needle in the haystack, *)
(* the byte-at-a-time reference, whichever routine the length and the     *)
(* processor select.                                                       *)
Correct == phase = "done" => result = First

(* The window loops keep in their register exactly the l bytes at h, and  *)
(* the needle in nw, with every other lane 0: the prologue's two loads and *)
(* each step's shift and OR (or insert) rebuild the window.                *)
Window(s, x) == [j \in 0 .. W - 1 |-> IF j < l THEN At(s, x + j) ELSE 0]

WindowTracks == phase = "wloop" => hw = Window(hay, h) /\ nw = Window(ndl, 0)

(* The last byte the caller makes readable: memmem's k-th, strstr's        *)
(* terminator.                                                             *)
LastReadable == IF fn = "memmem" THEN Len(hay) - 1 ELSE Len(hay)

NoOverread == \A x \in rd : x <= LastReadable

(* strstr never reads a byte past the haystack's terminator: the wrapper  *)
(* checks h[1..L-1] before a window routine loads them, and each step      *)
(* tests h[L - 1] before it shifts h[L] in.                                *)
StrstrNoOverread == fn = "strstr" => NoOverread

(* Until the call returns no occurrence lies before the offset the code   *)
(* compares next: the window loops' h, the memcmp / strncmp loops' h + i, *)
(* and the two-way search's h, which its shifts by l, by the shift table,  *)
(* by k - ms and by the period p must never move past an occurrence.       *)
NeverSkips ==
  phase \in {"wloop", "naive", "twoway"} => First = NULL \/ First >= h + i

(* The two-way search's memory: when it shifts by the period p of a       *)
(* periodic needle it keeps mem = l - p, the bytes of the needle known to  *)
(* match at the new h; they must.                                          *)
MemPrefix ==
  phase = "twoway" => \A x \in 0 .. tw.mem - 1 : At(hay, h + x) = At(ndl, x)
=============================================================================
