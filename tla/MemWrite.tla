------------------------------ MODULE MemWrite ------------------------------
(* The stores of memset and wmemset (x86_64/memset.c, x86_64/wmemset.c),  *)
(* the copies of memcpy (i386/memcpy.c) and memmove (i386/memmove.c), and *)
(* the copies that stop at a terminator or a byte: stpcpy (x32/stpcpy.c), *)
(* wcpcpy (i386/wcpcpy.c), stpncpy (i386/stpncpy.c) and memccpy           *)
(* (x86_64/memccpy.c), in every tier: one action per loop iteration and   *)
(* per if step, and the size and alignment tests in the order the code    *)
(* makes them.                                                             *)
(*                                                                         *)
(* Memory is the bytes of dest: the only ones a correct call changes.     *)
(* Each byte first holds its own address, so a byte copied from src + j   *)
(* holds src + j: every copied value says where it came from.  A byte of   *)
(* src outside dest still holds its address when it is read.  memset and  *)
(* wmemset store Fill.  A step's loads all happen before its stores, as   *)
(* in the code, where a group of vectors is loaded before it is stored.   *)
EXTENDS Integers, FiniteSetsExt

CONSTANTS
  Fns,            \* the functions called
  Dests,          \* the addresses dest is given
  Deltas,         \* src - dest for the copies
  SetSizes,       \* memset's n, in bytes
  WSizes,         \* wmemset's n, in wchar_t units
  CopySizes,      \* memcpy's and memmove's n, in bytes
  NSizes,         \* stpncpy's and memccpy's n, in bytes
  Terms,          \* where src's terminator (or memccpy's c) is, in units
  CopyStreamMin,  \* stands for 1 << 21, the n above which the copies stream
  SetStreamMin,   \* stands for 1 << 21, the vector count above which the
                  \* memsets stream
  SizeBits,       \* the width of size_t the model keeps, for its wrap-around
  AvxWideWmemset, \* whether wmemset_avx is called with n >= 17
  StpncpyBugs     \* whether stpncpy_sse2 gets the inputs of its defects

ASSUME /\ Fns \subseteq {"memset", "wmemset", "memcpy", "memmove",
                 "stpcpy", "wcpcpy", "stpncpy", "memccpy"}
       /\ CopyStreamMin >= 256 /\ SetStreamMin >= 1
       /\ SizeBits \in 5 .. 30

VARIABLES
  fn, tier, d, s, N,  \* the call: function, tier, dest, src, n
  z,                  \* the unit of src holding the terminator, or c
  phase,              \* the loop or if the code is at
  n, p,               \* the code's running n, and its running dest pointer
  i, m,               \* a loop index, and the bound of a padding loop
  mem,                \* the bytes of dest
  wr,                 \* the stores of the last step: [at, w, al, nt]
  ret,                \* the pointer the call returns
  nt                  \* whether a streaming store is not yet fenced

input == <<fn, tier, d, s, N, z>>
vars  == <<fn, tier, d, s, N, z, phase, n, p, i, m, mem, wr, ret, nt>>

Sets     == {"memset", "wmemset"}
Strs     == {"stpcpy", "wcpcpy", "stpncpy"}    \* the copies of a string
TiersOf(f) == IF f \in Sets THEN {"fallback", "sse2", "avx"} ELSE {"naive", "sse2"}

Fill == -1                  \* the byte, or wchar_t, c
Zero == 0                   \* a NUL byte
Null == 0                   \* the NULL pointer
SizeMod == 2 ^ SizeBits     \* size_t arithmetic wraps modulo this
Wrap(x) == x % SizeMod

Elem == IF fn \in {"wmemset", "wcpcpy"} THEN 4 ELSE 1  \* sizeof the unit
Delta == s - d

(* The first byte of the unit of src that holds the terminator or c; the  *)
(* bytes before it are not NUL (and not c).  A string's terminator unit   *)
(* reads as Zero, every other byte of src as its own address.             *)
TermAt == s + z * Elem
SrcVal(b) == IF fn \in Strs /\ TermAt <= b /\ b < TermAt + Elem THEN Zero ELSE b
(* The src block of w bytes at b holds the terminator (or c).             *)
HitIn(b, w) == b <= TermAt /\ TermAt < b + w

(* The bytes the call may change: n units, the string up to its           *)
(* terminator, or memccpy's bytes up to c.                                 *)
NB == CASE fn \in {"stpcpy", "wcpcpy"} -> (z + 1) * Elem
        [] fn = "memccpy"             -> IF z < N THEN z + 1 ELSE N
        [] OTHER                      -> N * Elem
Dest == d .. d + NB - 1

(* The memory before the call, and what it must be after, and what it     *)
(* must return.                                                            *)
Before == [a \in Dest |-> a]
Goal   == [a \in Dest |-> CASE fn \in Sets                     -> Fill
                           [] fn = "stpncpy" /\ a >= d + z -> Zero
                           [] OTHER                       -> SrcVal(a + Delta)]
Want == CASE fn \in {"stpcpy", "wcpcpy"} -> d + z * Elem
          [] fn = "stpncpy"             -> d + Min({z, N})
          [] fn = "memccpy"             -> IF z < N THEN d + z + 1 ELSE Null
          [] OTHER                      -> d

(* A store of w bytes at at: unaligned, aligned (_mm_store_si128 and its  *)
(* 256-bit form), or streaming (_mm_stream_si128 and its 256-bit form),    *)
(* which is aligned and not ordered with later stores until an sfence.    *)
Chunk(at, w)   == [at |-> at, w |-> w, al |-> FALSE, nt |-> FALSE]
Aligned(at, w) == [at |-> at, w |-> w, al |-> TRUE, nt |-> FALSE]
Stream(at, w)  == [at |-> at, w |-> w, al |-> TRUE, nt |-> TRUE]

Covers(ws, a) == \E x \in ws : x.at <= a /\ a < x.at + x.w

(* The value a store puts at a: the fill, NUL in __stpncpy's memset, or   *)
(* the byte Delta away, read before any store of the step.                 *)
Fetch(a) == CASE phase = "zfill"      -> Zero
              [] fn \in Sets          -> Fill
              [] a + Delta \in Dest   -> mem[a + Delta]
              [] OTHER                -> SrcVal(a + Delta)

Store(ws) ==
  /\ UNCHANGED input
  /\ wr' = ws
  /\ mem' = [a \in Dest |-> IF Covers(ws, a) THEN Fetch(a) ELSE mem[a]]
  /\ nt' = (nt \/ \E x \in ws : x.nt)

Put(ws) == Store(ws) /\ UNCHANGED ret

(* The stores ws, then return r.                                           *)
PutRet(ws, r) == Store(ws) /\ ret' = r

NoStore == wr' = {} /\ UNCHANGED <<mem, input, ret, nt>>

(* _mm_sfence(): the streaming stores are ordered before what follows.     *)
Fence == wr' = {} /\ nt' = FALSE /\ UNCHANGED <<mem, input, ret>>

Go(ph) == phase' = ph

-----------------------------------------------------------------------------
(* memset and wmemset.                                                     *)

(* The bytes or units of the head ladder: s8[k] of memset, s[k] of wmemset.*)
U(k) == Chunk(d + k * Elem, Elem)
(* The 4-byte words of the ladder, from the aligned pointer p.            *)
W(k) == Chunk(p + 4 * k, 4)

(* s8[0] = s8[n-1] = c, or s[0] = s[n-1] = c, after if (n < 1).            *)
Ends ==
  /\ phase = "ends"
  /\ IF N < 1 THEN NoStore ELSE Put({U(0), U(N - 1)})
  /\ Go(IF N < 3 THEN "done" ELSE "inner")
  /\ UNCHANGED <<n, p, i, m>>

(* The width of the vectors of the aligned loops.                          *)
V == IF tier = "avx" /\ (fn = "memset" \/ N >= 17) THEN 32 ELSE 16

(* Padding computed from d rather than d - 1.                             *)
PaddingFromD ==
  CASE fn = "memset" /\ V = 32 -> 31 - (d % 32)
    [] fn = "memset"           -> 15 - (d % 16)
    [] V = 32                  -> 4 * (31 - ((d - 4) % 32) \div 4)
    [] OTHER                   -> 4 * ((15 - ((d - 4) % 16)) \div 4)

(* The bytes from dest to the first aligned vector or word the code       *)
(* computes; wmemset's units are 4 bytes.  wmemset_avx's large path       *)
(* divides only the remainder by sizeof(wchar_t), and subtracts it from   *)
(* 31.                                                                     *)
Padding ==
  CASE fn = "memset" /\ V = 32 -> 31 - ((d - 1) % 32)
    [] fn = "memset"           -> 15 - ((d - 1) % 16)
    [] V = 32                  -> 4 * (31 - ((d - 4) % 32) \div 4)
    [] OTHER                   -> 4 * ((15 - ((d - 4) % 16)) \div 4)

(* s8[1] = s8[2] = s8[n-3] = s8[n-2] = c, after if (n < 3).  wmemset goes *)
(* on to its aligned vectors, memset to its aligned words.                 *)
Inner ==
  /\ phase = "inner"
  /\ Put({U(1), U(2), U(N - 3), U(N - 2)})
  /\ IF N < 7
       THEN Go("done") /\ UNCHANGED <<n, p>>
     ELSE IF fn = "memset"
       THEN LET pad == 3 - ((d - 1) % 4)
            IN  /\ p' = d + pad
                /\ n' = (N - pad) \div 4
                /\ Go("words")
     ELSE /\ p' = d + Padding
          /\ n' = Wrap(N - Padding \div 4) \div 4
          /\ Go(IF tier = "avx" THEN "blocks" ELSE "singles")
  /\ UNCHANGED <<i, m>>

(* s32[0] = s32[n-1] = c32, on the words from the 4-aligned p.             *)
Words ==
  /\ phase = "words"
  /\ Put({W(0), W(n - 1)})
  /\ Go(IF n < 3 THEN "done" ELSE "words1")
  /\ UNCHANGED <<n, p, i, m>>

(* s32[1] = s32[2] = s32[n-3] = s32[n-2] = c32: the end of memset_sse2's  *)
(* small path.                                                             *)
Words1 ==
  /\ phase = "words1"
  /\ Put({W(1), W(2), W(n - 3), W(n - 2)})
  /\ Go(IF tier = "sse2" \/ n < 7 THEN "done" ELSE "words3")
  /\ UNCHANGED <<n, p, i, m>>

(* Words3 with the skip to the 8-aligned s64 one word too long.          *)
Words3SkipLong ==
  /\ phase = "words3"
  /\ Put({W(k) : k \in {3, 4, 5, 6, n - 7, n - 6, n - 5, n - 4}})
  /\ IF tier = "avx"
       THEN Go("done") /\ UNCHANGED <<n, p>>
       ELSE LET pad == 8 - (((p - 4) \div 4) % 2)
            IN  /\ p' = p + 4 * pad
                /\ n' = (n - pad) \div 8
                /\ Go("quads")
  /\ UNCHANGED <<i, m>>

(* s32[3..6] and s32[n-7..n-4]: the end of memset_avx's small path.  The  *)
(* fallback then skips 6 or 7 words to an 8-aligned s64 and counts its    *)
(* 32-byte groups.                                                         *)
Words3 ==
  /\ phase = "words3"
  /\ Put({W(k) : k \in {3, 4, 5, 6, n - 7, n - 6, n - 5, n - 4}})
  /\ IF tier = "avx"
       THEN Go("done") /\ UNCHANGED <<n, p>>
       ELSE LET pad == 7 - (((p - 4) \div 4) % 2)
            IN  /\ p' = p + 4 * pad
                /\ n' = (n - pad) \div 8
                /\ Go("quads")
  /\ UNCHANGED <<i, m>>

(* One iteration of the fallback's loop: s64[4*i .. 4*i+3] = c64.          *)
Quads ==
  /\ phase = "quads"
  /\ \/ /\ i < n
        /\ Put({Chunk(p + 32 * i + 8 * j, 8) : j \in 0 .. 3})
        /\ i' = i + 1
        /\ UNCHANGED phase
     \/ /\ i >= n
        /\ NoStore /\ Go("done") /\ UNCHANGED i
  /\ UNCHANGED <<n, p, m>>

(* The large path: unaligned vectors at the first and the last V bytes,   *)
(* then n counts the aligned V-byte vectors after the padding (n is       *)
(* size_t: wmemset_avx's n - padding wraps when padding is larger).        *)
VHead ==
  /\ phase = "vhead"
  /\ Put({Chunk(d, V), Chunk(d + NB - V, V)})
  /\ p' = d + Padding
  /\ n' = Wrap((NB - Padding) \div Elem) \div (V \div Elem)
  /\ i' = 0
  /\ Go("singles")
  /\ UNCHANGED m

(* for (i = 0; i < n%4; i++) store(s128++), aligned.                       *)
Singles ==
  /\ phase = "singles"
  /\ \/ /\ i < n % 4
        /\ Put({Aligned(p, V)})
        /\ p' = p + V /\ i' = i + 1
        /\ UNCHANGED phase
     \/ /\ i >= n % 4
        /\ NoStore /\ i' = 0 /\ Go("groups") /\ UNCHANGED p
  /\ UNCHANGED <<n, m>>

(* One iteration of the group loop, four aligned vectors: streamed under  *)
(* if (n >= 1 << 21), and fenced after that loop, else stored.             *)
Groups ==
  /\ phase = "groups"
  /\ \/ /\ i < n \div 4
        /\ LET At(j) == p + V * (4 * i + j)
           IN  Put(IF n >= SetStreamMin THEN {Stream(At(j), V) : j \in 0 .. 3}
                                       ELSE {Aligned(At(j), V) : j \in 0 .. 3})
        /\ i' = i + 1
        /\ UNCHANGED phase
     \/ /\ i >= n \div 4
        /\ IF n >= SetStreamMin THEN Fence ELSE NoStore
        /\ Go("done") /\ UNCHANGED i
  /\ UNCHANGED <<n, p, m>>

(* memset_avx for 28 <= n < 65: n/16 unaligned vectors from dest ...      *)
Mid ==
  /\ phase = "mid"
  /\ \/ /\ i < N \div 16
        /\ Put({Chunk(d + 16 * i, 16)})
        /\ i' = i + 1
        /\ UNCHANGED phase
     \/ /\ i >= N \div 16
        /\ NoStore /\ Go("midtail") /\ UNCHANGED i
  /\ UNCHANGED <<n, p, m>>

(* ... and, if (n%16), one more at the last 16 bytes.                      *)
MidTail ==
  /\ phase = "midtail"
  /\ IF N % 16 # 0 THEN Put({Chunk(d + N - 16, 16)}) ELSE NoStore
  /\ Go("done")
  /\ UNCHANGED <<n, p, i, m>>

(* wmemset_avx for 7 <= n < 17: n aligned vectors of 4 units.              *)
Blocks ==
  /\ phase = "blocks"
  /\ \/ /\ i < n
        /\ Put({Aligned(p + 16 * i, 16)})
        /\ i' = i + 1
        /\ UNCHANGED phase
     \/ /\ i >= n
        /\ NoStore /\ Go("done") /\ UNCHANGED i
  /\ UNCHANGED <<n, p, m>>

(* wmemset_fallback: s[i] = c, one unit per iteration.                     *)
Elems ==
  /\ phase = "elems"
  /\ \/ /\ i < N
        /\ Put({U(i)})
        /\ i' = i + 1
        /\ UNCHANGED phase
     \/ /\ i >= N
        /\ NoStore /\ Go("done") /\ UNCHANGED i
  /\ UNCHANGED <<n, p, m>>
-----------------------------------------------------------------------------
(* memcpy and memmove.  p is dest + f in memcpy_sse2, and the advancing d *)
(* in memmove_sse2; n counts the bytes left.                               *)

(* A loop of k 16-byte vectors from p, forward, or ending at p + n,       *)
(* backward, while n >= 16 * k; st for the streams, which the code fences *)
(* after the loop.                                                         *)
Vec(at, st) == IF st THEN Stream(at, 16) ELSE Chunk(at, 16)
Fwd(k, st)  == {Vec(p + 16 * j, st) : j \in 0 .. k - 1}
Back(k, st) == {Vec(p + n - 16 * j, st) : j \in 1 .. k}

FwdWhile(ph, k, st, nxt) ==
  /\ phase = ph
  /\ \/ /\ n >= 16 * k
        /\ Put(Fwd(k, st))
        /\ p' = p + 16 * k /\ n' = n - 16 * k
        /\ UNCHANGED phase
     \/ /\ n < 16 * k
        /\ IF st THEN Fence ELSE NoStore
        /\ Go(nxt) /\ UNCHANGED <<p, n>>
  /\ UNCHANGED <<i, m>>

BackWhile(ph, k, st, nxt) ==
  /\ phase = ph
  /\ \/ /\ n >= 16 * k
        /\ Put(Back(k, st))
        /\ n' = n - 16 * k
        /\ UNCHANGED phase
     \/ /\ n < 16 * k
        /\ IF st THEN Fence ELSE NoStore
        /\ Go(nxt) /\ UNCHANGED n
  /\ UNCHANGED <<p, i, m>>

(* The same, done once: if (n >= 16 * k).                                  *)
FwdIf(ph, k, nxt) ==
  /\ phase = ph
  /\ IF n >= 16 * k
       THEN Put(Fwd(k, FALSE)) /\ p' = p + 16 * k /\ n' = n - 16 * k
       ELSE NoStore /\ UNCHANGED <<p, n>>
  /\ Go(nxt)
  /\ UNCHANGED <<i, m>>

BackIf(ph, k, nxt) ==
  /\ phase = ph
  /\ IF n >= 16 * k
       THEN Put(Back(k, FALSE)) /\ n' = n - 16 * k
       ELSE NoStore /\ UNCHANGED n
  /\ Go(nxt)
  /\ UNCHANGED <<p, i, m>>

(* memcpy_sse2, n >= 1 << 21: eight unaligned vectors, then f goes back   *)
(* by d % 128 so that d + f is 128-aligned.                                *)
CBig ==
  /\ phase = "cbig"
  /\ Put(Fwd(8, FALSE))
  /\ p' = d + 128 - (d % 128)
  /\ n' = N - 128 + (d % 128)
  /\ Go("cstream")
  /\ UNCHANGED <<i, m>>

CStream == FwdWhile("cstream", 8, TRUE, "c128")
C128    == FwdWhile("c128", 8, FALSE, "c64")
C64     == FwdWhile("c64", 4, FALSE, "c32")
C32     == FwdWhile("c32", 2, FALSE, "c16")
(* n < 128 ends with memcpy_naive on the rest, n >= 128 with one vector.   *)
C16     == FwdWhile("c16", 1, FALSE, IF N < 128 THEN "bf" ELSE "ctail")

(* The last vector of memcpy one byte too far: f += n - 15.              *)
CTailOff ==
  /\ phase = "ctail"
  /\ IF n # 0 THEN Put({Chunk(p + n - 15, 16)}) ELSE NoStore
  /\ Go("done")
  /\ UNCHANGED <<n, p, i, m>>

(* if (n) { f += n - 16; copy 16 }: the last 16 bytes again.               *)
CTail ==
  /\ phase = "ctail"
  /\ IF n # 0 THEN Put({Chunk(p + n - 16, 16)}) ELSE NoStore
  /\ Go("done")
  /\ UNCHANGED <<n, p, i, m>>

(* A byte loop, forward from p (d[i] = s[i]) or back from p + n           *)
(* (d[n-i] = s[n-i]), to the end of the call.                              *)
BF ==
  /\ phase = "bf"
  /\ \/ /\ i < n /\ Put({Chunk(p + i, 1)}) /\ i' = i + 1 /\ UNCHANGED phase
     \/ /\ i >= n /\ NoStore /\ Go("done") /\ UNCHANGED i
  /\ UNCHANGED <<n, p, m>>

BB ==
  /\ phase = "bb"
  /\ \/ /\ i < n /\ Put({Chunk(p + n - 1 - i, 1)}) /\ i' = i + 1
        /\ UNCHANGED phase
     \/ /\ i >= n /\ NoStore /\ Go("done") /\ UNCHANGED i
  /\ UNCHANGED <<n, p, m>>

(* memmove_sse2, n >= 128, forward: m bytes to a 16-aligned d, then, for  *)
(* n >= 1 << 21, m / 16 aligned vectors to a 128-aligned one.              *)
BFPad ==
  /\ phase = "bfpad"
  /\ \/ /\ i < m /\ Put({Chunk(p + i, 1)}) /\ i' = i + 1
        /\ UNCHANGED <<phase, n, p, m>>
     \/ /\ i >= m /\ NoStore /\ i' = 0
        /\ p' = p + m /\ n' = n - m
        /\ IF n - m >= CopyStreamMin
             THEN m' = 127 - ((p + m - 1) % 128) /\ Go("mfalign")
             ELSE Go("mf64") /\ UNCHANGED m

MFAlign ==
  /\ phase = "mfalign"
  /\ \/ /\ i < m \div 16 /\ Put({Aligned(p + 16 * i, 16)}) /\ i' = i + 1
        /\ UNCHANGED <<phase, n, p>>
     \/ /\ i >= m \div 16 /\ NoStore /\ i' = 0
        /\ p' = p + m /\ n' = n - m /\ Go("mfstream")
  /\ UNCHANGED m

(* backward: m bytes below the end to a 16-aligned d + n, then m / 16     *)
(* aligned vectors to a 128-aligned one.                                   *)
BBPad ==
  /\ phase = "bbpad"
  /\ \/ /\ i < m /\ Put({Chunk(p + n - 1 - i, 1)}) /\ i' = i + 1
        /\ UNCHANGED <<phase, n, m>>
     \/ /\ i >= m /\ NoStore /\ i' = 0
        /\ n' = n - m
        /\ IF n - m >= CopyStreamMin
             THEN m' = (p + n - m) % 128 /\ Go("mbalign")
             ELSE Go("mb64") /\ UNCHANGED m
  /\ UNCHANGED p

MBAlign ==
  /\ phase = "mbalign"
  /\ \/ /\ i < m \div 16 /\ Put({Aligned(p + n - 16 * (i + 1), 16)})
        /\ i' = i + 1 /\ UNCHANGED <<phase, n>>
     \/ /\ i >= m \div 16 /\ NoStore /\ i' = 0
        /\ n' = n - m /\ Go("mbstream")
  /\ UNCHANGED <<p, m>>

(* For n < 128 the code tests n >= 64 with an if, which is the while of   *)
(* the large path when n < 128.                                            *)
MFStream == FwdWhile("mfstream", 8, TRUE, "mf64")
MF64     == FwdWhile("mf64", 4, FALSE, "mf32")
MF32     == FwdIf("mf32", 2, "mf16")
MF16     == FwdIf("mf16", 1, "bf")
MBStream == BackWhile("mbstream", 8, TRUE, "mb64")
MB64     == BackWhile("mb64", 4, FALSE, "mb32")
MB32     == BackIf("mb32", 2, "mb16")
MB16     == BackIf("mb16", 1, "bb")
-----------------------------------------------------------------------------
(* The copies that stop at src's terminator or at memccpy's c.  p is the  *)
(* dest pointer; src moves with it, Delta above.                           *)
Src(x)    == x + Delta
UnitAt(k) == Chunk(p + k * Elem, Elem)
(* How far into the src block at dest x the terminator is: in bytes, and  *)
(* the o of the code, trailing_zeros of the compare mask / sizeof unit.   *)
Off(x)  == TermAt - Src(x)
Lane(x) == Off(x) \div Elem
(* The units of the block at x up to and including the terminator.        *)
UpTo(x) == {Chunk(x + k * Elem, Elem) : k \in 0 .. Lane(x)}

(* One iteration of a unit loop: copy unit i, and return it if it was the *)
(* terminator.                                                             *)
StepUnit ==
  IF Src(p + i * Elem) = TermAt
  THEN PutRet({UnitAt(i)}, p + i * Elem) /\ Go("done") /\ UNCHANGED i
  ELSE Put({UnitAt(i)}) /\ i' = i + 1 /\ UNCHANGED phase

SNaive ==
  /\ phase = "snaive"
  /\ StepUnit
  /\ UNCHANGED <<n, p, m>>

(* stpcpy_sse2's first loop, to a 16-aligned src; then the second padding *)
(* to a 32-aligned src.                                                    *)
SPad ==
  /\ phase = "spad"
  /\ \/ /\ i < m
        /\ StepUnit /\ UNCHANGED <<p, m>>
     \/ /\ i >= m
        /\ NoStore /\ Go("schunk")
        /\ p' = p + m * Elem
        /\ m' = (31 - ((Src(p + m * Elem) - 1) % 32)) \div Elem
        /\ UNCHANGED i
  /\ UNCHANGED n

(* The one aligned 16-byte chunk up to a 32-aligned src.                  *)
SChunk ==
  /\ phase = "schunk"
  /\ \/ /\ m > 0 /\ HitIn(Src(p), 16)
        /\ PutRet(UpTo(p), p + Lane(p) * Elem) /\ Go("done") /\ UNCHANGED p
     \/ /\ m > 0 /\ ~HitIn(Src(p), 16)
        /\ Put({Chunk(p, 16)}) /\ Go("sloop") /\ p' = p + m * Elem
     \/ /\ m = 0
        /\ NoStore /\ Go("sloop") /\ UNCHANGED p
  /\ UNCHANGED <<n, i, m>>

(* The second chunk's return taken from dest, not from dest + 16.        *)
SLoopLane ==
  /\ phase = "sloop"
  /\ \/ /\ HitIn(Src(p), 16)
        /\ PutRet(UpTo(p), p + Lane(p) * Elem) /\ Go("done") /\ UNCHANGED p
     \/ /\ HitIn(Src(p) + 16, 16)
        /\ PutRet({Chunk(p, 16)} \cup UpTo(p + 16), p + Lane(p + 16) * Elem)
        /\ Go("done") /\ UNCHANGED p
     \/ /\ ~HitIn(Src(p), 32)
        /\ Put({Chunk(p, 16), Chunk(p + 16, 16)}) /\ p' = p + 32
        /\ UNCHANGED phase
  /\ UNCHANGED <<n, i, m>>

(* One iteration of the 32-byte loop: two aligned loads of src.           *)
SLoop ==
  /\ phase = "sloop"
  /\ \/ /\ HitIn(Src(p), 16)
        /\ PutRet(UpTo(p), p + Lane(p) * Elem) /\ Go("done") /\ UNCHANGED p
     \/ /\ HitIn(Src(p) + 16, 16)
        /\ PutRet({Chunk(p, 16)} \cup UpTo(p + 16), p + 16 + Lane(p + 16) * Elem)
        /\ Go("done") /\ UNCHANGED p
     \/ /\ ~HitIn(Src(p), 32)
        /\ Put({Chunk(p, 16), Chunk(p + 16, 16)}) /\ p' = p + 32
        /\ UNCHANGED phase
  /\ UNCHANGED <<n, i, m>>

(* memccpy_naive: copy byte i, and return past it if it was c; NULL after *)
(* n bytes.                                                                *)
MCNaive ==
  /\ phase = "mcnaive"
  /\ \/ /\ i < n /\ Src(p + i) = TermAt
        /\ PutRet({UnitAt(i)}, p + i + 1) /\ Go("done") /\ UNCHANGED i
     \/ /\ i < n /\ Src(p + i) # TermAt
        /\ Put({UnitAt(i)}) /\ i' = i + 1 /\ UNCHANGED phase
     \/ /\ i >= n
        /\ PutRet({}, Null) /\ Go("done") /\ UNCHANGED i
  /\ UNCHANGED <<n, p, m>>

(* memccpy_sse2's loop: 16 bytes while none is c, then memccpy_naive.      *)
MCLoop ==
  /\ phase = "mcloop"
  /\ \/ /\ n >= 16 /\ ~HitIn(Src(p), 16)
        /\ Put({Chunk(p, 16)}) /\ p' = p + 16 /\ n' = n - 16
        /\ UNCHANGED phase
     \/ /\ n < 16 \/ HitIn(Src(p), 16)
        /\ NoStore /\ Go("mcnaive") /\ UNCHANGED <<p, n>>
  /\ UNCHANGED <<i, m>>

(* stpncpy_internal_naive: return at the NUL, which it does not copy, or *)
(* after n bytes; __stpncpy's memset then writes the NULs.                *)
KN ==
  /\ phase = "kn"
  /\ \/ /\ i < n /\ Src(p + i) = TermAt
        /\ PutRet({}, p + i) /\ Go("zfill") /\ UNCHANGED i
     \/ /\ i < n /\ Src(p + i) # TermAt
        /\ Put({UnitAt(i)}) /\ i' = i + 1 /\ UNCHANGED phase
     \/ /\ i >= n
        /\ PutRet({}, p + n) /\ Go("zfill") /\ UNCHANGED i
  /\ UNCHANGED <<n, p, m>>

(* if (n >= w) of stpncpy_internal_sse2: w / 16 unaligned chunks stored,  *)
(* then, if one held a NUL, return the first; the nested tests of the     *)
(* compare masks find the first zero byte of the w.                       *)
Vecs(x, w) == {Chunk(x + 16 * j, 16) : j \in 0 .. w \div 16 - 1}
KIf(ph, w, nxt) ==
  /\ phase = ph
  /\ \/ /\ n >= w /\ HitIn(Src(p), w)
        /\ PutRet(Vecs(p, w), p + Off(p)) /\ Go("zfill") /\ UNCHANGED <<p, n>>
     \/ /\ n >= w /\ ~HitIn(Src(p), w)
        /\ Put(Vecs(p, w)) /\ p' = p + w /\ n' = n - w /\ Go(nxt)
     \/ /\ n < w
        /\ NoStore /\ Go(nxt) /\ UNCHANGED <<p, n>>
  /\ UNCHANGED <<i, m>>

(* The n < 128 path: 64, 32 and 16 bytes, then the naive loop.            *)
K64 == KIf("k64", 64, "k32")
K32 == KIf("k32", 32, "k16")
K16 == KIf("k16", 16, "kn")
(* The same tests after the loops of the n >= 128 path, then the tail.    *)
KB32 == KIf("kb32", 32, "kb16")
KB16 == KIf("kb16", 16, "ktail")

(* Where the n >= 128 path goes once dest is 16-aligned, n bytes left.    *)
KBody(x) == CASE x >= CopyStreamMin -> "kspad"
              [] x >= 128           -> "kloop"
              [] OTHER              -> "kb32"

(* The unaligned chunk up to a 16-aligned dest, and the padding to a       *)
(* 128-aligned dest that the stream path takes.                            *)
KPad ==
  /\ phase = "kpad"
  /\ \/ /\ m > 0 /\ HitIn(Src(p), 16)
        /\ PutRet({Chunk(p, 16)}, p + Off(p)) /\ Go("zfill") /\ UNCHANGED <<p, n>>
     \/ /\ m > 0 /\ ~HitIn(Src(p), 16)
        /\ Put({Chunk(p, 16)}) /\ p' = p + m /\ n' = n - m /\ Go(KBody(n - m))
     \/ /\ m = 0
        /\ NoStore /\ Go(KBody(n)) /\ UNCHANGED <<p, n>>
  /\ m' = 127 - ((p' - 1) % 128)
  /\ UNCHANGED i

(* The aligned stores up to a 128-aligned dest: no NUL test.               *)
KSPad ==
  /\ phase = "kspad"
  /\ \/ /\ i < m \div 16
        /\ Put({Aligned(p + 16 * i, 16)}) /\ i' = i + 1 /\ UNCHANGED <<phase, p, n>>
     \/ /\ i >= m \div 16
        /\ NoStore /\ Go("kstream") /\ p' = p + m /\ n' = n - m /\ i' = 0
  /\ UNCHANGED m

(* One iteration of a 64-byte loop, streamed (st) or stored; a NUL in the *)
(* block returns at once, the stream loop then without its _mm_sfence.    *)
Blk(x, st) == {IF st THEN Stream(x + 16 * j, 16) ELSE Aligned(x + 16 * j, 16)
                 : j \in 0 .. 3}
(* A stream loop that leaves out its _mm_sfence.                           *)
KWhileNoFence(ph, st) ==
  /\ phase = ph
  /\ \/ /\ i < n \div 64 /\ HitIn(Src(p + 64 * i), 64)
        /\ PutRet(Blk(p + 64 * i, st), p + 64 * i + Off(p + 64 * i))
        /\ Go("zfill") /\ UNCHANGED <<p, n, i>>
     \/ /\ i < n \div 64 /\ ~HitIn(Src(p + 64 * i), 64)
        /\ Put(Blk(p + 64 * i, st)) /\ i' = i + 1 /\ UNCHANGED <<phase, p, n>>
     \/ /\ i >= n \div 64
        /\ NoStore
        /\ p' = p + (n - (n % 64)) /\ n' = n % 64 /\ i' = 0 /\ Go("kb32")
  /\ UNCHANGED m

KWhile(ph, st) ==
  /\ phase = ph
  /\ \/ /\ i < n \div 64 /\ HitIn(Src(p + 64 * i), 64)
        /\ PutRet(Blk(p + 64 * i, st), p + 64 * i + Off(p + 64 * i))
        /\ Go("zfill") /\ UNCHANGED <<p, n, i>>
     \/ /\ i < n \div 64 /\ ~HitIn(Src(p + 64 * i), 64)
        /\ Put(Blk(p + 64 * i, st)) /\ i' = i + 1 /\ UNCHANGED <<phase, p, n>>
     \/ /\ i >= n \div 64
        /\ IF st THEN Fence ELSE NoStore
        /\ p' = p + (n - (n % 64)) /\ n' = n % 64 /\ i' = 0 /\ Go("kb32")
  /\ UNCHANGED m

KStream == KWhile("kstream", TRUE)
KLoop   == KWhile("kloop", FALSE)

(* if (n): the last 16 bytes, loaded and stored at src + n - 16 and       *)
(* dest + n - 16; a NUL at lane o of that chunk returns dest + o if o < n. *)
KTail ==
  /\ phase = "ktail"
  /\ \/ /\ n > 0
        /\ LET o == Off(p + n - 16)
           IN  PutRet({Chunk(p + n - 16, 16)},
                      IF HitIn(Src(p + n - 16), 16) /\ o < n THEN p + o ELSE p + n)
     \/ /\ n = 0
        /\ PutRet({}, p + n)
  /\ Go("zfill")
  /\ UNCHANGED <<n, p, i, m>>

(* __stpncpy: memset(r, 0, (dest + n) - r), by what MemWriteSpec says   *)
(* memset does, then return r.                                             *)
ZFill ==
  /\ phase = "zfill"
  /\ Put({Chunk(a, 1) : a \in ret .. d + N - 1})
  /\ Go("done")
  /\ UNCHANGED <<n, p, i, m>>

(* The entry of each function: its size, overlap and equality tests.      *)
FirstPhase ==
  CASE fn \in {"stpcpy", "wcpcpy"} /\ tier = "naive"  -> "snaive"
    [] fn \in {"stpcpy", "wcpcpy"}                     -> "spad"
    [] fn = "memccpy" /\ tier = "naive"               -> "mcnaive"
    [] fn = "memccpy"                                 -> "mcloop"
    [] fn = "stpncpy" /\ tier = "naive"               -> "kn"
    [] fn = "stpncpy" /\ N < 128                      -> "k64"
    [] fn = "stpncpy"                                 -> "kpad"
    [] fn = "memset" /\ tier = "fallback"   -> "ends"
    [] fn = "memset" /\ N < 28              -> "ends"
    [] fn = "memset" /\ tier = "sse2"       -> "vhead"
    [] fn = "memset" /\ N < 65              -> "mid"
    [] fn = "memset"                        -> "vhead"
    [] fn = "wmemset" /\ tier = "fallback"  -> "elems"
    [] fn = "wmemset" /\ tier = "sse2"      -> "ends"
    [] fn = "wmemset" /\ N < 17             -> "ends"
    [] fn = "wmemset"                       -> "vhead"
    [] fn = "memcpy" /\ tier = "naive"      -> "bf"
    [] fn = "memcpy" /\ N < 128             -> "c64"
    [] fn = "memcpy" /\ N >= CopyStreamMin  -> "cbig"
    [] fn = "memcpy"                        -> "c128"
    [] tier = "naive"                       -> IF d > s THEN "bb" ELSE "bf"
    [] d = s                                -> "done"
    [] N < 128                              -> IF d > s THEN "mb64" ELSE "mf64"
    [] OTHER                                -> IF d > s THEN "bbpad" ELSE "bfpad"

(* memmove_sse2's first padding: to a 16-aligned d + n going back, to a   *)
(* 16-aligned d going forward.                                             *)
FirstPad ==
  CASE FirstPhase = "bbpad" -> (d + N) % 16
    [] FirstPhase = "bfpad" -> 15 - ((d - 1) % 16)
    [] FirstPhase = "spad"  -> (15 - ((s - 1) % 16)) \div Elem
    [] FirstPhase = "kpad"  -> 15 - ((d - 1) % 16)
    [] OTHER                -> 0

Call ==
  /\ phase = "call"
  /\ NoStore
  /\ Go(FirstPhase)
  /\ n' = N /\ p' = d /\ i' = 0 /\ m' = FirstPad

(* Whether the function's control depends on where dest is: not for the  *)
(* naive copies and wmemset_fallback, whose loops only count, nor for     *)
(* memccpy_sse2's unaligned loop (stpcpy's depends on where src is, and   *)
(* s = d + Delta).                                                          *)
Aligns == (tier \notin {"naive", "fallback"} \/ fn = "memset") /\ fn # "memccpy"

(* The inputs on which stpncpy_internal_sse2 goes wrong, for n >= 128:    *)
(* pad is its first padding, to a 16-aligned dest, and pad2 the second,   *)
(* to a 128-aligned dest, on the n >= 1 << 21 path; n2 is what the 64-    *)
(* byte loop gets, and tail what is left for if (n) after the 32 and 16.  *)
StpncpyDefect ==
  LET pad  == 15 - ((d - 1) % 16)
      n1   == N - pad
      pad2 == IF n1 >= CopyStreamMin THEN 127 - ((d + pad - 1) % 128) ELSE 0
      n2   == n1 - pad2
      tail == n2 % 16
  IN  /\ fn = "stpncpy" /\ tier = "sse2" /\ N >= 128
      \* padding leaves n1 < 128: only the 32, the 16 and the tail run,
      \* and the bytes between them are never stored or tested
      /\ \/ pad > 0 /\ n1 < 128 /\ z >= pad + 48
      \* the NUL in the second padding, stored but never tested, or in the
      \* stream loop, which returns before its _mm_sfence
         \/ n1 >= CopyStreamMin /\ pad <= z /\ z < pad + pad2 + 64 * (n2 \div 64)
      \* the NUL in the tail chunk, whose lane is taken as an offset from
      \* dest rather than from dest + n - 16
         \/ n1 >= 128 /\ N - tail <= z /\ z < N

Init ==
  /\ fn \in Fns
  /\ tier \in TiersOf(fn)
  /\ d \in IF Aligns THEN {a \in Dests : a % Elem = 0}
                     ELSE {Min(Dests)}
  /\ N \in CASE fn = "memset"                -> SetSizes
             [] fn = "wmemset"               -> WSizes
             [] fn \in {"stpncpy", "memccpy"} -> NSizes
             [] fn \in {"stpcpy", "wcpcpy"}   -> {0}
             [] OTHER                        -> CopySizes
  \* z = N: no terminator, or no c, in the first n
  /\ z \in CASE fn \in {"stpcpy", "wcpcpy"}   -> Terms
             [] fn \in {"stpncpy", "memccpy"} -> {t \in Terms : t < N} \cup {N}
             [] OTHER                        -> {0}
  /\ s \in IF fn \in Sets THEN {d} ELSE {d + x : x \in Deltas}
  \* restrict: only memmove may be given overlapping buffers; a wchar_t
  \* string is aligned
  /\ fn \notin Sets \cup {"memmove"} => s + NB <= d \/ d + NB <= s
  /\ s % Elem = 0
  /\ AvxWideWmemset \/ ~(fn = "wmemset" /\ tier = "avx" /\ N >= 17)
  /\ StpncpyBugs \/ ~StpncpyDefect
  /\ phase = "call"
  /\ n = 0 /\ p = d /\ i = 0 /\ m = 0
  /\ mem = Before
  /\ wr = {}
  /\ ret = d
  /\ nt = FALSE

(* The call has returned.                                                  *)
Returned ==
  /\ phase = "done"
  /\ UNCHANGED vars

Next ==
  \/ Call
  \/ Ends \/ Inner \/ Words \/ Words1 \/ Words3 \/ Quads
  \/ VHead \/ Singles \/ Groups \/ Mid \/ MidTail \/ Blocks \/ Elems
  \/ CBig \/ CStream \/ C128 \/ C64 \/ C32 \/ C16 \/ CTail
  \/ BF \/ BB \/ BFPad \/ MFAlign \/ BBPad \/ MBAlign
  \/ MFStream \/ MF64 \/ MF32 \/ MF16 \/ MBStream \/ MB64 \/ MB32 \/ MB16
  \/ SNaive \/ SPad \/ SChunk \/ SLoop \/ MCNaive \/ MCLoop
  \/ KN \/ K64 \/ K32 \/ K16 \/ KPad \/ KSPad \/ KStream \/ KLoop
  \/ KB32 \/ KB16 \/ KTail \/ ZFill
  \/ Returned

(* A call runs on its thread, which the scheduler keeps running.           *)
Spec == Init /\ [][Next]_vars /\ WF_vars(Next)

-----------------------------------------------------------------------------
Phases == {"call", "done", "ends", "inner", "words", "words1", "words3",
           "quads", "vhead", "singles", "groups", "mid", "midtail", "blocks",
           "elems", "cbig", "cstream", "c128", "c64", "c32", "c16", "ctail",
           "bf", "bb", "bfpad", "mfalign", "bbpad", "mbalign", "mfstream",
           "mf64", "mf32", "mf16", "mbstream", "mb64", "mb32", "mb16",
           "snaive", "spad", "schunk", "sloop", "mcnaive", "mcloop", "kn",
           "k64", "k32", "k16", "kpad", "kspad", "kstream", "kloop", "kb32",
           "kb16", "ktail", "zfill"}

TypeOK ==
  /\ phase \in Phases
  /\ n \in Nat /\ p \in Nat /\ i \in Nat /\ m \in 0 .. 127
  /\ mem \in [Dest -> Int]
  /\ \A x \in wr : x.w \in {1, 4, 8, 16, 32} /\ x.al \in BOOLEAN /\ x.nt \in BOOLEAN
  /\ ret \in Nat /\ nt \in BOOLEAN

(* Every store of the call, unaligned vectors at the ends and the         *)
(* overlapping last vector of memcpy included, lies inside the n units at *)
(* dest: the paddings and the n /= width of the code never make a store   *)
(* reach past either end.                                                  *)
StoresInDest == \A x \in wr : d <= x.at /\ x.at + x.w <= d + NB

(* Every aligned store (_mm_store_si128, _mm_stream_si128 and their       *)
(* 256-bit forms, which fault otherwise) is at a multiple of its width:   *)
(* the paddings the code computes from (d - 1) % width really align.      *)
AlignedStores == \A x \in wr : x.al => x.at % x.w = 0

(* The call implements MemWriteSpec: it returns, and then dest holds the  *)
(* fill or what src held before the call, however src and dest overlap,  *)
(* and nothing else has changed.  Before it returns the caller sees the   *)
(* memory of before the call.  It returns dest, or for stpcpy and wcpcpy  *)
(* the end of the copy, for stpncpy the end of the string or dest + n,    *)
(* and for memccpy the byte past c, or NULL if c is not in the n.          *)
MW == INSTANCE MemWriteSpec
        WITH buf      <- IF phase = "done" THEN mem ELSE Before,
             goal     <- Goal,
             res      <- IF phase = "done" THEN ret ELSE Null,
             want     <- Want,
             returned <- phase = "done"

(* The call never returns with a streaming store still unfenced: each    *)
(* stream loop of memset, wmemset, memcpy, memmove and stpncpy ends in    *)
(* _mm_sfence() before the stores after it and before the return, so the *)
(* caller's next stores, and other threads once it publishes dest, see    *)
(* the streamed bytes.                                                     *)
FencedReturn == phase = "done" => ~nt

WriteRefines == MW!Spec
=============================================================================
