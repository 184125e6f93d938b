# TLA+ models of musl-x86's dispatched string primitives

This directory holds TLA+ models of the string and memory functions in
`src/string/{i386,x32,x86_64}` and of the CPU feature probe in `src/internal`.
TLC checks each model. Each section says what is modelled, what the runs show,
and what is still open.

## 1. The system

The library replaces a set of musl string functions with SIMD versions.
Every public function `P` is a thin wrapper, and each has three layers:

* **Capability probe** (`src/internal/cpu_features.c`). `__init_cpu_features`
  reads cpuid leaf 1, XCR0 and cpuid leaf 7. It sets the fields of
  `struct cpu_features` one at a time: `sse2`, `fma`, `osxsave`, then `avx`
  only if XCR0 enables XMM and YMM state, then `avx2` only if `avx` is set
  and leaf 7 exists, then the avx512 flags.
  `has_sse2()`, `has_avx()` and `has_avx2()` in `cpu_features.h` return 1
  when the compiler already targets the feature, and the flag otherwise.
  Nothing under `src/` calls `__init_cpu_features`; the C runtime is
  expected to call it.
* **Dispatch cells**. Each primitive has a static function pointer
  `P_impl`, and the wrapper `P` calls through it. The pointer starts at
  `P_auto`, which works as follows:
  1. It tests `has_avx2()` / `has_avx()` / `has_sse2()` in a fixed order.
  2. It stores the first tier that qualifies into the cell.
     `strspn_init` stores into two cells, `strspn1_impl` and `strspn2_impl`.
  3. It re-reads the cell and calls through it.

  No lock guards any of this. Any number of threads may race on a cell.
* **Algorithm tiers**. Each primitive has a `naive`/`fallback` tier, an
  `sse2` tier and (for most) an `avx2` or `avx` tier. The scans share one
  shape:
  1. A byte loop up to a 4-byte (or `sizeof(size_t)`) boundary.
  2. A 32-bit word loop using the "has zero byte" trick up to a 16-byte
     boundary.
  3. Aligned vector loads in growing groups: 1, 2 and then 4 vectors. The
     groups never cross a 128-byte boundary, so reading past the match
     stays inside the page.

  Compares and copies do unaligned loads. They use the lesser of the two
  pointers' distances to a 128-byte boundary ("padding") to pick a chunk.
  Large copies and fills use non-temporal stores followed by `_mm_sfence`.

How the parts interact:
* A cell's value depends on the probe's flags at the moment `P_auto` reads
  them.
* Which tier runs decides which algorithm processes the call.
* The tiers share no state. A call is a sequential computation over the
  caller's buffers.

## 2. Inventory

The components are as follows. `PROJECT.json` lists them all with their
status.

| component | source | state / operations | hard behaviour |
|---|---|---|---|
| capability probe | internal/cpu_features.c, .h | flag stores in order | a call before or during the probe; XCR0 and leaf 7 checks |
| dispatch cells | every `*_auto`, `strspn_init` | one cell per primitive; test, store, re-read | racing threads; strspn's two-cell store |
| rawmemchr | x86_64/rawmemchr.c, rawmemchr.c | byte, word, 1/2/4-vector loops | first match; alignment; reading past the match |
| strspn | x32/strspn.c | strspn1 and strspn2 scans, the byteset loop | OR-combined group masks; strspn2's pair return |
| strchrnul, strcspn | x86_64/strchrnul.c, strcspn.c | rawmemchr with 2 or 3 targets; strcspn's byteset loop | as rawmemchr |
| memchr | x32/memchr.c | bounded scan | the bound inside a vector |
| strrchr | x86_64/strrchr.c | forward scan keeping the last match | `c == 0`; matches after the terminator in the same vector |
| wcslen | x86_64/wcslen.c | 4-byte unit scan | alignment to 4 |
| memcmp, wmemcmp | x32/memcmp.c, i386/wmemcmp.c | chunked compares | picking the first differing lane across registers |
| strncmp, strcasecmp, strncasecmp | i386/strncmp.c, i386/strcasecmp.c, x32/strncasecmp.c | padding-driven compare, `strdiff` | page crossing; stopping at the terminator and at `n` |
| memset, wmemset | x86_64/memset.c, wmemset.c | size-class stores | covering every index exactly |
| memcpy, memmove, memccpy | i386/memcpy.c, memmove.c, x86_64/memccpy.c | size classes, non-temporal stores | overlap direction; fence before return |
| stpcpy, wcpcpy, stpncpy | x32/stpcpy.c, i386/wcpcpy.c, i386/stpncpy.c | copy to terminator, pad | returned end; padding; fence |
| memmem, strstr | x32/memmem.c, x86_64/strstr.c | wrapper, window loops (integer, `__m128i`, `__m256i`), memcmp / strncmp loops, two-way search | reads past the haystack end; bytes crossing the 128-bit halves; the two-way shifts and memory |
| intrinsic facade | internal/immintrin.h | none (stateless) | partly: the 256-bit byte shift and the cast's undefined upper half |

## 3. Modules

| module | models | cfgs |
|---|---|---|
| `DispatchCell` | the abstract cell: set once, to the best tier of the processor | (instanced by `Dispatch`) |
| `Dispatch`, `MCDispatch` | the probe and the cells, with racing threads | `MCDispatch.cfg` |
| `ScanFirst`, `MCScanFirst` | rawmemchr (generic and x86_64), rawmemchr2 (strchrnul), rawmemchr3 (strcspn), strspn1, strspn2, the byteset loops of strspn and strcspn, wcslen, strrchr | `ScanPass.cfg`, `ScanStrrchrNul.cfg` |
| `Memchr` | memchr_fallback, memchr_sse2, memchr_avx2 (x32/memchr.c) | `MemchrAll.cfg` |
| `Memcmp` | memcmp_naive, memcmp_sse2, memcmp_avx2 (x32/memcmp.c) and the wmemcmp tiers (i386/wmemcmp.c) | `MemcmpPass.cfg`, `MemcmpSse2_Correct.cfg` |
| `StrCaseCmp` | strcasecmp's loop over strdiff_naive, strdiff_sse2, strdiff_avx2 (i386/strcasecmp.c); strncasecmp's loop over x32's n-bounded strdiff (x32/strncasecmp.c); strncmp's three tiers (i386/strncmp.c) | `StrDiffPass.cfg`, `StrCaseCmpEqual.cfg` |
| `MemWriteSpec` | what the functions that write memory promise: one step that leaves dest holding what the arguments ask for and returns the pointer they ask for | (instanced by `MemWrite`) |
| `MemWrite`, `MCMemWrite` | memset, wmemset and memccpy (x86_64), memcpy, memmove, wcpcpy and stpncpy (i386), stpcpy (x32), every tier | `MemWritePass.cfg`, `MemWriteStpncpy.cfg` |
| `Search`, `MCSearch` | memmem (x32/memmem.c) and strstr (x86_64/strstr.c): wrappers, memmem2..32, strstr2..16, the memcmp / strncmp loops, twoway_memmem and twoway_strstr | `SearchPass.cfg`, `SearchAvx2.cfg` |

Every function model keeps the control of the code: one action per
iteration of each loop and per `if` step, the guards of the code as
conjuncts, and the returns. The data is abstracted. Memory is a
predicate over offsets: where the scan must stop, or where the two
buffers differ. The addresses only matter modulo 128, because every
alignment the code tests divides 128. `PROJECT.json` "map" names the
source lines of every definition.

### Dispatch

Variables:
* `cpu`: the processor, a record of cpuid and XCR0 bits fixed at start.
* `cpu_features`: the flags.
* `probePc`: where `__init_cpu_features` is.
* `cell`: each `P_impl`.
* Per thread: `pc`, `fn`, `idx`, `choice`, `pending`, `calls`, `ran`.

| action | source step |
|---|---|
| `ProbeSSE2`, `ProbeAVX`, `ProbeAVX2` | the flag stores of the probe, in its order |
| `Call` | the wrapper's load of the cell |
| `AutoCheck` | one `has_X()` test |
| `AutoWrite` | one store to a cell |
| `AutoCall` | `P_auto`'s re-read of the cell and the call through it |

The constant `ProbeFirst` says whether the runtime has finished the probe
before any call. `Dispatch` refines `DispatchCell` through
`INSTANCE DispatchCell` under the identity mapping of `cpu` and `cell`.

`MCDispatch` uses two symmetric threads and two calls per thread. It has
four primitives: `memset` (the avx/sse2 chain), `memcpy` (sse2 only), and
`strspn1` and `strspn2`, which share `strspn_init`. It has five processor
profiles: AVX2; AVX without leaf 7; AVX bits with YMM disabled by the OS;
SSE2 only; no leaf 1. Two calls per thread are enough for a call to see a
cell set by the other thread and for a cell to be hit twice.

### MemWrite and MemWriteSpec

These are the functions that write memory. Unlike the scans, their data
is kept. `mem` holds the bytes of dest. Each byte starts out holding its
own address, so a copied byte says where it came from:
* a copy stores `mem[a + Delta]` when that address is inside dest, and
  `a + Delta` otherwise (a byte of src that dest does not cover keeps
  its address);
* memset and wmemset store `Fill`.

Every action stores a set of chunks `wr`, each `[at, w, al, nt]` (`al`
for an aligned store, `nt` for a streaming one):
* one iteration of a loop, with its 1..8 vectors;
* or one `if` step.

All the loads of a step happen before its stores, as the code loads
chunk1..chunk8 before it stores them. This is what makes memmove's
overlap exact.

`phase` is the loop or `if` the code is at, `n` the code's running `n`,
and `p` its running pointer (`d + f` in memcpy_sse2, the advancing `d`
in memmove_sse2). `i` is a loop index and `m` the bound of a padding
loop. The entry (`Call`, with `FirstPhase` and `FirstPad`) makes the
code's size, overlap and `dest == src` tests. `nt` is whether a
streaming store is still unfenced: a streaming store sets it and the
`_mm_sfence` after each stream loop (`Fence`) clears it. `Groups` streams
when memset's vector count reaches `SetStreamMin` and stores otherwise.

The copies that stop do so at the terminator, or at memccpy's `c`. The
input `z` is the unit of src that holds it, and `TermAt` its address.
Every other byte of src is non-zero and is not `c`. `z = N` means "not
in the first n". `ret` is the pointer the call returns:
* stpcpy and wcpcpy (`SNaive`, `SPad`, `SChunk`, `SLoop`) copy unit by
  unit up to a 16-aligned src, then one aligned chunk up to a 32-aligned
  src, then 32 bytes per iteration. They return at the chunk holding the
  terminator. `Lane` is the code's `o`, the trailing zeros of the mask
  divided by `sizeof` the unit.
* memccpy (`MCLoop`, `MCNaive`) copies 16 bytes at a time while none is
  `c`, then byte by byte. It returns the byte past `c`, or NULL.
* stpncpy (`KN`, `K64`..`K16`, `KPad`, `KSPad`, `KStream`, `KLoop`,
  `KB32`, `KB16`, `KTail`) returns the end of the copy, and then
  `ZFill` is `__stpncpy`'s `memset(r, 0, (dest + n) - r)`. That memset
  is taken as one step, by what `MemWriteSpec` says memset does.

Two constants stand for the large numbers of the code:
* `CopyStreamMin` stands for `1 << 21`, the size from which the copies
  stream. The paths only depend on `n` modulo 128 and on whether a
  256-byte loop iteration fits, so 256 (with sizes 300 and 400) takes
  every streaming path.
  stpncpy's stream path uses the same constant.
* `SetStreamMin` stands for the same `1 << 21`, counted in memset's
  vectors. 8 puts memset's n = 200 and wmemset's n = 60 on the streaming
  loop and the smaller sizes on the plain one.
* `SizeBits` is the width of `size_t` in `Wrap`: wmemset_avx's
  `n -= padding` can wrap.
* `StpncpyBugs` lets stpncpy_sse2 take the inputs of its defects
  (`StpncpyDefect`, see the findings). The pass run sets it to FALSE.

`MemWriteSpec` has `buf`, `goal`, `res`, `want` and `returned`. The
call is one step that sets `buf` to `goal` and `res` to `want`, under
weak fairness. `MemWrite` instances it with:
* `buf <- IF phase = "done" THEN mem ELSE Before`: the caller sees
  nothing until the call returns;
* `goal <- Goal` (for stpncpy, NULs from the terminator to n);
* `res <- IF phase = "done" THEN ret ELSE Null` and `want <- Want`
  (dest, the end of the copied string, or the byte past `c` or NULL);
* `returned <- phase = "done"`.

The property `WriteRefines` therefore says four things: dest ends
exactly right, no other byte changes (`mem` covers dest only, and
`StoresInDest` keeps every store inside it), the call returns, and it
returns the right pointer. `FencedReturn` says no call returns with a
streaming store unfenced.

### ScanFirst

The variables are the pointer `p`, the `phase` (the loop the code is in),
the `result` and `rd`, the loads of the last step. The input is:
* the `<<scan, tier>>` pair, from the constant `Cases`;
* `start` modulo 128;
* the offset `k` of the first hit;
* for the strspn scans, the offset `k + gap` of the terminator, the last
  byte the caller guarantees; for the rawmemchr scans that byte is the
  match;
* for strspn2's vector tiers, `same`: whether n1 = n2 (constant `Sames`);
* whether the bytes between and beyond those are hits.

wcslen scans 4-byte units (`Unit`): its start and every hit are
multiples of 4, and its sse2 and avx2 tiers peel to 16 bytes and then
share rawmemchr's vector loops. Its fallback tests each 8-byte word with
`lowbits = 1`, which detects only the low `wchar_t` of the word
(`WordTest`). With `Cases <- WcslenFallbackCases`, TLC finds `Correct`
violated: a terminator at index 3 is passed over. The tier is not a run of
its own, because on x86_64 `__SSE2__` is always defined and
`wcslen_auto` never selects it. `PROJECT.json` lists it as a hazard.

strrchr walks rawmemchr2's phases. It stops at the terminator (offset
`k`) and carries `pn`, the last match seen, from test to test
(`LastStep`). The input adds the needle kind `needle` (constant
`Needles`): an ASCII byte, 0, or a byte of 128..255. The match before the
terminator is at `k - gap`, and `tail` / `beyond` make every byte before
it, or after the terminator, a match. The peel and the byte loop inside a
word test a byte for c before testing it for 0, so a match on the
terminator counts. The vector tests keep `mask1 % (1 << tz(mask2))`, the
matches strictly below the first terminator lane. The word loops compare
a signed `char` with `n`, so they miss a needle of 128..255
(`WordMatch`). The reference `RefLast` is a byte loop back from the
terminator. strrchr's starts run over 0..63 only (`SpanOf`): its widest
alignment step is 64 (avx2's 16-byte loop to a 64 boundary, then 64-byte
pairs).

strspn2 (the first byte equal to neither n1 nor n2) walks rawmemchr2's
phases. Its fallback word loop skips z = max(z1, z2) bytes at a time,
which finds the first byte equal to neither exactly. strspn2_sse2's pair
loop ORs all four equality masks, the strspn1 mistake (`GroupHit`).
strspn2_avx2's pair test is exact. The pair returns of both vector tiers
are wrong when n1 != n2 and block a has no hit (`Strspn2Pair`). sse2
returns `ptr + 16`. avx2 takes `trailing_zeros(0)`, which is undefined:
the model returns one of `ptr + 32`, `ptr + 31` (helpers.h's portable
loop) or NULL (any other value). The strspn2 vector tiers are not in the
passing run; their recipe is listed under the hazards. The byteset loops
of strspn and strcspn (`BSet`) test one byte per step and depend on no
alignment, so they are checked from one start only (`SpanOf`).

`sizeof(size_t)` is 4 for strspn.c (x32 code) and 8 for the x86_64 files.
The word tests `(m - lowbits) & ~m & highbits` and `m != 0` are exact for
"some byte matches", and are modelled as that. The reference is the
recursive `RefFrom`, the byte loop of the generic `rawmemchr.c`.

### Memchr

The state is the code's own: the pointer `p` and the count `size`, which
every step decrements by what it consumed. The input is `start` modulo
128, the size `n`, the offset `k` of the first match (`k = n` is the byte
just past the buffer; `k = n + 128` means none nearby) and whether later
bytes match too. Every loop of the three tiers is an action, including
the final byte loop and its `return NULL`.

### Memcmp

The state is the offset `off` into both buffers, the count `cnt`, and
the `phase`: a size class (`s128`, `s64`, `s32`, `s16`, and `a256` ..
`a16`) or the rescan of a large loop. The input is `n`, the offset `d` of
the first differing pair (or none near the buffers), and whether later
pairs differ as well. `Val` is the sign of the result. The variable `fn` picks memcmp or
wmemcmp. The two files have the same control, counted in units of
`U` bytes (1 or 4), so a vector holds `V` = 16/U units and an avx2
register `Y` = 32/U. The constant
`Sse2Fourth` says whether memcmp_sse2 is given the inputs of the known bug
(see findings), so the pass run can check the rest of that tier.

### StrCaseCmp

The two strings are given by their starts modulo 128 (`a1`, `a2`), the
offset `k` of the first pair that is not equal, and its kind: `fold`
(equal up to case), `term` (both end) or `diff`. A second pair follows at
`k + gap`. `Kind(i)` gives the kind of each offset, and `StopFrom(i)` the
first place from `i` where strdiff must stop. The strcasecmp loop is
`Call` and `Cmp`; each if and loop of strdiff is an action, with the
paddings `pad1`, `pad2` and the budget `n` of the avx2 tier.

The variable `fn` adds strncasecmp and strncmp, with the caller's bound
`nArg`. The strdiff of x32/strncasecmp.c and the three strncmp tiers of
i386/strncmp.c have one control:
* groups guarded by `padding` (the lesser padding) and by `n`
  (`N64`..`NBytes`);
* an aligned loop when the two paddings are equal (`NAligned`);
* a loop whose head recomputes `padding = padding1 | padding2`, or 128
  (`QTop`, `Q64`..`QBytes`).

strncmp returns at the stop itself (`ReturnAt`, `ReturnLast`). The
constant `EqualStrcasecmp` says whether strcasecmp is given strings
equal up to case. Those are the inputs of its known bug, and excluding
them lets the pass run include terminators for the other two functions.

### Search

`Search` is one call of memmem or strstr. The call is `fn`, `tier`, the
haystack `hay` and needle `ndl` (sequences of small bytes). The state is
the code's `h`, `k` and loop offset `i`, the window registers `hw` and `nw`
(functions from lanes to bytes, lane 0 being the byte at `h`), the two-way
record `tw` (`ms`, `p`, `mem`, `mem0`, `z`), `rd`, the bytes the last step
read, and `phase`, the routine the code is in.

* `MemmemCall` and `StrstrCall` are the wrappers: the early returns, the
  memchr/strchr, strstr's `h[L - 1]` tests, and the choice by length and
  processor (`Route`, `WinMax`).
* `WLoad` and `WLoop` are memmemL / strstrL: the prologue loads
  (`Load`, `Loaded`) and one iteration each of `while (k >= L)` /
  `while (h[L - 1])`. The iteration compares the lanes `Cmp`, then
  shifts with `ByteShift` and ORs or inserts the next byte (`Shift`).
  Lanes are shifted as the code's integers and intrinsics shift them,
  so the AVX2 lane bug is what the model computes, not an assumption.
* `MemmemNaive` / `StrstrNaive` are one iteration of the memcmp and
  strncmp loops.
* `TwoWayInit` is the two-way prologue: the two maximal suffixes
  (RECURSIVE `MaxSuf`, the code's `while (jp + k < l)` loop), the
  period test (`Periodic`, `Mem0`), and strstr's walk to the needle's
  end.
* `TwoWayStep` is one iteration of the search loop: strstr's memchr
  growth of `z` (`NextZ`), the end test (`Short`), the shift on the
  last byte (`InNeedle`, `ShiftOf`), and the right and left halves
  (`RightStop`, `LeftStop`) with their shifts by `k - ms` and by `p`.

`First` is the reference, the least offset where the needle occurs.
The code switches to the two-way search at l = 512 (`TwoWayMin`). The
pass run sets `TwoWayMin = 12`, so needles of 12..17 bytes that no
window routine takes go to the two-way search. Nothing in the
two-way algorithm depends on l being at least 512: the threshold only
chooses between two correct routines. Needles of 9 on the fallback tier
still take the naive loop.

## 4. Runs

| run | cfg | expect | shows |
|---|---|---|---|
| dispatch | MCDispatch.cfg | pass | with the probe first, every processor profile and every interleaving of two threads runs only supported tiers; each cell is set once, to the best tier (`DispatchRefines`) |
| scan | ScanPass.cfg | pass | every rawmemchr tier, rawmemchr2/3 in every tier, strspn1_fallback, strspn2_fallback, the byteset loops of strspn and strcspn and wcslen_sse2/avx2 return the first hit, strrchr (ASCII c) in every tier the last match, align their vector loads and keep them inside the 128-byte block of the last guaranteed byte |
| memchr | MemchrAll.cfg | pass | all three tiers return the first match or NULL, read only the n bytes and align their vector loads |
| memcmp | MemcmpPass.cfg | pass | memcmp and wmemcmp in all tiers and both builds return the sign of the first difference and read only the n bytes (sse2 without the known bug's inputs) |
| memcmp_sse2_fourth | MemcmpSse2_Correct.cfg | violation | memcmp_sse2 returns `l[64]-r[64]` for a first difference at 48..63 of its 64-byte class (wmemcmp_sse2 likewise at 12..15 of 16 units) |
| strcasecmp | StrDiffPass.cfg | pass | strcasecmp (for strings that differ), strncasecmp and strncmp return the first (case-insensitive) difference or 0 in every tier; strdiff never passes the first stop; every strdiff but i386's sse2 returns exactly it or n-1; the n-bounded loops never read past n or the strings' last 128-byte block (`BoundedNoOverread`) |
| strcasecmp_equal | StrCaseCmpEqual.cfg | violation | for strings equal up to case, strcasecmp steps past both terminators |
| scan_strrchr_nul | ScanStrrchrNul.cfg | violation | for c = 0, strrchr_sse2/avx2 return NULL when a vector test finds the terminator |
| memwrite | MemWritePass.cfg | pass | memset, wmemset (n < 17 on avx), memcpy, memmove, stpcpy, wcpcpy, memccpy and stpncpy (without its defects' inputs) in every tier store only inside dest, align every aligned store, fence every stream before returning, and refine `MemWriteSpec`: they return the right pointer with dest right, overlap in either direction included |
| search | SearchPass.cfg | pass | memmem and strstr (needles of 0..17 bytes, every processor but memmem's avx2 routines) return the first occurrence; the window registers hold exactly the window (`WindowTracks`); no step moves past an occurrence (`NeverSkips`); the two-way search's memory `mem` is always a true prefix match (`MemPrefix`); strstr never reads past the terminator |
| search_avx2 | SearchAvx2.cfg | violation | memmem17..32 compare too few bytes, because the `__m256i` shifts work within each 128-bit half, and return a wrong pointer |
| memwrite_stpncpy | MemWriteStpncpy.cfg | violation | stpncpy_sse2's tail returns dest + 130 for a NUL at 128 of a 130-byte call, and leaves byte 129 unpadded |

Bounds. The starts run over all 128 residues where the code's alignment
steps depend on them (memchr). The scans' starts are the residues
0 and 1 modulo 4 (`Residues`), which take every peel length class of the
word loops and every vector alignment. The violation cfgs use all four.
The offsets reach past the first iteration of the widest loop from most
residues: 104 for the scans,
sizes up to 192 for memchr (a 128-byte loop iteration after the peel),
sizes around every class boundary up to 520 for memcmp (two 256-byte
iterations), offsets up to 150 from three starts for each string for
StrCaseCmp: enough for a 128-byte aligned loop, both orders of the
paddings and equal paddings. The bounds `nArg` are 0, 1, 70 and 140,
which put the bound before, at and after the stops. TLC's
action coverage shows every action fired in the pass runs.

For `Search` the needles have lengths 0, 1, 2, 3, 4, 5, 8, 9, 12, 16
and 17: every integer width, the `__m128i` routines with the shifted
load (9, 12) and without it (16), the naive loops, and the two-way
search. A needle is all 1s with at most one 2, so it is periodic (all
1s, period 1) or not. The haystacks are one shorter than the needle, as
long, and two and three longer, all 1s with up to two 2s (one 2 for
needles longer than 8). The lengths 12, 16 and 17 also take the needle
1 1 2 1 1 2 .., of period 3, with haystacks of the same pattern, two and
five longer than the needle, with at most one byte swapped. Only these
give a shift by `p` with `mem0 = l - 3 > 0` and a later step that
starts its right half at `mem > 0`. (A needle of 1s with one 2 that is
periodic, 1^8 2 1^8, needs a second 2 in the window to shift by `p`.)
Together the inputs put every occurrence, mismatch lane and shift of the
two-way search (`l`, table shift, `k - ms`, `p`) in reach, and TLC's
coverage shows each branch of `TwoWayStep` taken. The memmem AVX2 run uses needles of 17, 24 and 32.

For `MemWrite` the dests are 1024 plus 0, 1, 4, 15, 16, 17, 28, 31, 60,
76 and 127. These residues put the 4-, 16-, 32- and 128-byte paddings at
their ends and middles. The naive copies and wmemset_fallback only count,
so they take the first dest. The sizes lie on both sides of each
threshold of the code:
* memset: 1, 3, 7, 28 and 65, and 33..200 for the vector loops;
* wmemset: 1, 3, 7 and 17, plus 30 and 60;
* the copies: 16, 32, 64, 128 and 256, up to 400 for two streaming
  iterations.

src - dest takes the values -400, -33, -16, -1, 0, 1, 15, 100 and 400:
disjoint, and overlapping in both directions, by less than one vector
and by more. The pass run keeps wmemset_avx below n = 17, the inputs of
its finding.

For the string copies, src must not overlap dest (they are `restrict`),
so the offsets -400, 100 and 400 apply; stpcpy's control depends on src's
alignment, and the dests give it every residue that matters.
* The terminators `Terms` are 0, 1, 15, 16, 17, 31, 33, 48, 64, 80, 140
  and 290. They fall in the byte paddings, the aligned chunk, both halves
  of a 32-byte iteration, each 64-byte block, the stream padding and the
  tails.
* stpncpy's and memccpy's `NSizes` are 0, 1, 16, 17, 40, 64, 100, 127,
  128, 129, 150 and 300. These are each threshold of the n < 128 path,
  the 128-byte switch, and 300 for the stream path with
  `CopyStreamMin = 256`.

## 5. Findings

| run | source | what |
|---|---|---|
| memcmp_sse2_fourth | x32/memcmp.c:133 | the last else of the 64-byte class uses n2's mask, so it returns `l[64]-r[64]`, a byte past the class |
| memcmp_sse2_fourth | i386/wmemcmp.c:131 | the same n2 slip in wmemcmp_sse2 |
| strcasecmp_equal | i386/strcasecmp.c:382 | strcasecmp never returns 0: at two terminators it steps past them and goes on |
| search_avx2 | x32/memmem.c:184 | memmem17..31 build the upper half of the windows with `_mm256_bslli_epi128`, which shifts within each 128-bit half, so lanes 16..L-1 hold 0 instead of the needle's bytes; memmem17..32 shift with `_mm256_bsrli_epi128`, which puts 0 in lane 15. `memmem(h, 17, n, 17)` with h sixteen 1s then 2 and n seventeen 1s returns h |
| memwrite_stpncpy | i386/stpncpy.c:280 | the `if (n)` tail loads its chunk at `src + n - 16` but returns `dest + o` for a NUL at lane `o` (or `dest + n` when `o >= n`); the NUL is at `dest + n - 16 + o`. `stpncpy(d, s, 130)` with d 16-aligned and `s[128] = 0` returns `d + 130`, so the memset pads nothing and `d[129]` keeps `s[129]` |
| scan_strrchr_nul | x86_64/strrchr.c:96 | for c = 0 the match mask equals the terminator mask, so `mask1 % (1 << tz(mask2))` is 0 and the test returns `pn` (NULL): `strrchr("", 0)` at an address that is 16 mod 32 on the sse2 tier returns NULL rather than s |

strdiff_sse2 compares its 16-lane masks with -1 (i386/strcasecmp.c:64), so
it may return before the first stop. strcasecmp still returns the right
value, which the `strcasecmp` run checks, so this is listed as a hazard
and `DiffExact` is stated for the other tiers only.

Defects that TLC shows but that have no run of their own are listed as hazards, each with the cfg
change that reproduces it:
* strspn1_sse2 and strspn1_avx2 OR the equality masks of a group and
  compare with all-ones (x32/strspn.c:85), so a differing byte is missed
  when another block matches in its lane (`Cases <- Strspn1SimdCases`,
  `Correct`);
* wmemset_avx's padding `31 - ((uintptr_t)(s-1) % 32) / sizeof(wchar_t)`
  divides only the remainder (x86_64/wmemset.c:100): `wmemset(s, c, 32)`
  at s = 1028 leaves `s[8..30]` unset (`AvxWideWmemset = TRUE`,
  `WriteRefines`);
* every memmem window loop loads the byte after the window before it
  tests k (x32/memmem.c:42, :148, :173, :191, :224), so its last
  iteration reads `h0[k]`, one byte past the haystack (SearchPass.cfg's
  constants with `NoOverread`);
* with the probe not run first (`ProbeFirst = FALSE`), racing calls store
  different tiers in one cell (`CellStable`). Nothing under src/ calls
  `__init_cpu_features`, so when it runs is decided by code outside src/.
  With the probe first, `DispatchRefines` already implies a stable cell.
* strspn2's vector pair returns (x32/strspn.c:349, :286). With `Cases <-
  Strspn2SimdCases`, `Residues = {0}` and `Sames = {FALSE, TRUE}`,
  `Correct` fails. The avx2 tier fails for a first byte outside the span
  at offset 32 of a 64-aligned s. The sse2 tier passes one at offset 16.
* strrchr's signed compare in its word loops (x86_64/strrchr.c:77; with
  `Needles = {"high"}`, `Correct` fails for a match in a word).
* strdiff_avx2's `n = 128 - n` after the byte loop (i386/strcasecmp.c:357).
  With n = 0 it gives the other string a budget of 128, so a 64-byte
  load crosses that string's 128-byte block (`NoOverread`).
* stpncpy_sse2 tests `n < 128` before its first padding
  (i386/stpncpy.c:139). When the padding takes n below 128, only the 32,
  16 and tail steps run. `stpncpy(d, s, 128)` at d = 1025 never copies
  or tests bytes 63 up to the tail.
* on stpncpy_sse2's stream path, the padding/16 aligned stores to a
  128-aligned dest (i386/stpncpy.c:141) never test for the NUL. A NUL
  there is copied and missed, and the call returns dest + n.
* stpncpy_sse2's stream loop returns at the NUL before its `_mm_sfence`
  (i386/stpncpy.c:170, `FencedReturn`).

Two more are in fallback tiers that no x86_64 or x32 build selects.
`has_sse2()` is the constant 1 wherever `__SSE2__` is defined
(cpu_features.h:48-53), and it always is on these targets. So these two
are not hazards of the code that runs:
* wcslen_fallback's `lowbits = 1` (x86_64/wcslen.c:41) finds only the
  low `wchar_t` of each word;
* rawmemchr_fallback and strspn1_fallback load the second word of a pair
  before testing the first, which reads past the match's page
  (`NoOverread`).

One more, the `1 << 31` signed overflow of strrchr_avx2, is a hazard the
model does not reach, because it represents masks as sets of lanes.

## 6. Fairness and termination

`Dispatch` assumes no fairness. Its properties are safety (`SupportedTier`)
and the refinement of `DispatchCell`, which has no fairness either. P_auto is
an if / else-if chain that never blocks or loops, so a property that a call
returns would hold by the shape of the actions and check nothing about the
code.

`MemWrite` assumes weak fairness of `Next`: a call runs on its own thread,
which the scheduler keeps running, and no step of the code blocks. With
it `WriteRefines` includes `MemWriteSpec`'s weak fairness, that the call
returns.

The other function models are single sequential calls. Every step that does not
return advances the pointer or the phase, and the inputs put a stop within
the bounds, so TLC explores a finite graph, and `NeverPassesHit` /
`NeverPassesStop` say the loops end where they must. Termination is a
safety argument, not a fairness assumption.

## 7. Not modelled

* `immintrin.h`: compiler builtins, with no state. `Search` models the
  256-bit byte shift (`ByteShift`) and the cast's undefined upper half
  (`Loaded`), because memmem's AVX2 routines depend on them. The other
  modules use what each intrinsic computes.
* twoway_strstr's `z += grow` path: it needs a haystack of more than
  63 bytes past h, which the small haystacks of `MCSearch` do not reach.
  The memchr path that finds the terminator is checked.
* The fma and avx512 flags: no primitive tests them.
* Byte values: they are abstracted to hit or no hit, differ or not. So
  two sign hazards in `PROJECT.json` are listed without a property:
  - strncasecmp's `tolower(*s1) - tolower(*s2)` is taken on signed
    `char`;
  - wmemcmp_naive's `*l - *r` can overflow. The
  word trick's exactness is argued above rather than checked bit by bit.
* The functions marked not_modelled in `PROJECT.json`, with the reason.
