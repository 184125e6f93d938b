----------------------------- MODULE MCDispatch -----------------------------
EXTENDS Dispatch, TLC

(* Processor profiles: cpuid leaf 1 and leaf 7 bits and the XCR0 state.   *)
CPUProfile(l1, s2, osx, ymm, a, l7, a2) ==
  [leaf1 |-> l1, sse2 |-> s2, osxsave |-> osx, ymm |-> ymm,
   avx |-> a, leaf7 |-> l7, avx2 |-> a2]

MCCPUs ==
  { CPUProfile(TRUE,  TRUE,  TRUE,  TRUE,  TRUE,  TRUE,  TRUE),   \* AVX2 machine
    CPUProfile(TRUE,  TRUE,  TRUE,  TRUE,  TRUE,  FALSE, FALSE),  \* AVX, no leaf 7
    CPUProfile(TRUE,  TRUE,  TRUE,  FALSE, TRUE,  TRUE,  TRUE),   \* OS left YMM off
    CPUProfile(TRUE,  TRUE,  FALSE, FALSE, FALSE, TRUE,  FALSE),  \* SSE2 only
    CPUProfile(FALSE, FALSE, FALSE, FALSE, FALSE, FALSE, FALSE) } \* no cpuid leaf 1

MCFns == {"memset", "memcpy", "strspn1", "strspn2"}

MCSymmetry == Permutations(Threads)
=============================================================================
