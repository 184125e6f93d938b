------------------------------ MODULE Dispatch ------------------------------
(***************************************************************************)
(* The lazily initialised dispatch cells of the string library and the     *)
(* CPU feature probe whose flags they consult.                             *)
(*                                                                         *)
(* Every dispatched primitive P has a static cell P_impl that starts out   *)
(* pointing at P_auto.  The public entry point P calls through the cell.   *)
(* P_auto tests the has_X() predicates of cpu_features.h in the order the  *)
(* source lists them, stores the chosen tier in the cell (strspn_init      *)
(* stores into two cells), re-reads the cell and calls it.  The cells are  *)
(* read and written without locks by any number of threads; a pointer      *)
(* sized aligned store is atomic on x86, so a racing read returns either   *)
(* the old or the new pointer.                                             *)
(*                                                                         *)
(* __init_cpu_features writes the cpu_features flags one by one.  Nothing  *)
(* under src/ calls it: the C runtime is expected to run it before any     *)
(* primitive is called.  ProbeFirst states whether that is assumed.        *)
(***************************************************************************)
EXTENDS Naturals, Sequences, SequencesExt

CONSTANTS
  Threads,      \* calling threads
  Fns,          \* the dispatched primitives that the threads call
  CPUs,         \* the processors the program may run on (cpuid bits)
  Compiled,     \* features enabled at compile time (__SSE2__, __AVX__, ..)
  MaxCalls,     \* calls made by each thread; bounds the model
  ProbeFirst    \* TRUE: __init_cpu_features completes before any call

Features == {"sse2", "avx", "avx2"}
Auto     == "auto"
Tiers    == Features \cup {"fallback"}

(***************************************************************************)
(* The features each P_auto tests, in the order it tests them; the tier    *)
(* is named after the feature, "fallback" when none holds.                 *)
(***************************************************************************)
Chain(f) ==
  IF f \in {"memset", "wmemset"} THEN <<"avx", "sse2">>
  ELSE IF f \in {"memcpy", "memmove", "memccpy", "stpcpy", "wcpcpy",
                 "stpncpy"} THEN <<"sse2">>
  ELSE <<"avx2", "sse2">>

(* The cells one call of P_auto writes, in program order (strspn_init).   *)
Group(f) ==
  IF f \in {"strspn1", "strspn2"} THEN <<"strspn1", "strspn2">> ELSE <<f>>

ASSUME Compiled \subseteq Features /\ MaxCalls \in Nat /\ ProbeFirst \in BOOLEAN

VARIABLES
  cpu,          \* the processor this run executes on
  cpu_features, \* the flags of struct cpu_features
  probePc,      \* where __init_cpu_features is
  cell,         \* cell[f]: the pointer stored in f_impl
  pc,           \* per thread: "idle", "check", "write", "call"
  fn,           \* the primitive the thread is calling
  idx,          \* the position in Chain(fn) P_auto tests next
  choice,       \* the tier P_auto has chosen
  pending,      \* the cells P_auto still has to store into
  calls,        \* calls each thread has started
  ran           \* ran[t]: the tiers thread t has executed

vars == <<cpu, cpu_features, probePc, cell, pc, fn, idx, choice, pending,
          calls, ran>>

(***************************************************************************)
(* has_X() of cpu_features.h: the compile-time macro or the runtime flag.  *)
(***************************************************************************)
Has(x) == x \in Compiled \/ cpu_features[x]

(* The tiers an instruction of which may execute on processor c.          *)
Usable(c) ==
  {"fallback"}
  \cup (IF c.leaf1 /\ c.sse2 THEN {"sse2"} ELSE {})
  \cup (IF c.leaf1 /\ c.osxsave /\ c.ymm /\ c.avx THEN {"avx"} ELSE {})
  \cup (IF c.leaf1 /\ c.osxsave /\ c.ymm /\ c.leaf7 /\ c.avx2
          THEN {"avx2"} ELSE {})

(* The tier of P best suited to processor c: the first usable in Chain.   *)
Best(f, c) ==
  LET i == SelectInSeq(Chain(f), LAMBDA x : x \in Usable(c))
  IN  IF i = 0 THEN "fallback" ELSE Chain(f)[i]

(* A build only enables at compile time what every target processor has.  *)
ASSUME \A c \in CPUs : Compiled \subseteq Usable(c)

Init ==
  /\ cpu \in CPUs
  /\ cpu_features = [x \in Features |-> FALSE]
  /\ probePc = "leaf1"
  /\ cell = [f \in Fns |-> Auto]
  /\ pc = [t \in Threads |-> "idle"]
  /\ fn \in [Threads -> Fns]
  /\ idx = [t \in Threads |-> 1]
  /\ choice = [t \in Threads |-> "fallback"]
  /\ pending = [t \in Threads |-> <<>>]
  /\ calls = [t \in Threads |-> 0]
  /\ ran = [t \in Threads |-> {}]

(***************************************************************************)
(* __init_cpu_features, one flag store per step.                           *)
(***************************************************************************)
(* Mutant: the XCR0 test (xcr & 6) == 6 is dropped.                      *)
ProbeSSE2NoXcr ==
  /\ probePc = "leaf1"
  /\ cpu_features' = [cpu_features EXCEPT !["sse2"] = cpu.leaf1 /\ cpu.sse2]
  /\ probePc' = IF cpu.leaf1 /\ cpu.osxsave THEN "avx" ELSE "done"
  /\ UNCHANGED <<cpu, cell, pc, fn, idx, choice, pending, calls, ran>>

ProbeSSE2 ==
  /\ probePc = "leaf1"
  /\ cpu_features' = [cpu_features EXCEPT !["sse2"] = cpu.leaf1 /\ cpu.sse2]
  /\ probePc' = IF cpu.leaf1 /\ cpu.osxsave /\ cpu.ymm THEN "avx" ELSE "done"
  /\ UNCHANGED <<cpu, cell, pc, fn, idx, choice, pending, calls, ran>>

ProbeAVX ==
  /\ probePc = "avx"
  /\ cpu_features' = [cpu_features EXCEPT !["avx"] = cpu.avx]
  /\ probePc' = IF cpu.leaf7 THEN "avx2" ELSE "done"
  /\ UNCHANGED <<cpu, cell, pc, fn, idx, choice, pending, calls, ran>>

ProbeAVX2 ==
  /\ probePc = "avx2"
  /\ cpu_features' = [cpu_features EXCEPT !["avx2"] = @ \/ (cpu_features["avx"] /\ cpu.avx2)]
  /\ probePc' = "done"
  /\ UNCHANGED <<cpu, cell, pc, fn, idx, choice, pending, calls, ran>>

(***************************************************************************)
(* P(args): return P_impl(args).  A terminal pointer runs that tier; the  *)
(* initial pointer enters P_auto.                                          *)
(***************************************************************************)
Call(t, f) ==
  /\ pc[t] = "idle"
  /\ calls[t] < MaxCalls
  /\ ProbeFirst => probePc = "done"
  /\ fn' = [fn EXCEPT ![t] = f]
  /\ calls' = [calls EXCEPT ![t] = @ + 1]
  /\ IF cell[f] = Auto
       THEN /\ pc' = [pc EXCEPT ![t] = "check"]
            /\ idx' = [idx EXCEPT ![t] = 1]
            /\ UNCHANGED ran
       ELSE /\ ran' = [ran EXCEPT ![t] = @ \cup {cell[f]}]
            /\ UNCHANGED <<pc, idx>>
  /\ UNCHANGED <<cpu, cpu_features, probePc, cell, choice, pending>>

(* Mutant: the chain stops at the first failed test (a missing else if).  *)
AutoCheckNoElse(t) ==
  LET ch == Chain(fn[t]) IN
  /\ pc[t] = "check"
  /\ choice' = [choice EXCEPT ![t] =
                  IF idx[t] <= Len(ch) /\ Has(ch[idx[t]]) THEN ch[idx[t]]
                  ELSE "fallback"]
  /\ pc' = [pc EXCEPT ![t] = "write"]
  /\ pending' = [pending EXCEPT ![t] = Group(fn[t])]
  /\ UNCHANGED <<cpu, cpu_features, probePc, cell, fn, idx, calls, ran>>

(* P_auto: one has_X() test of the if / else if chain.                    *)
AutoCheck(t) ==
  LET ch == Chain(fn[t]) IN
  /\ pc[t] = "check"
  /\ IF idx[t] > Len(ch)
       THEN /\ choice' = [choice EXCEPT ![t] = "fallback"]
            /\ pc' = [pc EXCEPT ![t] = "write"]
            /\ pending' = [pending EXCEPT ![t] = Group(fn[t])]
            /\ UNCHANGED idx
       ELSE IF Has(ch[idx[t]])
       THEN /\ choice' = [choice EXCEPT ![t] = ch[idx[t]]]
            /\ pc' = [pc EXCEPT ![t] = "write"]
            /\ pending' = [pending EXCEPT ![t] = Group(fn[t])]
            /\ UNCHANGED idx
       ELSE /\ idx' = [idx EXCEPT ![t] = @ + 1]
            /\ UNCHANGED <<choice, pc, pending>>
  /\ UNCHANGED <<cpu, cpu_features, probePc, cell, fn, calls, ran>>

(* P_auto: P_impl = <chosen tier>; one store per cell.                    *)
AutoWrite(t) ==
  /\ pc[t] = "write"
  /\ pending[t] # <<>>
  /\ cell' = [cell EXCEPT ![Head(pending[t])] = choice[t]]
  /\ pending' = [pending EXCEPT ![t] = Tail(@)]
  /\ pc' = [pc EXCEPT ![t] = IF Len(pending[t]) = 1 THEN "call" ELSE "write"]
  /\ UNCHANGED <<cpu, cpu_features, probePc, fn, idx, choice, calls, ran>>

(* P_auto: return P_impl(args), re-reading the cell.                      *)
AutoCall(t) ==
  /\ pc[t] = "call"
  /\ ran' = [ran EXCEPT ![t] = @ \cup {cell[fn[t]]}]
  /\ pc' = [pc EXCEPT ![t] = "idle"]
  /\ UNCHANGED <<cpu, cpu_features, probePc, cell, fn, idx, choice, pending, calls>>

Finished ==
  /\ probePc = "done"
  /\ \A t \in Threads : pc[t] = "idle" /\ calls[t] = MaxCalls
  /\ UNCHANGED vars

Thread(t) ==
  \/ \E f \in Fns : Call(t, f)
  \/ AutoCheck(t)
  \/ AutoWrite(t)
  \/ AutoCall(t)

Probe == ProbeSSE2 \/ ProbeAVX \/ ProbeAVX2

Next == Probe \/ (\E t \in Threads : Thread(t)) \/ Finished

Spec == Init /\ [][Next]_vars

-----------------------------------------------------------------------------

(* No thread ever executes the instructions of a tier the processor (and  *)
(* its operating system) does not support: the probe's order of tests     *)
(* and P_auto's chain together must never select such a tier.             *)
SupportedTier ==
  \A t \in Threads : ran[t] \subseteq Usable(cpu)

(* Once a cell holds a tier it never changes: racing P_auto calls store   *)
(* the identical pointer, and no store puts the cell back to P_auto.      *)
CellStable ==
  [][\A f \in Fns : cell[f] # Auto => cell'[f] = cell[f]]_vars

(* The cells implement DispatchCell: each is set once, to the best tier,  *)
(* whatever the interleaving of racing P_auto calls.                      *)
Abstract == INSTANCE DispatchCell
DispatchRefines == Abstract!Spec

=============================================================================
