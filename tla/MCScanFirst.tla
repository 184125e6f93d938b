---------------------------- MODULE MCScanFirst ----------------------------
(* The scan/implementation pairs the runs of ScanFirst check.              *)
EXTENDS ScanFirst

(* Every pair the repository builds except the strspn1 vector tiers, whose *)
(* OR-combined masks have a run of their own, the strspn2 vector tiers,   *)
(* whose pair returns are wrong (Strspn2Pair), and wcslen_fallback, whose  *)
(* word test sees one wchar_t of two (strrchr with the needles of Needles, *)
(* which the passing run keeps ASCII).                                     *)
PassCases ==
  ({"rawmemchr"} \X {"generic", "fallback", "sse2", "avx2"})
  \cup {<<"strspn2", "fallback">>, <<"strspn", "byteset">>, <<"strcspn", "byteset">>}
  \cup ({"rawmemchr2", "rawmemchr3"} \X {"fallback", "sse2", "avx2"})
  \cup {<<"strspn1", "fallback">>}
  \cup ({"wcslen"} \X {"sse2", "avx2"})
  \cup ({"strrchr"} \X {"fallback", "sse2", "avx2"})

(* The two scans that load words in pairs.                                 *)
OverreadCases == {"rawmemchr", "strspn1"} \X {"fallback"}

Strspn1SimdCases == {"strspn1"} \X {"sse2", "avx2"}
WcslenFallbackCases == {<<"wcslen", "fallback">>}

Strspn2SimdCases == {"strspn2"} \X {"sse2", "avx2"}

StrrchrCases == {"strrchr"} \X {"fallback", "sse2", "avx2"}
=============================================================================
