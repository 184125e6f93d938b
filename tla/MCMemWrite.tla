---------------------------- MODULE MCMemWrite -----------------------------
(* The src - dest offsets the runs of MemWrite give the copies: src below *)
(* dest (memmove copies back) and above it (forward), overlapping by less *)
(* than a byte, a vector and a 64-byte group, and apart.                   *)
EXTENDS MemWrite

PassDeltas == {-400, -33, -16, -1, 0, 1, 15, 100, 400}
=============================================================================
