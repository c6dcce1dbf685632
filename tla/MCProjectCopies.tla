--------------------------- MODULE MCProjectCopies ---------------------------
(* Two stored objects and two goroutines for TLC.                          *)
EXTENDS ProjectCopies, TLC

CONSTANTS v1, v2, u1, u2, d1, d2

TwoCached == {v1, v2}
TwoUsers == {u1, u2}
TwoData == {d1, d2}
NewAndUsed == {{}, Fields}
Symmetry == Permutations(TwoCached) \cup Permutations(TwoUsers) \cup Permutations(TwoData)
==============================================================================
