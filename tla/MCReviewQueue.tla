---------------------------- MODULE MCReviewQueue ----------------------------
(* ReviewQueue for TLC: model values and their symmetry.                   *)
EXTENDS ReviewQueue, TLC

CONSTANTS s1, s2, f1, f2, r1, r2

SymmetricClients == Permutations({f1, f2}) \cup Permutations({r1, r2})
=============================================================================
