--------------------------- MODULE MCCacheBackend ---------------------------
(* Instances of CacheBackend for TLC: callers, keys and values have no     *)
(* order and no property tells them apart.                                 *)
EXTENDS CacheBackend, TLC

Symmetry == Permutations(Callers) \cup Permutations(Keys) \cup Permutations(Values)
=============================================================================
