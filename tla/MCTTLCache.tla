---------------------------- MODULE MCTTLCache ----------------------------
(* TTLCache on three keys, two values and a capacity of two entries, so   *)
(* that a set() meets a full cache with and without an expired entry.      *)
EXTENDS TTLCache, TLC

MCSymmetry == Permutations(Keys) \cup Permutations(Vals)
=============================================================================
