----------------------------- MODULE MCIslePool -----------------------------
(* Small instances of IslePool.                                            *)
EXTENDS IslePool, TLC

PoolSymmetry == Permutations(Threads) \cup Permutations(Isles)
=============================================================================
