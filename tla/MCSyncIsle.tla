----------------------------- MODULE MCSyncIsle -----------------------------
(* Small instances of SyncIsle.                                            *)
EXTENDS SyncIsle, TLC

MCFirers == Jobs \cup Cancellers

SyncSymmetry == Permutations(Jobs) \cup Permutations(Closers)
=============================================================================
