---------------------------- MODULE MCAsyncIsle ----------------------------
(* Small instances of AsyncIsle.                                           *)
EXTENDS AsyncIsle, TLC

MCFirers == Jobs \cup Cancellers

AsyncSymmetry == Permutations(Jobs)

\* A bound: callers who differ in what they call, one with a deadline and one
\* with a task.  That two of a kind meet is left to SyncIsle's runs.
MixedCalls ==
  \A j, k \in Jobs : j # k /\ op[j] # "none" => op[j] # op[k]
=============================================================================
