---------------------------- MODULE MCIsleThread ----------------------------
(* Small instances of IsleThread.                                          *)
EXTENDS IsleThread, TLC

\* Jobs are interchangeable, and so are the firing threads.  Symmetry is used
\* by the run that checks invariants and action properties only.
ThreadSymmetry == Permutations(Jobs) \cup Permutations(Firers)
=============================================================================
