---------------------------- MODULE MCThreadLocal ----------------------------
\* Small instances of ThreadLocal: see the .cfg files for the numbers.
EXTENDS ThreadLocal, TLC

Symmetry == Permutations(Threads)
=============================================================================
