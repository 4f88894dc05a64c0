--------------------------- MODULE MCMPMCQueueBase ---------------------------
\* A small instance of MPMCQueueBase: see the .cfg file for the numbers.
EXTENDS MPMCQueueBase, TLC

Symmetry == Permutations(Callers)
=============================================================================
