---------------------------- MODULE SystemControlMC ----------------------------
EXTENDS SystemControl, TLC
Symmetry == Permutations(Ids)
=============================================================================
