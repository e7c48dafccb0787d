--------------------------- MODULE MCJobRegistry ---------------------------
EXTENDS JobRegistryProps, TLC

MCSymmetry == Permutations(Jobs) \cup Permutations(Waits)
=============================================================================
