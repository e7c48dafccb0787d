-------------------------- MODULE MCSessionHandles --------------------------
EXTENDS SessionHandlesProps, TLC

MCSymmetry == Permutations(Handles) \cup Permutations(Procs)
=============================================================================
