--------------------------- MODULE MCJobNotices ---------------------------
EXTENDS JobNoticesProps, TLC

MCSymmetry == Permutations(Jobs) \cup Permutations(Waits)
=============================================================================
