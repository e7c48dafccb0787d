-------------------------- MODULE MCSessionRepair --------------------------
EXTENDS SessionRepairProps, TLC
=============================================================================
