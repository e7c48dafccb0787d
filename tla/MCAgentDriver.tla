--------------------------- MODULE MCAgentDriver ---------------------------
EXTENDS AgentDriverProps, TLC

MCSymmetry == Permutations(Msgs)
=============================================================================
