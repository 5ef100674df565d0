----------------------------- MODULE MCAgentRun -----------------------------
EXTENDS AgentRun

CONSTANTS c1, c2

MCChild == {c1, c2}
=============================================================================
