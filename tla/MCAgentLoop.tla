---------------------------- MODULE MCAgentLoop ----------------------------
\* The loop with bounds small enough for TLC; the limits that are constants of
\* the code are given in the configuration.
EXTENDS AgentLoop, TLC
=============================================================================
