-------------------------- MODULE MCPttController --------------------------
\* The controller alone, with short limits and a few turns.
EXTENDS PttController
============================================================================
