------------------------------- MODULE MCSync -------------------------------
EXTENDS SyncFamily

CONSTANTS a1, a2, a3

MCAgents == {a1, a2, a3}
MCWorkers == {a1, a2}
=============================================================================
