----------------------------- MODULE MCReactor -----------------------------
EXTENDS Reactor

CONSTANTS c1, c2

MCCoroutines == {c1, c2}
OneFd == {0}
LowAndHigh == {0, 2}     \* 2 is beyond the table
=============================================================================
