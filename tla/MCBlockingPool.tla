--------------------------- MODULE MCBlockingPool ---------------------------
EXTENDS BlockingPool

CONSTANTS c1, c2, w1, w2

MCCoroutines == {c1, c2}
MCOne == {c1}
MCWorkers == {w1, w2}
=============================================================================
