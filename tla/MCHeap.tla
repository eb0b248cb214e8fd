------------------------------- MODULE MCHeap -------------------------------
EXTENDS Heap, TLC
CONSTANTS t1, t2, a, b
MCThreads == {t1, t2}
MCObjs == {a, b}
MCSymmetry == Permutations(MCThreads) \cup Permutations(MCObjs)
=============================================================================
