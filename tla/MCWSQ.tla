------------------------------- MODULE MCWSQ -------------------------------
EXTENDS WSQ, TLC

CONSTANTS h1, h2

MCTasks == 1..5
MCThieves == {h1, h2}

\* One task is like another: they are pushed in the order of their numbers.
InOrder == \A x, y \in Tasks : Fresh(x) /\ x < y => y # hand

Symmetry == Permutations(Thieves)
=============================================================================
