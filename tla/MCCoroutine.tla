---------------------------- MODULE MCCoroutine ----------------------------
EXTENDS Coroutine

CONSTANTS io, w1, w2

MCWorkers == {w1, w2}
OneWorker == {w1}

\* A coroutine that waits, one that awaits and computes, both running lm code; a
\* C coroutine that waits and is idle long enough for the reaper; a C coroutine that
\* runs too long.
SafePrograms == {[vm |-> TRUE, ops |-> {"wait", "slice"}],
                 [vm |-> TRUE, ops |-> {"await", "slice", "compute"}],
                 [vm |-> FALSE, ops |-> {"wait", "slice"}],
                 [vm |-> FALSE, ops |-> {"hog", "compute"}]}

\* Programs that do not: one that is woken before it has yielded keeps an entry in a
\* queue and goes on to migrate; one that sysmon and its own slices queue.
WaitAndCompute == {[vm |-> TRUE, ops |-> {"wait", "compute"}]}
HogAndSlice == [vm : BOOLEAN, ops : {{"slice", "hog"}}]

Native == {[vm |-> FALSE, ops |-> {"slice"}]}
=============================================================================
