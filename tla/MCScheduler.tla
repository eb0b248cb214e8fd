---------------------------- MODULE MCScheduler ----------------------------
EXTENDS Scheduler, TLC

CONSTANTS w1, w2, x1, x2, x3, p1, p2

MCWorkers == {w1, w2}
OneWorker == {w1}
MCTasks == {x1, x2}
ThreeTasks == {x1, x2, x3}
AnyTask == Permutations(ThreeTasks)
MCPosters == {p1, p2}
OnePoster == {p1}

=============================================================================
