------------------------------ MODULE MCTimer ------------------------------
EXTENDS Timer

CONSTANTS s1, s2, c1, thread1

MCSlots == {s1, s2}
OneClient == {c1}

\* The client and the callbacks add to buckets of their own.
MCBucketOf == [c \in Callers |-> IF c = c1 THEN 1 ELSE 2]
=============================================================================
