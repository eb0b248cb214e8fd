----------------------------- MODULE MutexSpec -----------------------------
(***************************************************************************)
(* What a mutex promises: at most one holder, that acquires when nobody    *)
(* holds and releases when it likes.                                       *)
(***************************************************************************)
CONSTANT Agents

VARIABLE holders

Init == holders = {}

Acquire(a) == holders = {} /\ holders' = {a}

Release(a) == holders = {a} /\ holders' = {}

Next == \E a \in Agents : Acquire(a) \/ Release(a)

Spec == Init /\ [][Next]_holders
=============================================================================
