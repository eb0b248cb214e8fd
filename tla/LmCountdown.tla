---------------------------- MODULE LmCountdown ----------------------------
(***************************************************************************)
(* lm_countdown_t of lm_sync.c, the join of fork and join: every worker    *)
(* calls lm_countdown_done once, the others wait for the count to be 0.    *)
(***************************************************************************)
EXTENDS Futex

CONSTANT Workers   \* the n of lm_countdown_init, as the agents that count down

Locs == {"out", "load", "wait", "asleep", "passed", "wake", "counted"}

Init == /\ word = Cardinality(Workers)
        /\ sleepers = {}
        /\ pc = [a \in Agents |-> "out"]
        /\ seen = [a \in Agents |-> 0]

-----------------------------------------------------------------------------
\* Slip: two workers read the same count.
DoneLate(a) ==
    /\ a \in Workers
    /\ \/ word = 2 /\ Write(a, "out", word - 1, "wake")
       \/ word # 2 /\ Write(a, "out", word - 1, "counted")

\* lm_countdown_done: whoever takes the count to 0 wakes all.
Done(a) ==
    /\ a \in Workers
    /\ \/ word = 1 /\ Write(a, "out", word - 1, "wake")
       \/ word # 1 /\ Write(a, "out", word - 1, "counted")

DoneWake(a) == FutexWakeAll(a, "wake", "counted")

\* lm_countdown_wait reads the count until it is 0.
Call(a) ==
    /\ a \notin Workers
    /\ Goto(a, "out", "load")
    /\ UNCHANGED <<word, sleepers, seen>>

\* Slip: a waiter that has slept does not read the count again.
PassAfterSleep(a) == FutexResume(a, "asleep", "passed")

Read(a) == \/ word = 0 /\ Load(a, "load", "passed")
           \/ word # 0 /\ Load(a, "load", "wait")

Wait(a) == FutexWait(a, "wait", seen[a], "asleep", "load")

Resume(a) == FutexResume(a, "asleep", "load")

Step(a) == DoneWake(a) \/ Read(a) \/ Wait(a) \/ Resume(a)

Next == \E a \in Agents : Done(a) \/ Call(a) \/ Step(a)

\* Every worker gets to its done, as every agent keeps running.
Fairness == \A a \in Agents : WF_vars(Step(a)) /\ WF_vars(Done(a))

-----------------------------------------------------------------------------
TypeOK == /\ word \in 0..Cardinality(Workers)
          /\ sleepers \in SUBSET Agents
          /\ pc \in [Agents -> Locs]
          /\ seen \in [Agents -> 0..Cardinality(Workers)]

\* A waiter passes only when every worker has counted down.
NoEarlyPass == At({"passed"}) # {} => Workers \subseteq At({"wake", "counted"})

\* A sleeper has a worker left to count down, or a wake on its way.
NoStrandedSleeper == sleepers # {} => word # 0 \/ At({"wake"}) # {}
=============================================================================
