------------------------------- MODULE LmOnce -------------------------------
(***************************************************************************)
(* lm_once_t of lm_sync.c: the word is 0 before, 1 during and 2 after the  *)
(* one call of the initialiser.                                            *)
(***************************************************************************)
EXTENDS Futex

Locs == {"out",
         "claim",   \* did not read 2, about to CAS 0 -> 1
         "run",     \* won: runs the initialiser
         "wake",    \* has stored 2, about to wake all
         "ran",     \* returned, after running the initialiser
         "load", "wait", "asleep",
         "passed"}  \* returned, after somebody else ran it

Init == /\ word = 0
        /\ sleepers = {}
        /\ pc = [a \in Agents |-> "out"]
        /\ seen = [a \in Agents |-> 0]

-----------------------------------------------------------------------------
\* lm_once_call reads the word.
Call(a) == \/ word = 2 /\ Write(a, "out", word, "passed")
           \/ word # 2 /\ Write(a, "out", word, "claim")

\* Slip: the claim is a store.
ClaimBlindly(a) == Write(a, "claim", 1, "run")

Claim(a) == Cas(a, "claim", 0, 1, "run", "load")

\* The initialiser returns and 2 is stored.
Finish(a) == Write(a, "run", 2, "wake")

FinishWake(a) == FutexWakeAll(a, "wake", "ran")

\* Slip: a loser returns while the initialiser runs.
ReadEarly(a) == \/ word >= 1 /\ Write(a, "load", word, "passed")
                \/ word = 0 /\ Load(a, "load", "wait")

Read(a) == \/ word = 2 /\ Write(a, "load", word, "passed")
           \/ word # 2 /\ Load(a, "load", "wait")

Wait(a) == FutexWait(a, "wait", seen[a], "asleep", "load")

Resume(a) == FutexResume(a, "asleep", "load")

Step(a) == Claim(a) \/ Finish(a) \/ FinishWake(a) \/ Read(a) \/ Wait(a) \/ Resume(a)

Next == \E a \in Agents : Call(a) \/ Step(a)

\* As for the mutex; the initialiser returns.
Fairness == \A a \in Agents : WF_vars(Step(a))

-----------------------------------------------------------------------------
TypeOK == /\ word \in 0..2
          /\ sleepers \in SUBSET Agents
          /\ pc \in [Agents -> Locs]
          /\ seen \in [Agents -> 0..2]

\* The initialiser is called once, and nobody returns before it has returned.
OnceOnly == /\ Cardinality(At({"run", "wake", "ran"})) <= 1
            /\ At({"passed", "wake", "ran"}) # {} => word = 2

\* A sleeper has the initialiser to wait for, or a wake on its way.
NoStrandedSleeper == sleepers # {} => At({"run", "wake"}) # {}
=============================================================================
