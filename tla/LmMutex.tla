------------------------------ MODULE LmMutex ------------------------------
(***************************************************************************)
(* lm_mutex_t of lm_sync.c.  Its word is 0 when free, 1 when held, 2 when  *)
(* held and somebody may sleep.                                            *)
(***************************************************************************)
EXTENDS Futex

Locs == {"out",     \* outside
         "load",    \* top of the slow loop
         "take",    \* read 0, about to CAS 0 -> 2
         "mark",    \* read 1, about to CAS 1 -> 2
         "wait",    \* about to call lm_butex_wait(&word, 2)
         "asleep",  \* blocked in lm_butex_wait
         "cs",      \* holds the mutex
         "wake"}    \* unlock read 2, about to call lm_butex_wake

Init == /\ word = 0
        /\ sleepers = {}
        /\ pc = [a \in Agents |-> "out"]
        /\ seen = [a \in Agents |-> 0]

-----------------------------------------------------------------------------
\* Fast path of lm_mutex_lock.
LockFast(a) == Cas(a, "out", 0, 1, "cs", "load")

\* lm_mutex_trylock.
TryLock(a) == Cas(a, "out", 0, 1, "cs", "out")

\* The slow loop reads the word; what it read shows in where it goes.
SlowLoad(a) ==
    /\ \/ word = 0 /\ Goto(a, "load", "take")
       \/ word = 1 /\ Goto(a, "load", "mark")
       \/ word = 2 /\ Goto(a, "load", "wait")
    /\ UNCHANGED <<word, sleepers, seen>>

\* The word is not 0 and spin_wait has spins left: read again.
Spin(a) ==
    /\ \E from \in {"mark", "wait"} : Goto(a, from, "load")
    /\ UNCHANGED <<word, sleepers, seen>>

\* Slip: the slow path takes the mutex with 1 and drops the mark.
SlowTakeUnmarked(a) == Cas(a, "take", 0, 1, "cs", "load")

\* Slip: the slow path stores 2 without comparing.
SlowTakeBlindly(a) == Write(a, "take", 2, "cs")

SlowTake(a) == Cas(a, "take", 0, 2, "cs", "load")

SlowMark(a) == Cas(a, "mark", 1, 2, "wait", "load")

Wait(a) == FutexWait(a, "wait", 2, "asleep", "load")

Resume(a) == FutexResume(a, "asleep", "load")

\* Slip: unlock never wakes.
UnlockSilently(a) == Write(a, "cs", 0, "out")

\* The exchange of lm_mutex_unlock.
Unlock(a) ==
    \/ word = 2 /\ Write(a, "cs", 0, "wake")
    \/ word # 2 /\ Write(a, "cs", 0, "out")

\* The wake of lm_mutex_unlock.
UnlockWake(a) == FutexWakeOne(a, "wake", "out")

\* What an agent that has called lock does of its own accord.
Step(a) == SlowLoad(a) \/ SlowTake(a) \/ SlowMark(a) \/ Wait(a) \/ Resume(a)
           \/ Unlock(a) \/ UnlockWake(a)

Next == \E a \in Agents : LockFast(a) \/ TryLock(a) \/ Spin(a) \/ Step(a)

Spec == Init /\ [][Next]_vars

\* The scheduler runs a ready coroutine and the kernel a runnable thread, so an
\* agent keeps taking its next step.  spin_wait gives up after g_spin reads, so
\* an agent that stands again and again at an operation Spin can leave performs
\* it in the end.  Nothing makes an agent call lock.
Fairness == \A a \in Agents :
    WF_vars(Step(a)) /\ SF_vars(SlowMark(a)) /\ SF_vars(Wait(a))

-----------------------------------------------------------------------------
TypeOK == /\ word \in 0..2
          /\ sleepers \in SUBSET Agents
          /\ pc \in [Agents -> Locs]
          /\ seen \in [Agents -> {0}]

holders == At({"cs"})

\* Agents awake in the slow loop: each of them either takes the mutex with 2 or
\* leaves 2 in the word before it sleeps.
Contenders == At({"load", "take", "mark", "wait"}) \union Woken

\* At most one agent is between lock and unlock (lm_mutex_lock, lm_mutex_trylock).
MutualExclusion == \A a, b \in holders : a = b

\* An agent sleeps only while somebody is bound to notice it: the holder, whose
\* unlock reads 2, the wake already under way, or an agent that will write 2
\* (the chain lm_mutex_lock keeps by taking the mutex with 2 in its slow path).
NoStrandedSleeper ==
    sleepers # {} => \/ word = 2 /\ holders # {}
                     \/ Contenders # {}
                     \/ At({"wake"}) # {}

Waiting(a) == pc[a] \in {"load", "take", "mark", "wait", "asleep"}
=============================================================================
