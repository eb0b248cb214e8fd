------------------------------- MODULE LmSem -------------------------------
(***************************************************************************)
(* lm_sem_t of lm_sync.c.  The word is the count of permits left.          *)
(***************************************************************************)
EXTENDS Futex

CONSTANTS Initial,     \* permits of lm_sem_init
          MaxPermits   \* bound: permits that posts bring into being

Locs == {"out",
         "load",     \* top of the loop of lm_sem_wait
         "take",     \* read v > 0, about to CAS v -> v - 1
         "wait",     \* read 0, about to call lm_butex_wait(&count, 0)
         "asleep",
         "tryload",  \* top of the loop of lm_sem_trywait
         "trytake",  \* read v > 0, about to CAS v -> v - 1
         "held",     \* has a permit
         "wake"}     \* post has added 1, about to wake one

Init == /\ word = Initial
        /\ sleepers = {}
        /\ pc = [a \in Agents |-> "out"]
        /\ seen = [a \in Agents |-> 0]

holders == At({"held"})

Permits == word + Cardinality(holders)
-----------------------------------------------------------------------------
Call(a) ==
    /\ \E to \in {"load", "tryload"} : Goto(a, "out", to)
    /\ UNCHANGED <<word, sleepers, seen>>

\* lm_sem_wait reads the count.
Read(a) == \/ word > 0 /\ Load(a, "load", "take")
           \/ word = 0 /\ Load(a, "load", "wait")

\* Slip: the count is decremented without comparing.
TakeBlindly(a) == word > 0 /\ Write(a, "take", seen[a] - 1, "held")

Take(a) == Cas(a, "take", seen[a], seen[a] - 1, "held", "load")

Wait(a) == FutexWait(a, "wait", 0, "asleep", "load")

Resume(a) == FutexResume(a, "asleep", "load")

\* lm_sem_trywait: 0 sends it away, a failed CAS makes it read again.
TryRead(a) == \/ word > 0 /\ Load(a, "tryload", "trytake")
              \/ word = 0 /\ Write(a, "tryload", word, "out")

TryTake(a) == Cas(a, "trytake", seen[a], seen[a] - 1, "held", "tryload")

\* The fetch_add of lm_sem_post, by an agent that returns a permit.
Post(a) == Write(a, "held", word + 1, "wake")

\* The same by an agent that makes a new one.
Produce(a) ==
    /\ Permits < MaxPermits
    /\ Write(a, "out", word + 1, "wake")

\* Slip: the wake is skipped.
PostSilently(a) == Goto(a, "wake", "out") /\ UNCHANGED <<word, sleepers, seen>>

\* The wake of lm_sem_post.
PostWake(a) == FutexWakeOne(a, "wake", "out")

Step(a) == Read(a) \/ Take(a) \/ Wait(a) \/ Resume(a) \/ TryRead(a) \/ TryTake(a)
           \/ Post(a) \/ PostWake(a)

Next == \E a \in Agents : Call(a) \/ Produce(a) \/ Step(a)

\* As for the mutex; a holder gives its permit back.
Fairness == \A a \in Agents : WF_vars(Step(a))

-----------------------------------------------------------------------------
TypeOK == /\ word \in 0..MaxPermits
          /\ sleepers \in SUBSET Agents
          /\ pc \in [Agents -> Locs]
          /\ seen \in [Agents -> 0..MaxPermits]

\* No interleaving of waits and posts makes a permit out of nothing.
NoExtraPermit == Permits <= MaxPermits

\* While an agent sleeps, every permit in the count has an agent coming for it:
\* the post that added it and has not woken yet, or one awake in the loop.
NoStrandedSleeper ==
    sleepers # {} =>
        word <= Cardinality(At({"wake", "load", "take", "wait"})
                            \union Woken)

Waiting(a) == pc[a] \in {"load", "take", "wait", "asleep"}
=============================================================================
