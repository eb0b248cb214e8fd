------------------------------ MODULE LmRwlock ------------------------------
(***************************************************************************)
(* lm_rwlock_t of lm_sync.c.  The top bit of the word says that a writer   *)
(* holds the lock, the bits under it count the readers that do.            *)
(***************************************************************************)
EXTENDS Futex

CONSTANT Writer   \* LM_RW_WRITER, the value of the top bit

Locs == {"out",
         "rload", "rtake", "rwait", "rasleep",   \* lm_rwlock_rdlock
         "load", "take", "wait", "asleep",       \* lm_rwlock_wrlock
         "reading", "writing",
         "wake"}                                 \* about to wake all

Readers == word % Writer
WriterBit == word >= Writer

Init == /\ word = 0
        /\ sleepers = {}
        /\ pc = [a \in Agents |-> "out"]
        /\ seen = [a \in Agents |-> 0]

-----------------------------------------------------------------------------
Call(a) ==
    /\ \E to \in {"rload", "load"} : Goto(a, "out", to)
    /\ UNCHANGED <<word, sleepers, seen>>

\* lm_rwlock_rdlock waits for a writer and counts itself in otherwise.
ReadLoad(a) == \/ WriterBit /\ Load(a, "rload", "rwait")
               \/ ~WriterBit /\ Load(a, "rload", "rtake")

\* Slip: the reader counts itself in with a fetch_add.
ReadTakeBlindly(a) == Write(a, "rtake", word + 1, "reading")

ReadTake(a) == Cas(a, "rtake", seen[a], seen[a] + 1, "reading", "rload")

ReadWait(a) == FutexWait(a, "rwait", seen[a], "rasleep", "rload")

ReadResume(a) == FutexResume(a, "rasleep", "rload")

\* Slip: a reader that is not the last one wakes instead of the last.
ReadUnlockFirst(a) ==
    \/ Readers = 1 /\ Write(a, "reading", word - 1, "out")
    \/ Readers # 1 /\ Write(a, "reading", word - 1, "wake")

\* The fetch_sub of lm_rwlock_rdunlock: the last reader wakes all.
ReadUnlock(a) ==
    \/ Readers = 1 /\ Write(a, "reading", word - 1, "wake")
    \/ Readers # 1 /\ Write(a, "reading", word - 1, "out")

\* lm_rwlock_wrlock waits for whoever holds the lock.
WriteLoad(a) == \/ word # 0 /\ Load(a, "load", "wait")
                \/ word = 0 /\ Load(a, "load", "take")

WriteTake(a) == Cas(a, "take", 0, Writer, "writing", "load")

WriteWait(a) == FutexWait(a, "wait", seen[a], "asleep", "load")

WriteResume(a) == FutexResume(a, "asleep", "load")

\* The store of lm_rwlock_wrunlock.
WriteUnlock(a) == Write(a, "writing", 0, "wake")

\* Slip: only one of the waiters is woken.
UnlockWakeOne(a) == FutexWakeOne(a, "wake", "out")

\* The wake of either unlock.
UnlockWake(a) == FutexWakeAll(a, "wake", "out")

Step(a) == \/ ReadLoad(a) \/ ReadTake(a) \/ ReadWait(a) \/ ReadResume(a) \/ ReadUnlock(a)
           \/ WriteLoad(a) \/ WriteTake(a) \/ WriteWait(a) \/ WriteResume(a) \/ WriteUnlock(a)
           \/ UnlockWake(a)

Next == \E a \in Agents : Call(a) \/ Step(a)

\* As for the mutex.
Fairness == \A a \in Agents : WF_vars(Step(a))

-----------------------------------------------------------------------------
TypeOK == /\ word \in 0..(2 * Writer - 1)
          /\ sleepers \in SUBSET Agents
          /\ pc \in [Agents -> Locs]
          /\ seen \in [Agents -> 0..(2 * Writer - 1)]

\* A writer is alone, and the word counts the readers and the writer exactly.
Exclusion == /\ At({"writing"}) # {} => Cardinality(At({"reading", "writing"})) = 1
             /\ Readers = Cardinality(At({"reading"}))
             /\ WriterBit = (At({"writing"}) # {})

\* A sleeper has somebody who will wake it: a holder whose unlock is the last
\* one, or an unlock on its way to wake all.  A sleeping reader waits for a writer.
NoStrandedSleeper ==
    At({"wake"}) = {} => /\ sleepers # {} => word # 0
                         /\ sleepers \intersect At({"rasleep"}) # {} => WriterBit

Waiting(a) == pc[a] \in {"rload", "rtake", "rwait", "rasleep", "load", "take", "wait", "asleep"}
=============================================================================
