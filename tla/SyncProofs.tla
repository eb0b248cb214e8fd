----------------------------- MODULE SyncProofs -----------------------------
(***************************************************************************)
(* The safety of the primitives of lm_sync.c, for every set of agents.     *)
(* Each primitive has its inductive invariant and the two facts about it,  *)
(* the initial state and the step; the theorems at the end put them        *)
(* together for the family.                                                *)
(***************************************************************************)
EXTENDS SyncFamily, FiniteSetTheorems, TLAPS

\* Only agents inside lm_butex_wait have an entry in the table.
SleepersAsleep == sleepers \subseteq At(Sleeping)

-----------------------------------------------------------------------------
(* The mutex: its word is 0 exactly while nobody holds it.                 *)
MutexInv == /\ Mutex!TypeOK
            /\ SleepersAsleep
            /\ word = 0 <=> Mutex!holders = {}
            /\ Mutex!MutualExclusion
            /\ Mutex!NoStrandedSleeper

\* The initial state of lm_mutex_init satisfies the mutex's invariant.
LEMMA MutexInit == Mutex!Init => MutexInv
  BY DEF Mutex!Init, MutexInv, Mutex!TypeOK, Mutex!Locs, SleepersAsleep, At, Sleeping,
         Mutex!holders, Mutex!MutualExclusion, Mutex!NoStrandedSleeper, Mutex!At

\* Every operation of lm_mutex_lock, trylock and unlock preserves it.
LEMMA MutexStep == MutexInv /\ Mutex!Next => MutexInv'
<1> SUFFICES ASSUME MutexInv, NEW a \in Agents,
                    \/ Mutex!LockFast(a) \/ Mutex!TryLock(a) \/ Mutex!Spin(a) \/ Mutex!Step(a)
             PROVE  MutexInv'
  BY DEF Mutex!Next
<1> USE DEF MutexInv, Mutex!TypeOK, Mutex!Locs, SleepersAsleep, At, Sleeping, Mutex!Sleeping,
            Mutex!holders, Mutex!MutualExclusion, Mutex!NoStrandedSleeper, Mutex!At,
            Mutex!Contenders, Mutex!Woken, Mutex!Goto, Mutex!Forget, Mutex!Write, Mutex!Cas
<1>1. CASE Mutex!LockFast(a)
  BY <1>1 DEF Mutex!LockFast
<1>2. CASE Mutex!TryLock(a)
  BY <1>2 DEF Mutex!TryLock
<1>3. CASE Mutex!Spin(a)
  BY <1>3 DEF Mutex!Spin
<1>4. CASE Mutex!SlowLoad(a)
  BY <1>4 DEF Mutex!SlowLoad
<1>5. CASE Mutex!SlowTake(a)
  BY <1>5 DEF Mutex!SlowTake
<1>6. CASE Mutex!SlowMark(a)
  BY <1>6 DEF Mutex!SlowMark
<1>7. CASE Mutex!Wait(a)
  BY <1>7 DEF Mutex!Wait, Mutex!FutexWait
<1>8. CASE Mutex!Resume(a)
  BY <1>8 DEF Mutex!Resume, Mutex!FutexResume
<1>9. CASE Mutex!Unlock(a)
  BY <1>9 DEF Mutex!Unlock
<1>10. CASE Mutex!UnlockWake(a)
  BY <1>10 DEF Mutex!UnlockWake, Mutex!FutexWakeOne
<1>. QED
  BY <1>1, <1>2, <1>3, <1>4, <1>5, <1>6, <1>7, <1>8, <1>9, <1>10 DEF Mutex!Step

-----------------------------------------------------------------------------
(* The size of At(locs) when one agent moves.                              *)

\* At is a part of the agents, so it is finite and no larger than they are.
LEMMA AtFinite ==
  ASSUME NEW L
  PROVE  /\ IsFiniteSet(At(L)) /\ Cardinality(At(L)) \in Nat
         /\ Cardinality(At(L)) <= Cardinality(Agents)
BY FS_Subset, FS_CardinalityType, SyncAssumption DEF At

\* A set that gains, loses or keeps one element changes its size by as much.
LEMMA CardMoves ==
  ASSUME NEW S, NEW T, NEW x, IsFiniteSet(S)
  PROVE  /\ Cardinality(S) \in Nat
         /\ T = S \union {x} /\ x \notin S => Cardinality(T) = Cardinality(S) + 1
         /\ T = S \ {x} /\ x \in S => Cardinality(T) = Cardinality(S) - 1 /\ Cardinality(S) > 0
         /\ S = {} <=> Cardinality(S) = 0
BY FS_AddElement, FS_RemoveElement, FS_CardinalityType, FS_EmptySet

-----------------------------------------------------------------------------
(* The semaphore.                                                          *)

\* LmSem counts with the same Cardinality.
LEMMA SemCardinality == ASSUME NEW S PROVE Sem!Cardinality(S) = Cardinality(S)
BY DEF Sem!Cardinality, Cardinality

\* Agents that come for a permit which is in the count.
SemServers == At({"wake", "load", "take", "wait"}) \union Woken

SemInv == /\ Sem!TypeOK
          /\ SleepersAsleep
          /\ \A a \in Agents : pc[a] \in {"take", "trytake"} => seen[a] > 0
          /\ Sem!NoExtraPermit
          /\ Sem!NoStrandedSleeper

\* lm_sem_init hands out no more permits than it was given.
LEMMA SemInit == Sem!Init => SemInv
<1> SUFFICES ASSUME Sem!Init PROVE SemInv
  OBVIOUS
<1>1. At({"held"}) = {} /\ Sem!holders = {}
  BY DEF Sem!Init, At, Sem!holders, Sem!At
<1>. QED
  BY <1>1, FS_EmptySet, SyncAssumption, SemCardinality
  DEF Sem!Init, SemInv, Sem!TypeOK, Sem!Locs, SleepersAsleep, At, Sleeping, Sem!Permits,
      Sem!NoExtraPermit, Sem!NoStrandedSleeper

\* Every operation of lm_sem_wait, trywait and post preserves the invariant: the
\* permits in the count and the agents that come for them change together.
LEMMA SemStep == SemInv /\ Sem!Next => SemInv'
<1> SUFFICES ASSUME SemInv, NEW a \in Agents,
                    Sem!Call(a) \/ Sem!Produce(a) \/ Sem!Step(a)
             PROVE  SemInv'
  BY DEF Sem!Next
<1> DEFINE H == At({"held"})
           S == SemServers
<1>0. /\ IsFiniteSet(H) /\ Cardinality(H) \in Nat
      /\ IsFiniteSet(S) /\ Cardinality(S) \in Nat
  BY AtFinite, SyncAssumption, FS_Subset, FS_CardinalityType DEF SemServers, At, Woken
<1>1. /\ Sem!NoExtraPermit <=> word + Cardinality(H) <= MaxPermits
      /\ Sem!NoStrandedSleeper <=> (sleepers # {} => word <= Cardinality(S))
      /\ Sem!NoExtraPermit' <=> word' + Cardinality(H') <= MaxPermits
      /\ Sem!NoStrandedSleeper' <=> (sleepers' # {} => word' <= Cardinality(S'))
  BY SemCardinality DEF Sem!NoExtraPermit, Sem!NoStrandedSleeper, Sem!Permits, Sem!holders, Sem!At, At,
         SemServers, Woken, Sem!Woken, Sleeping, Sem!Sleeping
<1>2. /\ Cardinality(H') \in Nat /\ Cardinality(S') \in Nat
      /\ H' = H \union {a} /\ a \notin H => Cardinality(H') = Cardinality(H) + 1
      /\ H' = H \ {a} /\ a \in H => Cardinality(H') = Cardinality(H) - 1
      /\ S' = S \union {a} /\ a \notin S => Cardinality(S') = Cardinality(S) + 1
      /\ S' = S \ {a} /\ a \in S => Cardinality(S') = Cardinality(S) - 1
      /\ H' = H => Cardinality(H') = Cardinality(H)
      /\ S' = S => Cardinality(S') = Cardinality(S)
  <2>1. IsFiniteSet(H') /\ IsFiniteSet(S')
    BY SyncAssumption, FS_Subset DEF SemServers, At, Woken
  <2>. QED
    BY <1>0, <2>1, FS_AddElement, FS_RemoveElement, FS_CardinalityType
<1>3. /\ H = At({"held"}) /\ H' = At({"held"})'
      /\ S = SemServers /\ S' = SemServers'
  OBVIOUS
<1> HIDE DEF H, S
<1>4. ASSUME NEW s, s \in S', s \notin S, a \in S, S' = (S \ {a}) \union {s}
      PROVE  Cardinality(S') = Cardinality(S)
  <2>1. IsFiniteSet(S \ {a}) /\ Cardinality(S \ {a}) = Cardinality(S) - 1
    BY <1>0, <1>4, FS_RemoveElement
  <2>2. s \notin S \ {a} /\ S' = (S \ {a}) \union {s}
    BY <1>4
  <2>3. Cardinality(S') = Cardinality(S \ {a}) + 1
    BY <2>1, <2>2, FS_AddElement
  <2>. QED
    BY <1>0, <2>1, <2>3
<1> USE DEF SemInv, Sem!TypeOK, Sem!Locs, SleepersAsleep, At, Sleeping, SemServers, Woken,
            Sem!Goto, Sem!Forget, Sem!Write, Sem!Cas, Sem!Load
<1>5. CASE Sem!Call(a)
  <2>1. H' = H /\ (S' = S \/ (S' = S \union {a} /\ a \notin S))
    BY <1>3, <1>5 DEF Sem!Call
  <2>. QED
    BY SyncAssumption, <1>0, <1>1, <1>2, <2>1, <1>5 DEF Sem!Call
<1>6. CASE Sem!Produce(a)
  <2>1. H' = H /\ S' = S \union {a} /\ a \notin S
    BY <1>3, <1>6 DEF Sem!Produce
  <2>2. word + Cardinality(H) < MaxPermits
    BY <1>3, <1>6, SemCardinality DEF Sem!Produce, Sem!Permits, Sem!holders, Sem!At
  <2>. QED
    BY SyncAssumption, <1>0, <1>1, <1>2, <2>1, <2>2, <1>6 DEF Sem!Produce
<1>7. CASE Sem!Read(a)
  <2>1. H' = H /\ S' = S
    BY <1>3, <1>7 DEF Sem!Read
  <2>. QED
    BY SyncAssumption, <1>0, <1>1, <1>2, <2>1, <1>7 DEF Sem!Read
<1>8. CASE Sem!Take(a)
  <2>1. CASE word = seen[a]
    <3>1. H' = H \union {a} /\ a \notin H /\ S' = S \ {a} /\ a \in S
      BY <1>3, <1>8, <2>1 DEF Sem!Take
    <3>. QED
      BY SyncAssumption, <1>0, <1>1, <1>2, <3>1, <2>1, <1>8 DEF Sem!Take
  <2>2. CASE word # seen[a]
    <3>1. H' = H /\ S' = S
      BY <1>3, <1>8, <2>2 DEF Sem!Take
    <3>. QED
      BY SyncAssumption, <1>0, <1>1, <1>2, <3>1, <2>2, <1>8 DEF Sem!Take
  <2>. QED
    BY <2>1, <2>2
<1>9. CASE Sem!Wait(a)
  <2>1. CASE word = 0
    <3>1. H' = H /\ word' = 0
      BY <1>3, <1>9, <2>1 DEF Sem!Wait, Sem!FutexWait
    <3>. QED
      BY SyncAssumption, <1>0, <1>1, <1>2, <3>1, <2>1, <1>9 DEF Sem!Wait, Sem!FutexWait
  <2>2. CASE word # 0
    <3>1. H' = H /\ S' = S
      BY <1>3, <1>9, <2>2 DEF Sem!Wait, Sem!FutexWait
    <3>. QED
      BY SyncAssumption, <1>0, <1>1, <1>2, <3>1, <2>2, <1>9 DEF Sem!Wait, Sem!FutexWait
  <2>. QED
    BY <2>1, <2>2
<1>10. CASE Sem!Resume(a)
  <2>1. H' = H /\ S' = S
    BY <1>3, <1>10 DEF Sem!Resume, Sem!FutexResume
  <2>. QED
    BY SyncAssumption, <1>0, <1>1, <1>2, <2>1, <1>10 DEF Sem!Resume, Sem!FutexResume
<1>11. CASE Sem!TryRead(a)
  <2>1. H' = H /\ S' = S
    BY <1>3, <1>11 DEF Sem!TryRead
  <2>. QED
    BY SyncAssumption, <1>0, <1>1, <1>2, <2>1, <1>11 DEF Sem!TryRead
<1>12. CASE Sem!TryTake(a)
  <2>1. CASE word = seen[a]
    <3>1. H' = H \union {a} /\ a \notin H /\ S' = S
      BY <1>3, <1>12, <2>1 DEF Sem!TryTake
    <3>. QED
      BY SyncAssumption, <1>0, <1>1, <1>2, <3>1, <2>1, <1>12 DEF Sem!TryTake
  <2>2. CASE word # seen[a]
    <3>1. H' = H /\ S' = S
      BY <1>3, <1>12, <2>2 DEF Sem!TryTake
    <3>. QED
      BY SyncAssumption, <1>0, <1>1, <1>2, <3>1, <2>2, <1>12 DEF Sem!TryTake
  <2>. QED
    BY <2>1, <2>2
<1>13. CASE Sem!Post(a)
  <2>1. H' = H \ {a} /\ a \in H /\ S' = S \union {a} /\ a \notin S
    BY <1>3, <1>13 DEF Sem!Post
  <2>. QED
    BY SyncAssumption, <1>0, <1>1, <1>2, <2>1, <1>13 DEF Sem!Post
<1>14. CASE Sem!PostWake(a)
  <2>1. H' = H
    BY <1>3, <1>14 DEF Sem!PostWake, Sem!FutexWakeOne
  <2>2. CASE sleepers = {}
    BY SyncAssumption, <1>0, <1>1, <1>2, <2>1, <2>2, <1>14 DEF Sem!PostWake, Sem!FutexWakeOne
  <2>3. ASSUME NEW s \in sleepers, sleepers' = sleepers \ {s}
        PROVE  SemInv'
    <3>1. s \in S' /\ s \notin S /\ a \in S /\ S' = (S \ {a}) \union {s}
      BY <1>3, <1>14, <2>3 DEF Sem!PostWake, Sem!FutexWakeOne
    <3>2. Cardinality(S') = Cardinality(S)
      BY <3>1, <1>4
    <3>. QED
      BY SyncAssumption, <1>0, <1>1, <1>2, <2>1, <2>3, <3>2, <1>14 DEF Sem!PostWake, Sem!FutexWakeOne
  <2>. QED
    BY <2>2, <2>3, <1>14 DEF Sem!PostWake, Sem!FutexWakeOne
<1>. QED
  BY <1>5, <1>6, <1>7, <1>8, <1>9, <1>10, <1>11, <1>12, <1>13, <1>14 DEF Sem!Step

-----------------------------------------------------------------------------
(* The reader-writer lock: who is inside decides the word.                 *)

\* LmRwlock counts with the same Cardinality.
LEMMA RwlockCardinality == ASSUME NEW S PROVE Rwlock!Cardinality(S) = Cardinality(S)
BY DEF Rwlock!Cardinality, Cardinality

RwlockInv == /\ Rwlock!TypeOK
             /\ SleepersAsleep
             /\ \A a \in Agents : /\ pc[a] = "rtake" => seen[a] < Writer
                                  /\ pc[a] = "rwait" => seen[a] >= Writer
                                  /\ pc[a] = "wait" => seen[a] # 0
             /\ At({"writing"}) = {} => word = Cardinality(At({"reading"}))
             /\ At({"writing"}) # {} => word = Writer /\ At({"reading"}) = {}
             /\ \A a, b \in At({"writing"}) : a = b
             /\ Rwlock!NoStrandedSleeper

\* lm_rwlock_init leaves the lock free.
LEMMA RwlockInit == Rwlock!Init => RwlockInv
<1> SUFFICES ASSUME Rwlock!Init PROVE RwlockInv
  OBVIOUS
<1>1. At({"reading"}) = {} /\ At({"writing"}) = {}
  BY DEF Rwlock!Init, At
<1>. QED
  BY <1>1, FS_EmptySet, FS_CardinalityType, SyncAssumption
  DEF Rwlock!Init, RwlockInv, Rwlock!TypeOK, Rwlock!Locs, SleepersAsleep,
      Rwlock!NoStrandedSleeper

\* What the word says of the readers and the writer.
LEMMA WordReads ==
  ASSUME RwlockInv
  PROVE  /\ Cardinality(At({"reading"})) \in Nat
         /\ At({"writing"}) = {} => ~Rwlock!WriterBit /\ Rwlock!Readers = word /\ word < Writer
         /\ At({"writing"}) # {} => Rwlock!WriterBit /\ Rwlock!Readers = 0
<1>1. Cardinality(At({"reading"})) \in Nat /\ Cardinality(At({"reading"})) < Writer
  BY AtFinite, SyncAssumption, FS_CardinalityType
<1>2. Writer \in Nat /\ Writer > 0 /\ (\A n \in Nat : n < Writer => n % Writer = n)
      /\ Writer % Writer = 0
  BY <1>1, SyncAssumption
<1>. QED
  BY <1>1, <1>2 DEF RwlockInv, Rwlock!WriterBit, Rwlock!Readers

\* The invariant says what the run checks: a writer alone, the readers counted.
LEMMA RwlockExclusion == RwlockInv => Rwlock!Exclusion
<1> SUFFICES ASSUME RwlockInv PROVE Rwlock!Exclusion
  OBVIOUS
<1>1. At({"writing"}) # {} => Cardinality(At({"reading", "writing"})) = 1
  <2> SUFFICES ASSUME NEW a \in At({"writing"})
               PROVE  Cardinality(At({"reading", "writing"})) = 1
    OBVIOUS
  <2>1. At({"reading", "writing"}) = {a}
    BY DEF RwlockInv, At
  <2>. QED
    BY <2>1, FS_Singleton
<1>2. /\ Rwlock!At({"writing"}) = At({"writing"}) /\ Rwlock!At({"reading"}) = At({"reading"})
      /\ Rwlock!At({"reading", "writing"}) = At({"reading", "writing"})
  BY DEF Rwlock!At, At
<1>3. /\ Rwlock!Readers = Cardinality(At({"reading"}))
      /\ Rwlock!WriterBit <=> At({"writing"}) # {}
  <2>1. At({"reading"}) = {} => Cardinality(At({"reading"})) = 0
    BY FS_EmptySet
  <2>2. At({"writing"}) = {} => word = Cardinality(At({"reading"}))
    BY DEF RwlockInv
  <2>3. At({"writing"}) # {} => At({"reading"}) = {}
    BY DEF RwlockInv
  <2>. QED
    BY <2>1, <2>2, <2>3, WordReads
<1>. QED
  BY <1>1, <1>2, <1>3, RwlockCardinality DEF Rwlock!Exclusion

\* Every operation of the four functions of lm_rwlock_t preserves the invariant.
LEMMA RwlockStep == RwlockInv /\ Rwlock!Next => RwlockInv'
<1> SUFFICES ASSUME RwlockInv, NEW a \in Agents, Rwlock!Call(a) \/ Rwlock!Step(a)
             PROVE  RwlockInv'
  BY DEF Rwlock!Next
<1> DEFINE R == At({"reading"})
           W == At({"writing"})
<1>0. /\ IsFiniteSet(R) /\ IsFiniteSet(R') /\ Cardinality(R) \in Nat /\ Cardinality(R') \in Nat
      /\ Cardinality(Agents) \in Nat
  BY SyncAssumption, FS_Subset, FS_CardinalityType DEF At
<1>1. /\ R' = R \union {a} /\ a \notin R => Cardinality(R') = Cardinality(R) + 1
      /\ R' = R \ {a} /\ a \in R => Cardinality(R') = Cardinality(R) - 1 /\ Cardinality(R) > 0
      /\ R' = R => Cardinality(R') = Cardinality(R)
      /\ R = {} <=> Cardinality(R) = 0
  BY <1>0, CardMoves
<1>2. R' \subseteq Agents => Cardinality(R') < Writer
  BY SyncAssumption, <1>0, FS_Subset
<1>3. R' \subseteq Agents
  BY DEF At
<1>4. R = At({"reading"}) /\ R' = At({"reading"})' /\ W = At({"writing"}) /\ W' = At({"writing"})'
  OBVIOUS
<1>5. /\ W = {} => ~Rwlock!WriterBit /\ Rwlock!Readers = word /\ word < Writer
      /\ W # {} => Rwlock!WriterBit /\ Rwlock!Readers = 0
  BY WordReads
<1> HIDE DEF R, W
<1> USE SyncAssumption, <1>0, <1>1, <1>2, <1>3, <1>4, <1>5
<1> USE DEF RwlockInv, Rwlock!TypeOK, Rwlock!Locs, SleepersAsleep, At, Rwlock!At, Sleeping,
            Rwlock!NoStrandedSleeper, Rwlock!Goto, Rwlock!Forget, Rwlock!Write, Rwlock!Cas,
            Rwlock!Load, Rwlock!FutexWait, Rwlock!FutexResume, Rwlock!WriterBit
<1>6. CASE Rwlock!Call(a)
  <2>1. R' = R /\ W' = W
    BY <1>6 DEF Rwlock!Call
  <2>. QED
    BY <1>6, <2>1 DEF Rwlock!Call
<1>7. CASE Rwlock!ReadLoad(a)
  <2>1. R' = R /\ W' = W
    BY <1>7 DEF Rwlock!ReadLoad
  <2>. QED
    BY <1>7, <2>1 DEF Rwlock!ReadLoad
<1>8. CASE Rwlock!ReadTake(a)
  <2>1. CASE word = seen[a]
    <3>1. R' = R \union {a} /\ a \notin R /\ W' = W
      BY <1>8, <2>1 DEF Rwlock!ReadTake
    <3>. QED
      BY <1>8, <2>1, <3>1 DEF Rwlock!ReadTake
  <2>2. CASE word # seen[a]
    <3>1. R' = R /\ W' = W
      BY <1>8, <2>2 DEF Rwlock!ReadTake
    <3>. QED
      BY <1>8, <2>2, <3>1 DEF Rwlock!ReadTake
  <2>. QED
    BY <2>1, <2>2
<1>9. CASE Rwlock!ReadWait(a)
  <2>1. R' = R /\ W' = W
    BY <1>9 DEF Rwlock!ReadWait
  <2>. QED
    BY <1>9, <2>1 DEF Rwlock!ReadWait
<1>10. CASE Rwlock!ReadResume(a)
  <2>1. R' = R /\ W' = W
    BY <1>10 DEF Rwlock!ReadResume
  <2>. QED
    BY <1>10, <2>1 DEF Rwlock!ReadResume
<1>11. CASE Rwlock!ReadUnlock(a)
  <2>1. R' = R \ {a} /\ a \in R /\ W' = W
    BY <1>11 DEF Rwlock!ReadUnlock
  <2>. QED
    BY <1>11, <2>1 DEF Rwlock!ReadUnlock
<1>12. CASE Rwlock!WriteLoad(a)
  <2>1. R' = R /\ W' = W
    BY <1>12 DEF Rwlock!WriteLoad
  <2>. QED
    BY <1>12, <2>1 DEF Rwlock!WriteLoad
<1>13. CASE Rwlock!WriteTake(a)
  <2>1. CASE word = 0
    <3>1. R = {} /\ W = {} /\ R' = R /\ W' = {a}
      BY <1>13, <2>1 DEF Rwlock!WriteTake
    <3>. QED
      BY <1>13, <2>1, <3>1 DEF Rwlock!WriteTake
  <2>2. CASE word # 0
    <3>1. R' = R /\ W' = W
      BY <1>13, <2>2 DEF Rwlock!WriteTake
    <3>. QED
      BY <1>13, <2>2, <3>1 DEF Rwlock!WriteTake
  <2>. QED
    BY <2>1, <2>2
<1>14. CASE Rwlock!WriteWait(a)
  <2>1. R' = R /\ W' = W
    BY <1>14 DEF Rwlock!WriteWait
  <2>. QED
    BY <1>14, <2>1 DEF Rwlock!WriteWait
<1>15. CASE Rwlock!WriteResume(a)
  <2>1. R' = R /\ W' = W
    BY <1>15 DEF Rwlock!WriteResume
  <2>. QED
    BY <1>15, <2>1 DEF Rwlock!WriteResume
<1>16. CASE Rwlock!WriteUnlock(a)
  <2>1. R' = R /\ W' = W \ {a} /\ a \in W
    BY <1>16 DEF Rwlock!WriteUnlock
  <2>. QED
    BY <1>16, <2>1 DEF Rwlock!WriteUnlock
<1>17. CASE Rwlock!UnlockWake(a)
  <2>1. R' = R /\ W' = W
    BY <1>17 DEF Rwlock!UnlockWake, Rwlock!FutexWakeAll
  <2>. QED
    BY <1>17, <2>1 DEF Rwlock!UnlockWake, Rwlock!FutexWakeAll
<1>. QED
  BY <1>6, <1>7, <1>8, <1>9, <1>10, <1>11, <1>12, <1>13, <1>14, <1>15, <1>16, <1>17 DEF Rwlock!Step

-----------------------------------------------------------------------------
(* The countdown: its word is the number of workers yet to count down.     *)

\* LmCountdown counts with the same Cardinality.
LEMMA CountdownCardinality == ASSUME NEW S PROVE Countdown!Cardinality(S) = Cardinality(S)
BY DEF Countdown!Cardinality, Cardinality

Uncounted == {a \in Workers : pc[a] = "out"}

CountdownInv == /\ Countdown!TypeOK
                /\ SleepersAsleep
                /\ word = Cardinality(Uncounted)
                /\ \A a \in Workers : pc[a] \in {"out", "wake", "counted"}
                /\ \A a \in Agents : pc[a] = "wait" => seen[a] # 0
                /\ At({"passed"}) # {} => word = 0
                /\ Countdown!NoStrandedSleeper

\* lm_countdown_init counts the workers.
LEMMA CountdownInit == Countdown!Init => CountdownInv
<1> SUFFICES ASSUME Countdown!Init PROVE CountdownInv
  OBVIOUS
<1>1. Uncounted = Workers /\ IsFiniteSet(Workers) /\ Cardinality(Workers) \in Nat
  BY SyncAssumption, FS_Subset, FS_CardinalityType DEF Countdown!Init, Uncounted
<1>. QED
  BY <1>1, CountdownCardinality, SyncAssumption
  DEF Countdown!Init, CountdownInv, Countdown!TypeOK, Countdown!Locs, SleepersAsleep, At,
      Countdown!NoStrandedSleeper

\* Every operation of lm_countdown_done and lm_countdown_wait preserves it.
LEMMA CountdownStep == CountdownInv /\ Countdown!Next => CountdownInv'
<1> SUFFICES ASSUME CountdownInv, NEW a \in Agents,
                    Countdown!Done(a) \/ Countdown!Call(a) \/ Countdown!Step(a)
             PROVE  CountdownInv'
  BY DEF Countdown!Next
<1> DEFINE U == Uncounted
<1>0. /\ IsFiniteSet(U) /\ IsFiniteSet(U') /\ Cardinality(U) \in Nat /\ Cardinality(U') \in Nat
      /\ Cardinality(Workers) \in Nat
  BY SyncAssumption, FS_Subset, FS_CardinalityType DEF Uncounted
<1>1. /\ U' = U \ {a} /\ a \in U => Cardinality(U') = Cardinality(U) - 1 /\ Cardinality(U) > 0
      /\ U' = U => Cardinality(U') = Cardinality(U)
  BY <1>0, CardMoves
<1>2. U = Uncounted /\ U' = Uncounted'
  OBVIOUS
<1> HIDE DEF U
<1> USE SyncAssumption, CountdownCardinality, <1>0, <1>1, <1>2
<1> USE DEF CountdownInv, Countdown!TypeOK, Countdown!Locs, SleepersAsleep, At, Countdown!At,
            Sleeping, Uncounted, Countdown!NoStrandedSleeper, Countdown!Goto, Countdown!Forget,
            Countdown!Write, Countdown!Load, Countdown!FutexWait, Countdown!FutexResume,
            Countdown!FutexWakeAll
<1>3. CASE Countdown!Done(a)
  <2>1. U' = U \ {a} /\ a \in U
    BY <1>3 DEF Countdown!Done
  <2>. QED
    BY <1>3, <2>1 DEF Countdown!Done
<1>4. CASE Countdown!DoneWake(a)
  <2>1. U' = U
    BY <1>4 DEF Countdown!DoneWake
  <2>. QED
    BY <1>4, <2>1 DEF Countdown!DoneWake
<1>5. CASE Countdown!Call(a)
  <2>1. U' = U
    BY <1>5 DEF Countdown!Call
  <2>. QED
    BY <1>5, <2>1 DEF Countdown!Call
<1>6. CASE Countdown!Read(a)
  <2>1. U' = U
    BY <1>6 DEF Countdown!Read
  <2>. QED
    BY <1>6, <2>1 DEF Countdown!Read
<1>7. CASE Countdown!Wait(a)
  <2>1. U' = U
    BY <1>7 DEF Countdown!Wait
  <2>. QED
    BY <1>7, <2>1 DEF Countdown!Wait
<1>8. CASE Countdown!Resume(a)
  <2>1. U' = U
    BY <1>8 DEF Countdown!Resume
  <2>. QED
    BY <1>8, <2>1 DEF Countdown!Resume
<1>. QED
  BY <1>3, <1>4, <1>5, <1>6, <1>7, <1>8 DEF Countdown!Step

\* With nobody left to count, every worker is past its done.
LEMMA CountdownNoEarlyPass == CountdownInv => Countdown!NoEarlyPass
<1>1. IsFiniteSet(Uncounted)
  BY SyncAssumption, FS_Subset DEF Uncounted
<1>2. Cardinality(Uncounted) = 0 => Uncounted = {}
  BY <1>1, FS_EmptySet
<1>. QED
  BY <1>2, SyncAssumption
  DEF CountdownInv, Countdown!NoEarlyPass, Countdown!At, At, Uncounted

-----------------------------------------------------------------------------
(* The once: its word tells how far the initialiser is.                    *)

\* LmOnce counts with the same Cardinality.
LEMMA OnceCardinality == ASSUME NEW S PROVE Once!Cardinality(S) = Cardinality(S)
BY DEF Once!Cardinality, Cardinality

Winners == At({"run", "wake", "ran"})

OnceInv == /\ Once!TypeOK
           /\ SleepersAsleep
           /\ \A a, b \in Winners : a = b
           /\ word = 0 => Winners = {}
           /\ word = 1 => At({"run"}) # {}
           /\ At({"run"}) # {} => word = 1
           /\ At({"passed"}) # {} => word = 2
           /\ \A a \in Agents : /\ pc[a] \in {"load", "wait", "asleep"} => word # 0
                                /\ pc[a] = "wait" => seen[a] = 1
           /\ Once!NoStrandedSleeper

\* LM_ONCE_INIT: nothing has run.
LEMMA OnceInit == Once!Init => OnceInv
BY DEF Once!Init, OnceInv, Once!TypeOK, Once!Locs, SleepersAsleep, At, Winners,
       Once!NoStrandedSleeper

\* Every operation of lm_once_call preserves the invariant.
LEMMA OnceStep == OnceInv /\ Once!Next => OnceInv'
<1> SUFFICES ASSUME OnceInv, NEW a \in Agents, Once!Call(a) \/ Once!Step(a)
             PROVE  OnceInv'
  BY DEF Once!Next
<1> USE DEF OnceInv, Once!TypeOK, Once!Locs, SleepersAsleep, At, Once!At, Sleeping, Winners,
            Once!NoStrandedSleeper, Once!Goto, Once!Forget, Once!Write, Once!Cas, Once!Load
<1>1. CASE Once!Call(a)
  BY <1>1 DEF Once!Call
<1>2. CASE Once!Claim(a)
  BY <1>2 DEF Once!Claim
<1>3. CASE Once!Finish(a)
  BY <1>3 DEF Once!Finish
<1>4. CASE Once!FinishWake(a)
  BY <1>4 DEF Once!FinishWake, Once!FutexWakeAll
<1>5. CASE Once!Read(a)
  BY <1>5 DEF Once!Read
<1>6. CASE Once!Wait(a)
  BY <1>6 DEF Once!Wait, Once!FutexWait
<1>7. CASE Once!Resume(a)
  BY <1>7 DEF Once!Resume, Once!FutexResume
<1>. QED
  BY <1>1, <1>2, <1>3, <1>4, <1>5, <1>6, <1>7 DEF Once!Step

\* One winner, and 2 in the word once it has finished.
LEMMA OnceOnlyOnce == OnceInv => Once!OnceOnly
<1> SUFFICES ASSUME OnceInv PROVE Once!OnceOnly
  OBVIOUS
<1>1. Winners = {} \/ \E a \in Winners : Winners = {a}
  BY DEF OnceInv
<1>2. Cardinality(Winners) <= 1
  <2>1. Winners = {} => Cardinality(Winners) = 0
    BY FS_EmptySet
  <2>2. \A a \in Winners : Cardinality({a}) = 1
    BY FS_Singleton
  <2>. QED
    BY <1>1, <2>1, <2>2
<1>3. At({"passed", "wake", "ran"}) # {} => word = 2
  <2> SUFFICES ASSUME NEW a \in At({"wake", "ran"}) PROVE word = 2
    BY DEF OnceInv, At
  <2>1. a \in Winners /\ a \notin At({"run"}) /\ At({"run"}) \subseteq Winners
    BY DEF At, Winners
  <2>2. word # 0 /\ word # 1
    BY <2>1 DEF OnceInv
  <2>. QED
    BY <2>2 DEF OnceInv, Once!TypeOK
<1>4. /\ Once!At({"run", "wake", "ran"}) = Winners
      /\ Once!At({"passed", "wake", "ran"}) = At({"passed", "wake", "ran"})
  BY DEF Once!At, At, Winners
<1>. QED
  BY <1>2, <1>3, <1>4, OnceCardinality DEF Once!OnceOnly

-----------------------------------------------------------------------------
(* The family.                                                             *)

Inv == /\ kind \in {"mutex", "sem", "rwlock", "countdown", "once"}
       /\ kind = "mutex" => MutexInv
       /\ kind = "sem" => SemInv
       /\ kind = "rwlock" => RwlockInv
       /\ kind = "countdown" => CountdownInv
       /\ kind = "once" => OnceInv

\* Whatever the primitive, its invariant holds at first and every step keeps it.
THEOREM Invariance == Spec => []Inv
<1>1. Init => Inv
  BY MutexInit, SemInit, RwlockInit, CountdownInit, OnceInit DEF Init, Inv
<1>2. Inv /\ [Next]_allVars => Inv'
  <2> SUFFICES ASSUME Inv, [Next]_allVars PROVE Inv'
    OBVIOUS
  <2>1. CASE Next /\ kind = "mutex" /\ Mutex!Next
    BY <2>1, MutexStep DEF Inv, Next
  <2>2. CASE Next /\ kind = "sem" /\ Sem!Next
    BY <2>2, SemStep DEF Inv, Next
  <2>3. CASE Next /\ kind = "rwlock" /\ Rwlock!Next
    BY <2>3, RwlockStep DEF Inv, Next
  <2>4. CASE Next /\ kind = "countdown" /\ Countdown!Next
    BY <2>4, CountdownStep DEF Inv, Next
  <2>5. CASE Next /\ kind = "once" /\ Once!Next
    BY <2>5, OnceStep DEF Inv, Next
  <2>6. CASE UNCHANGED allVars
    BY <2>6
    DEF allVars, Inv, SleepersAsleep, At, Sleeping,
        MutexInv, Mutex!TypeOK, Mutex!holders, Mutex!MutualExclusion, Mutex!NoStrandedSleeper,
        Mutex!At, Mutex!Contenders, Mutex!Woken, Mutex!Sleeping,
        SemInv, Sem!TypeOK, Sem!NoExtraPermit, Sem!Permits, Sem!holders, Sem!At,
        Sem!NoStrandedSleeper, Sem!Woken, Sem!Sleeping,
        RwlockInv, Rwlock!TypeOK, Rwlock!At, Rwlock!NoStrandedSleeper, Rwlock!WriterBit,
        CountdownInv, Uncounted, Countdown!TypeOK, Countdown!At, Countdown!NoStrandedSleeper,
        OnceInv, Winners, Once!TypeOK, Once!At, Once!NoStrandedSleeper
  <2>7. CASE AtRest /\ UNCHANGED kind
    BY <2>6, <2>7 DEF AtRest, vars, allVars
  <2>. QED
    BY <2>1, <2>2, <2>3, <2>4, <2>5, <2>6, <2>7 DEF Next
<1>. QED
  BY <1>1, <1>2, PTL DEF Spec

\* The state stays well formed: in particular the word of the rwlock keeps within
\* its 32 bits and no operation takes a semaphore below 0.
THEOREM TypeCorrect == Spec => []TypeOK
<1>1. Inv => TypeOK
  BY DEF Inv, TypeOK, MutexInv, SemInv, RwlockInv, CountdownInv, OnceInv
<1>. QED
  BY <1>1, Invariance, PTL

\* Exclusion for every number of agents: the lock of lm_mutex_lock has one
\* holder, a writer of lm_rwlock_wrlock is alone, lm_sem makes no permit up,
\* lm_countdown_wait lets nobody through early, lm_once_call calls once.
THEOREM Exclusion == Spec => []NobodyInsideWrongly
<1>1. Inv => NobodyInsideWrongly
  BY RwlockExclusion, CountdownNoEarlyPass, OnceOnlyOnce
  DEF Inv, NobodyInsideWrongly, MutexInv, SemInv
<1>. QED
  BY <1>1, Invariance, PTL

\* No lost wakeup, for every number of agents: whoever sleeps in lm_butex_wait
\* has somebody on the way who will wake it.
THEOREM NoLostWakeup == Spec => []NoStrandedSleeper
<1>1. Inv => NoStrandedSleeper
  BY DEF Inv, NoStrandedSleeper, MutexInv, SemInv, RwlockInv, CountdownInv, OnceInv
<1>. QED
  BY <1>1, Invariance, PTL

-----------------------------------------------------------------------------
(* The mutex, and the rwlock among its writers, are mutexes.               *)

\* An operation of the mutex acquires, releases or changes no holder.
LEMMA MutexImplements ==
  ASSUME kind = "mutex", MutexInv, Mutex!Next, UNCHANGED kind
  PROVE  [Abstract!Next]_exclusive
<1> PICK a \in Agents :
      Mutex!LockFast(a) \/ Mutex!TryLock(a) \/ Mutex!Spin(a) \/ Mutex!Step(a)
  BY DEF Mutex!Next
<1>1. exclusive = Mutex!holders /\ exclusive' = Mutex!holders'
  BY DEF exclusive, Mutex!holders, Mutex!At, At
<1>2. \/ Mutex!holders' = Mutex!holders
      \/ Mutex!holders = {} /\ Mutex!holders' = {a}
      \/ Mutex!holders = {a} /\ Mutex!holders' = {}
  <2> USE DEF MutexInv, Mutex!TypeOK, Mutex!holders, Mutex!MutualExclusion, Mutex!At,
              Mutex!Goto, Mutex!Write, Mutex!Cas
  <2>1. CASE Mutex!LockFast(a) \/ Mutex!TryLock(a) \/ Mutex!SlowTake(a) \/ Mutex!Unlock(a)
    BY <2>1 DEF Mutex!LockFast, Mutex!TryLock, Mutex!SlowTake, Mutex!Unlock
  <2>2. CASE Mutex!SlowLoad(a) \/ Mutex!SlowMark(a) \/ Mutex!Wait(a) \/ Mutex!Resume(a)
             \/ Mutex!UnlockWake(a) \/ Mutex!Spin(a)
    BY <2>2 DEF Mutex!SlowLoad, Mutex!SlowMark, Mutex!Wait, Mutex!Resume, Mutex!UnlockWake,
                Mutex!Spin, Mutex!FutexWait, Mutex!FutexResume, Mutex!FutexWakeOne
  <2>. QED
    BY <2>1, <2>2 DEF Mutex!Step
<1>. QED
  BY <1>1, <1>2 DEF Abstract!Next, Abstract!Acquire, Abstract!Release

\* So does an operation of the rwlock for its writers.
LEMMA RwlockImplements ==
  ASSUME kind = "rwlock", RwlockInv, Rwlock!Next, UNCHANGED kind
  PROVE  [Abstract!Next]_exclusive
<1> PICK a \in Agents : Rwlock!Call(a) \/ Rwlock!Step(a)
  BY DEF Rwlock!Next
<1> DEFINE W == At({"writing"})
<1>1. exclusive = W /\ exclusive' = W'
  BY DEF exclusive
<1>2. W' = W \/ (W = {} /\ W' = {a}) \/ (W = {a} /\ W' = {})
  <2> USE DEF RwlockInv, Rwlock!TypeOK, At, Rwlock!Goto, Rwlock!Write, Rwlock!Cas, Rwlock!Load
  <2>1. CASE Rwlock!WriteTake(a)
    BY <2>1, SyncAssumption, FS_CardinalityType DEF Rwlock!WriteTake
  <2>2. CASE Rwlock!WriteUnlock(a)
    BY <2>2 DEF Rwlock!WriteUnlock
  <2>3. CASE Rwlock!Call(a) \/ Rwlock!ReadLoad(a) \/ Rwlock!ReadTake(a) \/ Rwlock!ReadUnlock(a)
             \/ Rwlock!WriteLoad(a)
    BY <2>3 DEF Rwlock!Call, Rwlock!ReadLoad, Rwlock!ReadTake, Rwlock!ReadUnlock,
                Rwlock!WriteLoad
  <2>4. CASE Rwlock!ReadWait(a) \/ Rwlock!ReadResume(a) \/ Rwlock!WriteWait(a)
             \/ Rwlock!WriteResume(a) \/ Rwlock!UnlockWake(a)
    BY <2>4 DEF Rwlock!ReadWait, Rwlock!ReadResume, Rwlock!WriteWait, Rwlock!WriteResume,
                Rwlock!UnlockWake, Rwlock!FutexWait, Rwlock!FutexResume, Rwlock!FutexWakeAll
  <2>. QED
    BY <2>1, <2>2, <2>3, <2>4 DEF Rwlock!Step
<1>. QED
  BY <1>1, <1>2 DEF Abstract!Next, Abstract!Acquire, Abstract!Release

\* Refinement, for every number of agents: seen through its holders, lm_mutex_t is
\* the mutex of MutexSpec, and seen through its writers, lm_rwlock_t is.
THEOREM Refinement == Spec => ImplementsMutex
<1>1. Init => Abstract!Init
  BY DEF Init, Abstract!Init, exclusive, At, Mutex!Init, Rwlock!Init
<1>2. Inv /\ [Next]_allVars => [Abstract!Next]_exclusive
  <2> SUFFICES ASSUME Inv, [Next]_allVars PROVE [Abstract!Next]_exclusive
    OBVIOUS
  <2>1. CASE kind = "mutex" /\ Mutex!Next /\ UNCHANGED kind
    BY <2>1, MutexImplements DEF Inv
  <2>2. CASE kind = "rwlock" /\ Rwlock!Next /\ UNCHANGED kind
    BY <2>2, RwlockImplements DEF Inv
  <2>3. CASE kind \notin {"mutex", "rwlock"} /\ UNCHANGED kind
    BY <2>3 DEF exclusive
  <2>4. CASE UNCHANGED allVars
    BY <2>4 DEF allVars, exclusive, At
  <2>. QED
    BY <2>1, <2>2, <2>3, <2>4 DEF Next, AtRest, vars, allVars
<1>. QED
  BY <1>1, <1>2, Invariance, PTL DEF Spec, ImplementsMutex, Abstract!Spec
=============================================================================
