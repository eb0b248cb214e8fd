----------------------------- MODULE SyncFamily -----------------------------
(***************************************************************************)
(* The primitives of lm_sync.c side by side: a behaviour is that of one of *)
(* them, the same for all its agents.  They share one contract with        *)
(* lm_butex, "change the word, then wake", and the same three questions    *)
(* are asked of each: who may be inside together, can a sleeper be left    *)
(* with nobody to wake it, does a waiter get on.                           *)
(***************************************************************************)
EXTENDS Futex

CONSTANTS Initial, MaxPermits,   \* the semaphore's
          Writer,                \* the rwlock's
          Workers                \* the countdown's

\* lm_sem_init is given a count; the reader counter has 31 bits, more than there
\* are agents; lm_countdown_init is given the number of the workers.
ASSUME SyncAssumption ==
    /\ IsFiniteSet(Agents)
    /\ Initial \in Nat /\ MaxPermits \in Nat /\ Initial <= MaxPermits
    /\ Writer \in Nat /\ Writer > Cardinality(Agents)
    /\ Workers \subseteq Agents

VARIABLE kind   \* which primitive this behaviour uses

allVars == <<kind, word, sleepers, pc, seen>>

Mutex     == INSTANCE LmMutex
Sem       == INSTANCE LmSem
Rwlock    == INSTANCE LmRwlock
Countdown == INSTANCE LmCountdown
Once      == INSTANCE LmOnce

Init == \/ kind = "mutex" /\ Mutex!Init
        \/ kind = "sem" /\ Sem!Init
        \/ kind = "rwlock" /\ Rwlock!Init
        \/ kind = "countdown" /\ Countdown!Init
        \/ kind = "once" /\ Once!Init

\* The countdown and the once come to rest when everybody has returned.
AtRest == /\ kind \in {"countdown", "once"}
          /\ At({"passed", "counted", "ran"}) = Agents
          /\ UNCHANGED vars

Next == /\ \/ kind = "mutex" /\ Mutex!Next
           \/ kind = "sem" /\ Sem!Next
           \/ kind = "rwlock" /\ Rwlock!Next
           \/ kind = "countdown" /\ Countdown!Next
           \/ kind = "once" /\ Once!Next
           \/ AtRest
        /\ UNCHANGED kind

Spec == Init /\ [][Next]_allVars

Fairness == \A a \in Agents :
    /\ WF_allVars(kind = "mutex" /\ Mutex!Step(a) /\ UNCHANGED kind)
    /\ SF_allVars(kind = "mutex" /\ Mutex!SlowMark(a) /\ UNCHANGED kind)
    /\ SF_allVars(kind = "mutex" /\ Mutex!Wait(a) /\ UNCHANGED kind)
    /\ WF_allVars(kind = "sem" /\ Sem!Step(a) /\ UNCHANGED kind)
    /\ WF_allVars(kind = "rwlock" /\ Rwlock!Step(a) /\ UNCHANGED kind)
    /\ WF_allVars(kind = "countdown" /\ Countdown!Step(a) /\ UNCHANGED kind)
    /\ WF_allVars(kind = "countdown" /\ Countdown!Done(a) /\ UNCHANGED kind)
    /\ WF_allVars(kind = "once" /\ Once!Step(a) /\ UNCHANGED kind)

FairSpec == Spec /\ Fairness

-----------------------------------------------------------------------------
TypeOK == /\ kind = "mutex" => Mutex!TypeOK
          /\ kind = "sem" => Sem!TypeOK
          /\ kind = "rwlock" => Rwlock!TypeOK
          /\ kind = "countdown" => Countdown!TypeOK
          /\ kind = "once" => Once!TypeOK

\* Nobody is inside a primitive who should be kept out of it: one holder of the
\* mutex, a writer alone, no permit out of nothing, no waiter past a worker that
\* still counts, no second run of the initialiser.
NobodyInsideWrongly == /\ kind = "mutex" => Mutex!MutualExclusion
                       /\ kind = "sem" => Sem!NoExtraPermit
                       /\ kind = "rwlock" => Rwlock!Exclusion
                       /\ kind = "countdown" => Countdown!NoEarlyPass
                       /\ kind = "once" => Once!OnceOnly

\* No agent sleeps on a word that nobody will change and wake it for: the lost
\* wakeup that the order "change the word, then lm_butex_wake" is there to close.
NoStrandedSleeper == /\ kind = "mutex" => Mutex!NoStrandedSleeper
                     /\ kind = "sem" => Sem!NoStrandedSleeper
                     /\ kind = "rwlock" => Rwlock!NoStrandedSleeper
                     /\ kind = "countdown" => Countdown!NoStrandedSleeper
                     /\ kind = "once" => Once!NoStrandedSleeper

\* Where there is something to have, a waiter has it or sees another have it.
WaitersGetOn == \A a \in Agents :
    /\ (kind = "mutex" /\ Mutex!Waiting(a)) ~> (Mutex!holders # {} \/ ~Mutex!Waiting(a))
    /\ (kind = "sem" /\ Sem!Waiting(a) /\ Sem!Permits > 0)
          ~> (Sem!holders # {} \/ ~Sem!Waiting(a))
    /\ (kind = "rwlock" /\ Rwlock!Waiting(a)) ~> (At({"reading", "writing"}) # {})
    /\ (kind = "countdown" /\ pc[a] = "load") ~> (pc[a] = "passed")
    /\ (kind = "once" /\ pc[a] = "claim") ~> (pc[a] \in {"ran", "passed"})

\* The agents alone in the lock: the mutex's holder, the rwlock's writer.
exclusive == CASE kind = "mutex" -> At({"cs"})
               [] kind = "rwlock" -> At({"writing"})
               [] OTHER -> {}

Abstract == INSTANCE MutexSpec WITH holders <- exclusive

\* The mutex, and the rwlock as its writers use it, implement the abstract mutex.
ImplementsMutex == Abstract!Spec
=============================================================================
