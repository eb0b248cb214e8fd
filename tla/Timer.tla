------------------------------- MODULE Timer -------------------------------
(***************************************************************************)
(* The timer thread of lm_timer.c, the threads that add and cancel timers, *)
(* callbacks that do so too, and the stop of the thread.                   *)
(*                                                                         *)
(* A slot of the pool is a timer for one life after the other; its version *)
(* counts them.  The heap is a set of slots that hands out an earliest,    *)
(* the free list one that hands out any, a bucket one that goes to the     *)
(* heap as a whole: in which order a list has them decides nothing.        *)
(* A bucket is emptied in one step:                                        *)
(* what the thread reads of a task after unlocking only a cancel changes,  *)
(* and the sweep looks again.  nearest_snapshot, which only bounds the     *)
(* poll of the reactor, is left out.                                       *)
(***************************************************************************)
EXTENDS Naturals

CONSTANTS Slots, Clients,
          Thread,       \* the timer thread, as the caller of a callback's adds
          NumBuckets, BucketOf,   \* the bucket of each caller
          Never,        \* UINT64_MAX
          MaxTime,      \* bound: now_ms
          MaxAdds       \* bound: calls of lm_timer_add

Callers == Clients \union {Thread}
Buckets == 1..NumBuckets

ASSUME TimerAssumption ==
    /\ Thread \notin Clients /\ NumBuckets \in Nat \ {0} /\ BucketOf \in [Callers -> Buckets]
    /\ MaxTime \in Nat /\ MaxAdds \in Nat /\ Never = MaxTime + 1

VARIABLES version,      \* task->version: [seq, st]
          deadline,     \* task->run_time_ms
          free, bucket, heap,
          nearest,      \* _nearest_run_time
          nsignals, stop,
          step, base, index, clock, running, until,   \* of the thread: where it is,
                                \* nsignals_base, the next bucket, its sample of now_ms in
                                \* the sweep, the task in fn, its timeout
          call,         \* what each caller's lm_timer_add has got to
          stopping,     \* where lm_timer_thread_stop is
          known,        \* ids that lm_timer_add has returned
          now,
          fired, cancelled,     \* ids whose fn was called, whose cancel returned 0
          heard,                \* ids whose fetch_add came before the thread slept, or that wake it
          adds                  \* calls of lm_timer_add so far

lists == <<free, bucket, heap>>
thread == <<step, base, index, clock, running, until>>
history == <<known, fired, cancelled, heard>>
timerVars == <<version, deadline, lists, nearest, nsignals, stop, thread, call, stopping,
          history, now, adds>>

Idle == [step |-> "idle"]
IdOf(s) == <<s, version[s].seq>>
Is(s, st) == version[s].st = st

\* Recycling tasks ends their lives: seq + 1, free, back to the free list.
Recycle(tasks) ==
    /\ version' = [s \in Slots |-> IF s \in tasks
                                   THEN [seq |-> version[s].seq + 1, st |-> "free"]
                                   ELSE version[s]]
    /\ free' = free \union tasks

Become(s, st) == version' = [version EXCEPT ![s].st = st]

TimerInit == /\ version = [s \in Slots |-> [seq |-> 0, st |-> "free"]]
             /\ deadline = [s \in Slots |-> 0]
             /\ free = Slots /\ bucket = [b \in Buckets |-> {}] /\ heap = {}
             /\ nearest = Never /\ nsignals = 0 /\ stop = FALSE
             /\ step = "base" /\ base = 0 /\ index = 1 /\ clock = 0 /\ running = {} /\ until = Never
             /\ call = [c \in Callers |-> Idle] /\ stopping = "no"
             /\ known = {} /\ now = 0 /\ fired = {} /\ cancelled = {} /\ heard = {} /\ adds = 0

-----------------------------------------------------------------------------
(* timer_run *)

Goto(from, to) == step = from /\ step' = to

\* The loop starts with the test of stop and a sample of nsignals, before any bucket.
SampleBase ==
    /\ Goto("base", IF stop THEN "ended" ELSE "consume")
    /\ base' = nsignals /\ index' = 1
    /\ UNCHANGED <<version, deadline, lists, nearest, nsignals, stop, clock, running, until, call,
                   stopping, history, now, adds>>

\* A bucket goes to the heap; what was cancelled is recycled.
Consume ==
    /\ Goto("consume", IF index = NumBuckets THEN "sweep" ELSE "consume")
    /\ index' = index + 1
    /\ clock' = IF index = NumBuckets THEN now ELSE 0
    /\ heap' = heap \union {s \in bucket[index] : Is(s, "scheduled")}
    /\ Recycle({s \in bucket[index] : ~Is(s, "scheduled")})
    /\ bucket' = [bucket EXCEPT ![index] = {}]
    /\ UNCHANGED <<deadline, nearest, nsignals, stop, base, running, until, call, stopping,
                   history, now, adds>>

HeapTop == {s \in heap : \A u \in heap : deadline[s] <= deadline[u]}
HeapNearest == IF heap = {} THEN Never ELSE deadline[CHOOSE s \in HeapTop : TRUE]

\* now_ms is read at the start of the sweep and after every task.
Due(s) == s \in HeapTop /\ deadline[s] <= clock

\* Slip: the task runs without a CAS of its state.
SweepRunBlindly(s) ==
    /\ Goto("sweep", "fn") /\ Due(s)
    /\ heap' = heap \ {s} /\ running' = {s}
    /\ Become(s, "running") /\ fired' = fired \union {IdOf(s)}
    /\ UNCHANGED <<deadline, free, bucket, nearest, nsignals, stop, base, index, clock, until, call,
                   stopping, known, cancelled, heard, now, adds>>

\* The CAS from scheduled to running, and the call of fn.
SweepRun(s) ==
    /\ Goto("sweep", "fn") /\ Due(s) /\ Is(s, "scheduled")
    /\ heap' = heap \ {s} /\ running' = {s}
    /\ Become(s, "running") /\ fired' = fired \union {IdOf(s)}
    /\ UNCHANGED <<deadline, free, bucket, nearest, nsignals, stop, base, index, clock, until, call,
                   stopping, known, cancelled, heard, now, adds>>

\* A cancel came first.
SweepDrop(s) ==
    /\ step = "sweep" /\ Due(s) /\ Is(s, "done")
    /\ heap' = heap \ {s} /\ Recycle({s}) /\ clock' = now
    /\ UNCHANGED <<deadline, bucket, nearest, nsignals, stop, step, base, index, running, until,
                   call, stopping, history, now, adds>>

\* fn returns.
Return ==
    /\ Goto("fn", "sweep") /\ call[Thread] = Idle
    /\ running' = {} /\ Recycle(running) /\ clock' = now
    /\ UNCHANGED <<deadline, bucket, heap, nearest, nsignals, stop, base, index, until, call,
                   stopping, history, now, adds>>

\* Nothing is due any more.
SweepEnd ==
    /\ Goto("sweep", "publish") /\ \A s \in heap : deadline[s] > clock
    /\ clock' = 0
    /\ UNCHANGED <<version, deadline, lists, nearest, nsignals, stop, base, index, running,
                   until, call, stopping, history, now, adds>>

Publish ==
    /\ Goto("publish", "check")
    /\ nearest' = HeapNearest
    /\ UNCHANGED <<version, deadline, lists, nsignals, stop, base, index, clock, running, until,
                   call, stopping, history, now, adds>>

\* Has anything been added since the sample?  Is it time to stop?
Check ==
    /\ step = "check"
    /\ step' = IF nsignals # base THEN "base" ELSE IF stop THEN "ended" ELSE "park"
    /\ UNCHANGED <<version, deadline, lists, nearest, nsignals, stop, base, index, clock, running,
                   until, call, stopping, history, now, adds>>

\* Slip: the futex compares with what nsignals is now.
FutexWaitOnCurrent ==
    /\ step = "park"
    /\ step' = "parked" /\ until' = HeapNearest
    /\ UNCHANGED <<version, deadline, lists, nearest, nsignals, stop, base, index, clock, running,
                   call, stopping, history, now, adds>>

\* lm_futex_wait compares nsignals with the sample before it sleeps.
FutexWait ==
    /\ step = "park"
    /\ \/ nsignals = base /\ step' = "parked" /\ until' = HeapNearest
       \/ nsignals # base /\ step' = "base" /\ UNCHANGED until
    /\ UNCHANGED <<version, deadline, lists, nearest, nsignals, stop, base, index, clock, running,
                   call, stopping, history, now, adds>>

\* lm_futex_wake, or the end of the timeout.
WakeThread == /\ step' = IF step = "parked" THEN "base" ELSE step
              /\ until' = Never

Timeout ==
    /\ step = "parked" /\ until <= now /\ WakeThread
    /\ UNCHANGED <<version, deadline, lists, nearest, nsignals, stop, base, index, clock, running,
                   call, stopping, history, now, adds>>

-----------------------------------------------------------------------------
(* lm_timer_add and lm_timer_cancel, called by a client or by fn *)

MayCall(c) == c \in Clients \/ step = "fn"

AddAlloc(c, s, d) ==
    /\ call[c] = Idle /\ MayCall(c) /\ ~stop /\ adds < MaxAdds
    /\ s \in free /\ free' = free \ {s}
    /\ Become(s, "scheduled") /\ deadline' = [deadline EXCEPT ![s] = d]
    /\ call' = [call EXCEPT ![c] = [step |-> "insert", id |-> IdOf(s), due |-> d]]
    /\ adds' = adds + 1
    /\ UNCHANGED <<bucket, heap, nearest, nsignals, stop, thread, stopping, history, now>>

AddInsert(c) ==
    /\ call[c].step = "insert"
    /\ bucket' = [bucket EXCEPT ![BucketOf[c]] = @ \union {call[c].id[1]}]
    /\ call' = [call EXCEPT ![c].step = "compare"]
    /\ UNCHANGED <<version, deadline, free, heap, nearest, nsignals, stop, thread, stopping,
                   history, now, adds>>

\* Is this deadline before the one the thread sleeps to?
AddCompare(c) ==
    LET wake == call[c].due < nearest IN
    /\ call[c].step = "compare"
    /\ nearest' = IF wake THEN call[c].due ELSE nearest
    /\ call' = [call EXCEPT ![c] = [step |-> "signal", id |-> @.id, wake |-> wake]]
    /\ UNCHANGED <<version, deadline, lists, nsignals, stop, thread, stopping, history, now, adds>>

\* The add returns its id; it counts as heard unless the thread sleeps and is not woken.
Hear(c) == /\ known' = known \union {call[c].id}
           /\ heard' = IF call[c].wake \/ step # "parked" THEN heard \union {call[c].id} ELSE heard

\* Slip: nsignals counts only the adds that wake.
AddSignalIfWake(c) ==
    /\ call[c].step = "signal"
    /\ nsignals' = IF call[c].wake THEN nsignals + 1 ELSE nsignals
    /\ call' = [call EXCEPT ![c] = IF @.wake THEN [step |-> "wake"] ELSE Idle]
    /\ Hear(c)
    /\ UNCHANGED <<version, deadline, lists, nearest, stop, thread, stopping, fired, cancelled,
                   now, adds>>

\* nsignals counts every add.
AddSignal(c) ==
    /\ call[c].step = "signal"
    /\ nsignals' = nsignals + 1
    /\ call' = [call EXCEPT ![c] = IF @.wake THEN [step |-> "wake"] ELSE Idle]
    /\ Hear(c)
    /\ UNCHANGED <<version, deadline, lists, nearest, stop, thread, stopping, fired, cancelled,
                   now, adds>>

AddWake(c) ==
    /\ call[c].step = "wake"
    /\ WakeThread
    /\ call' = [call EXCEPT ![c] = Idle]
    /\ UNCHANGED <<version, deadline, lists, nearest, nsignals, stop, base, index, clock, running,
                   stopping, history, now, adds>>

\* Slip: cancel puts the task back into the pool itself.
CancelAndFree(id) ==
    /\ id \in known /\ version[id[1]] = [seq |-> id[2], st |-> "scheduled"]
    /\ Recycle({id[1]})
    /\ cancelled' = cancelled \union {id}
    /\ UNCHANGED <<deadline, bucket, heap, nearest, nsignals, stop, thread, call, stopping,
                   known, fired, heard, now, adds>>

\* A cancel that returns 0; one that returns 1 or -1 leaves everything as it is.
Cancel(id) ==
    /\ id \in known /\ version[id[1]] = [seq |-> id[2], st |-> "scheduled"]
    /\ Become(id[1], "done")
    /\ cancelled' = cancelled \union {id}
    /\ UNCHANGED <<deadline, lists, nearest, nsignals, stop, thread, call, stopping,
                   known, fired, heard, now, adds>>

-----------------------------------------------------------------------------
(* lm_timer_thread_stop, when no call is under way, and the clock *)

Stop ==
    /\ stopping = "no" /\ \A c \in Callers : call[c] = Idle
    /\ stopping' = "signal" /\ stop' = TRUE
    /\ UNCHANGED <<version, deadline, lists, nearest, nsignals, thread, call, history, now, adds>>

\* Slip: stop does not count as a signal.
StopUnsignalled ==
    /\ stopping = "signal" /\ stopping' = "wake" /\ UNCHANGED nsignals
    /\ UNCHANGED <<version, deadline, lists, nearest, stop, thread, call, history, now, adds>>

StopSignal ==
    /\ stopping = "signal" /\ stopping' = "wake" /\ nsignals' = nsignals + 1
    /\ UNCHANGED <<version, deadline, lists, nearest, stop, thread, call, history, now, adds>>

StopWake ==
    /\ stopping = "wake" /\ stopping' = "join" /\ WakeThread
    /\ UNCHANGED <<version, deadline, lists, nearest, nsignals, stop, base, index, clock, running,
                   call, history, now, adds>>

Tick ==
    /\ now < MaxTime /\ now' = now + 1
    /\ UNCHANGED <<version, deadline, lists, nearest, nsignals, stop, thread, call, stopping,
                   history, adds>>

-----------------------------------------------------------------------------
Run == \/ SampleBase \/ Consume \/ SweepEnd \/ Publish \/ Check \/ FutexWait \/ Timeout \/ Return
       \/ \E s \in Slots : SweepRun(s) \/ SweepDrop(s)

Add(c) == AddInsert(c) \/ AddCompare(c) \/ AddSignal(c) \/ AddWake(c)

Stopping == StopSignal \/ StopWake

TimerNext == \/ Run \/ Stop \/ Stopping \/ Tick
             \/ \E id \in known : Cancel(id)
             \/ \E c \in Callers : Add(c) \/ \E s \in Slots, d \in 1..MaxTime : AddAlloc(c, s, d)

TimerSystem == TimerInit /\ [][TimerNext]_timerVars

\* Threads run and time passes.
FairTimerSystem ==
    /\ TimerSystem /\ WF_timerVars(Run) /\ WF_timerVars(Stopping) /\ WF_timerVars(Tick)
    /\ \A c \in Callers : WF_timerVars(Add(c))

-----------------------------------------------------------------------------
Seqs == 0..MaxAdds
Ids == Slots \X Seqs
Calls == {Idle, [step |-> "wake"]}
         \union [step : {"insert", "compare"}, id : Ids, due : 1..MaxTime]
         \union [step : {"signal"}, id : Ids, wake : BOOLEAN]

TimerTypeOK ==
    /\ version \in [Slots -> [seq : Seqs, st : {"free", "scheduled", "running", "done"}]]
    /\ deadline \in [Slots -> 0..MaxTime]
    /\ free \subseteq Slots /\ bucket \in [Buckets -> SUBSET Slots] /\ heap \subseteq Slots
    /\ nearest \in 0..Never /\ nsignals \in Nat /\ base \in 0..nsignals /\ stop \in BOOLEAN
    /\ step \in {"base", "consume", "sweep", "fn", "publish", "check", "park", "parked", "ended"}
    /\ index \in 1..NumBuckets + 1 /\ clock \in 0..now /\ running \subseteq Slots /\ until \in 0..Never
    /\ call \in [Callers -> Calls] /\ stopping \in {"no", "signal", "wake", "join"}
    /\ known \in SUBSET Ids /\ fired \in SUBSET Ids /\ cancelled \in SUBSET Ids /\ heard \in SUBSET Ids
    /\ now \in 0..MaxTime /\ adds \in 0..MaxAdds

\* A task is in one place: in the free list, with the caller who adds it, in one
\* bucket, in the heap or in fn; and its state fits the place.
Places == {<<"free">>, <<"heap">>, <<"fn">>}
          \union ({"bucket"} \X Buckets) \union ({"add"} \X Callers)

Holds(p, s) ==
    CASE p[1] = "free" -> s \in free
      [] p[1] = "heap" -> s \in heap
      [] p[1] = "fn" -> s \in running
      [] p[1] = "bucket" -> s \in bucket[p[2]]
      [] p[1] = "add" -> call[p[2]].step = "insert" /\ call[p[2]].id[1] = s

OnePlace ==
    \A s \in Slots :
        /\ \E p \in Places : \A q \in Places : Holds(q, s) <=> q = p
        /\ s \in free <=> Is(s, "free")
        /\ s \in running <=> Is(s, "running")

\* The thread sleeps past no timer whose fetch_add it could see before it slept, nor past
\* one whose add means to wake it, once it has.
SleepsToHeard ==
    step = "parked" /\ (\A c \in Callers : call[c].step # "wake")
        => \A s \in Slots : Is(s, "scheduled") /\ IdOf(s) \in heard => until <= deadline[s]

\* "No lost window" (lm_timer.c:287): when the thread sleeps and no add is under way, it
\* sleeps no longer than the earliest timer that is due, wherever that is.
SleepsInTime ==
    step = "parked" /\ (\A c \in Callers : call[c] = Idle)
        => \A s \in Slots : Is(s, "scheduled") => until <= deadline[s]

Armed(id) == version[id[1]] = [seq |-> id[2], st |-> "scheduled"]

\* What lm_timer.h promises, read off the tasks' versions and what has happened.
Status == [id \in Ids |-> IF id \in fired THEN "fired" ELSE IF id \in cancelled THEN "cancelled"
                          ELSE IF Armed(id) THEN "armed" ELSE "none"]
DueAt == [id \in Ids |-> IF Armed(id) THEN deadline[id[1]] ELSE 0]

Promise == INSTANCE TimerSpec WITH status <- Status, due <- DueAt
ImplementsTimerSpec == Promise!Spec

\* A timer that was heard of fires, unless it is cancelled or the thread is stopped.
HeardTimersFire == \A id \in Ids : id \in heard ~> (id \in fired \union cancelled \/ stop)

\* lm_timer_thread_stop can join the thread.
StopEnds == stop ~> (step = "ended")
=============================================================================
