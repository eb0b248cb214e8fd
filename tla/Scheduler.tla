----------------------------- MODULE Scheduler -----------------------------
(***************************************************************************)
(* The compute pool: the workers of lm_compute.c in                        *)
(* lm_scheduler_pop_blocking, the queues of lm_scheduler.c they take       *)
(* coroutines from, and the threads that post to them.                     *)
(*                                                                         *)
(* A critical section under ready_mutex or g_ov_mutex is one step, except  *)
(* that of a worker on its way to sleep, which others change atomics       *)
(* under.  A push or pop of the owner of a WSQ is one step and a steal is  *)
(* three kinds of them, between which the owner may push and pop; WSQ.tla  *)
(* has the rest of the detail.  Here no queue gets full by its size.       *)
(***************************************************************************)
EXTENDS Integers, Sequences, FiniteSets

CONSTANTS Tasks,        \* coroutines
          None,         \* no task, no worker
          Workers,      \* workers the pool can have (LM_MAX_WORKERS)
          Started,      \* workers lm_compute_init starts
          Posters,      \* IO threads, timers and others that post
          Pool,         \* the name of the global queue
          MaxCalls,     \* bound: posts, stops and shrinks in a behaviour
          MaxSlices,    \* bound: time slices used up in a behaviour
          Batch,        \* LM_SCHED_STEAL_MAX_BATCH
          Slots         \* bound: coroutines in a WSQ at a time

ASSUME SchedulerAssumption ==
    /\ None \notin Tasks \union Workers \union {Pool} /\ Started \subseteq Workers
    /\ Pool \notin Workers /\ Posters \intersect Workers = {}
    /\ MaxCalls \in Nat /\ MaxSlices \in Nat
    /\ Batch \in Nat \ {0} /\ Slots \in Nat \ {0}

VARIABLES head, tail, \* of a worker's mutex queue, and of the global one
          next,       \* co->next
          top, bottom, slot, \* of a worker's WSQ
          queued,     \* co->queued
          state,      \* co->state
          bound,      \* the worker whose queue a wake of the coroutine goes to
          slices,     \* counts up to MaxSlices
          pc,         \* where a worker is in its loop
          cur,        \* the coroutine a worker has taken
          sleeping, stop, reject,   \* s->sleeping, s->stop, s->reject_new
          stale,      \* sleepWord has been bumped since the worker loaded it
          unscanned,  \* victims a thief has not tried yet
          loot,       \* a thief's victim, the top it has read, the size and the tasks of the batch
          spinning,   \* g_nspinning
          poster,     \* step, task and target of every poster, and of a worker that wakes another
          calls       \* counts up to MaxCalls

lists == <<head, tail, next>>
wsqs == <<top, bottom, slot>>
queues == <<lists, wsqs, queued>>
tasks == <<state, bound, slices>>
flags == <<sleeping, stop, reject, stale>>
thieving == <<unscanned, loot, spinning>>
vars == <<queues, tasks, pc, cur, flags, thieving, poster, calls>>

Idle == [step |-> "idle", task |-> None, to |-> None]

NoLoot == [from |-> None, t |-> 0, n |-> 0, out |-> <<>>]

Lists == Workers \union {Pool}
Callers == Posters \union Workers

Init == /\ head = [l \in Lists |-> None] /\ tail = [l \in Lists |-> None]
        /\ next = [x \in Tasks |-> None]
        /\ top = [w \in Workers |-> 0] /\ bottom = [w \in Workers |-> 0]
        /\ slot = [w \in Workers |-> [i \in 0..(Slots - 1) |-> None]]
        /\ queued = [x \in Tasks |-> FALSE] /\ state = [x \in Tasks |-> "suspended"]
        /\ bound = [x \in Tasks |-> None] /\ slices = 0
        /\ pc = [w \in Workers |-> IF w \in Started THEN "pop" ELSE "absent"]
        /\ cur = [w \in Workers |-> None]
        /\ sleeping = [w \in Workers |-> FALSE] /\ stale = [w \in Workers |-> FALSE]
        /\ stop = [w \in Workers |-> FALSE] /\ reject = [w \in Workers |-> FALSE]
        /\ unscanned = [w \in Workers |-> {}] /\ spinning = FALSE
        /\ loot = [w \in Workers |-> NoLoot]
        /\ poster = [p \in Callers |-> Idle] /\ calls = 0

Alive(w) == pc[w] \notin {"absent", "exited"}

\* ready_mutex of w is held from the moment w means to sleep until it waits.
Locked(w) == pc[w] \in {"check", "load"}

\* A worker that wakes another for the global queue does nothing else meanwhile.
Here(w, from) == pc[w] = from /\ poster[w] = Idle

Goto(w, from, to) == Here(w, from) /\ pc' = [pc EXCEPT ![w] = to]

\* The lists link the coroutines by their one next pointer.
Enqueue(l, x) ==
    /\ IF tail[l] = None
       THEN head' = [head EXCEPT ![l] = x] /\ next' = [next EXCEPT ![x] = None]
       ELSE head' = head /\ next' = [next EXCEPT ![x] = None, ![tail[l]] = x]
    /\ tail' = [tail EXCEPT ![l] = x]

Dequeue(l) ==
    LET x == head[l] IN
        /\ x # None
        /\ head' = [head EXCEPT ![l] = next[x]]
        /\ tail' = [tail EXCEPT ![l] = IF next[x] = None THEN None ELSE @]
        /\ next' = [next EXCEPT ![x] = None]

SlotOf(w, i) == slot[w][i % Slots]

Size(w) == bottom[w] - top[w]

\* Worker w takes x out of the queues and resumes it; lm_co_resume returns at once
\* from a dead coroutine and enters any other, one that another worker runs too.
Take(w, from, x) ==
    /\ queued' = [queued EXCEPT ![x] = FALSE]
    /\ \/ /\ state[x] # "dead" /\ Goto(w, from, "run")
          /\ cur' = [cur EXCEPT ![w] = x]
          /\ state' = [state EXCEPT ![x] = "running"]
          /\ bound' = [bound EXCEPT ![x] = w]
       \/ /\ state[x] = "dead" /\ Goto(w, from, "pop")
          /\ UNCHANGED <<cur, state, bound>>

-----------------------------------------------------------------------------
(* lm_scheduler_pop_blocking.  It looks into its own queues in turn and    *)
(* takes from the first that is not empty; an empty look changes nothing   *)
(* and goes with the next one.                                             *)

\* Its own mutex queue.
Pop(w) ==
    /\ Dequeue(w) /\ Take(w, "pop", head[w])
    /\ UNCHANGED <<wsqs, slices, flags, thieving, poster, calls>>

\* Its own WSQ, newest first; a thief's batch is not in its way, only for the last one it moves top.
Own(w) ==
    /\ head[w] = None /\ Size(w) > 0
    /\ Take(w, "pop", SlotOf(w, bottom[w] - 1))
    /\ \/ Size(w) > 1 /\ bottom' = [bottom EXCEPT ![w] = @ - 1] /\ UNCHANGED top
       \/ Size(w) = 1 /\ top' = [top EXCEPT ![w] = @ + 1] /\ UNCHANGED bottom
    /\ UNCHANGED <<lists, slot, slices, flags, thieving, poster, calls>>

Push(w, x, i) == /\ slot' = [slot EXCEPT ![w][i % Slots] = x]
                 /\ bottom' = [bottom EXCEPT ![w] = i + 1] /\ UNCHANGED top

\* overflow_take_to_wsq: some of the global queue moves to the WSQ, one in a step.  It is
\* the last source, after a pop that takes bottom back to a top that thieves have moved past
\* it; but the first every LM_SCHED_DRAIN_GLOBAL_INTERVAL rounds, when such a push fails.
TakeGlobal(w) ==
    /\ Here(w, "pop") /\ Size(w) < Slots /\ Dequeue(Pool)
    /\ \/ Size(w) >= 0 /\ Push(w, head[Pool], bottom[w])
       \/ Size(w) < 0 /\ UNCHANGED wsqs
       \/ Size(w) < 0 /\ head[w] = None /\ Push(w, head[Pool], top[w])
    /\ UNCHANGED <<queued, tasks, pc, cur, flags, thieving, poster, calls>>

NothingToTake(w) ==
    /\ head[w] = None /\ Size(w) <= 0 /\ head[Pool] = None
    /\ Goto(w, "pop", "steal")
    /\ bottom' = [bottom EXCEPT ![w] = top[w]]
    /\ UNCHANGED <<lists, top, slot, queued, tasks, cur, flags, thieving, poster, calls>>

\* sched_steal: one thief at a time, the others skip it.
Steal(w) ==
    /\ \/ /\ ~spinning /\ spinning' = TRUE
          /\ unscanned' = [unscanned EXCEPT ![w] = {v \in Workers : Alive(v)} \ {w}]
          /\ Goto(w, "steal", "scan") /\ UNCHANGED loot
       \/ /\ spinning /\ UNCHANGED thieving
          /\ Goto(w, "steal", "lock")
    /\ UNCHANGED <<queues, tasks, cur, flags, poster, calls>>

\* lm_wsq_steal_batch reads top and bottom of a victim ...
Scan(w, v) ==
    /\ v \in unscanned[w]
    /\ LET half == (Size(v) + 1) \div 2
           n == IF half > Batch THEN Batch ELSE half
       IN  \/ /\ Size(v) <= 0 /\ Here(w, "scan")
              /\ unscanned' = [unscanned EXCEPT ![w] = @ \ {v}]
              /\ UNCHANGED <<pc, loot>>
           \/ /\ Size(v) > 0 /\ Goto(w, "scan", "copy")
              /\ loot' = [loot EXCEPT ![w] = [from |-> v, t |-> top[v], n |-> n, out |-> <<>>]]
              /\ UNCHANGED unscanned
    /\ UNCHANGED <<queues, tasks, cur, flags, spinning, poster, calls>>

\* ... then its slots, one by one ...
Copy(w) ==
    LET l == loot[w] IN
        /\ Goto(w, "copy", IF Len(l.out) + 1 = l.n THEN "commit" ELSE "copy")
        /\ loot' = [loot EXCEPT ![w].out = Append(@, SlotOf(l.from, l.t + Len(l.out)))]
        /\ UNCHANGED <<queues, tasks, cur, flags, unscanned, spinning, poster, calls>>

\* ... and moves top, if it is still what it was.  The thief runs the oldest of the batch
\* and puts the others into its own WSQ, where no other thief is about.
Commit(w) ==
    LET l == loot[w] IN
        /\ pc[w] = "commit" /\ top[l.from] = l.t
        /\ Take(w, "commit", l.out[1])
        /\ top' = [top EXCEPT ![l.from] = @ + l.n]
        /\ bottom' = [bottom EXCEPT ![w] = @ + l.n - 1]
        /\ slot' = [slot EXCEPT ![w] =
                      [i \in DOMAIN @ |-> IF \E k \in 2..l.n : (bottom[w] + k - 2) % Slots = i
                                          THEN l.out[CHOOSE k \in 2..l.n : (bottom[w] + k - 2) % Slots = i]
                                          ELSE @[i]]]
        /\ unscanned' = [unscanned EXCEPT ![w] = {}]
        /\ loot' = [loot EXCEPT ![w] = NoLoot] /\ spinning' = FALSE
        /\ UNCHANGED <<lists, slices, flags, poster, calls>>

\* The owner has taken its last one meanwhile: once more, or the next victim after
\* LM_WSQ_STEAL_TRIES times.
CommitFails(w) ==
    LET l == loot[w] IN
        /\ Goto(w, "commit", "scan") /\ top[l.from] # l.t
        /\ \E gone \in {{}, {l.from}} : unscanned' = [unscanned EXCEPT ![w] = @ \ gone]
        /\ loot' = [loot EXCEPT ![w] = NoLoot]
        /\ UNCHANGED <<queues, tasks, cur, flags, spinning, poster, calls>>

ScanDone(w) ==
    /\ unscanned[w] = {} /\ Goto(w, "scan", "lock")
    /\ spinning' = FALSE
    /\ UNCHANGED <<queues, tasks, cur, flags, unscanned, loot, poster, calls>>

\* Slip: sleeping is only set when the worker has found nothing.
LockUnannounced(w) ==
    /\ Goto(w, "lock", "check")
    /\ UNCHANGED <<queues, tasks, cur, flags, thieving, poster, calls>>

\* Every source was empty: sleeping is set under ready_mutex.
Lock(w) ==
    /\ Goto(w, "lock", "check")
    /\ sleeping' = [sleeping EXCEPT ![w] = TRUE]
    /\ UNCHANGED <<queues, tasks, cur, stop, reject, stale, thieving, poster, calls>>

HasReason(w) == head[w] # None \/ stop[w] \/ reject[w] \/ Size(w) > 0 \/ head[Pool] # None

\* The recheck finds a reason to stay awake, and a directed task if there is one.
StayAwake(w) ==
    /\ HasReason(w)
    /\ \/ Dequeue(w) /\ Take(w, "check", head[w])
       \/ /\ head[w] = None
          /\ Goto(w, "check", IF stop[w] THEN "stopped" ELSE "awake")
          /\ UNCHANGED <<lists, cur, queued, state, bound>>
    /\ sleeping' = [sleeping EXCEPT ![w] = FALSE]
    /\ UNCHANGED <<wsqs, slices, stop, reject, stale, thieving, poster, calls>>

FindNothing(w) ==
    /\ ~HasReason(w) /\ Goto(w, "check", "load")
    /\ UNCHANGED <<queues, tasks, cur, flags, thieving, poster, calls>>

\* expected = sleepWord, and ready_mutex is unlocked.
LoadWord(w) ==
    /\ Goto(w, "load", "wait")
    /\ UNCHANGED <<queues, tasks, cur, flags, thieving, poster, calls>>

\* lm_butex_wait sleeps unless the word has been bumped.
Wait(w) ==
    /\ \/ stale[w] /\ Goto(w, "wait", "relock")
       \/ ~stale[w] /\ Goto(w, "wait", "asleep")
    /\ stale' = [stale EXCEPT ![w] = FALSE]
    /\ UNCHANGED <<queues, tasks, cur, sleeping, stop, reject, thieving, poster, calls>>

Relock(w) ==
    /\ Goto(w, "relock", "check")
    /\ UNCHANGED <<queues, tasks, cur, flags, thieving, poster, calls>>

\* Awake without a directed task: leave the pool, or go round again.
Decide(w) ==
    /\ \/ /\ pc[w] = "stopped" \/ (pc[w] = "awake" /\ reject[w])
          /\ Size(w) <= 0 /\ head[Pool] = None
          /\ pc' = [pc EXCEPT ![w] = "exited"]
       \/ /\ \/ pc[w] = "stopped" /\ (Size(w) > 0 \/ head[Pool] # None)
             \/ pc[w] = "awake" /\ (~reject[w] \/ Size(w) > 0 \/ head[Pool] # None)
          /\ pc' = [pc EXCEPT ![w] = "pop"]
    /\ UNCHANGED <<queues, tasks, cur, flags, thieving, poster, calls>>

-----------------------------------------------------------------------------
(* compute_worker_run: what becomes of the coroutine.                      *)

Leave(w) == Goto(w, "run", "pop") /\ cur' = [cur EXCEPT ![w] = None]

Finish(w) ==
    /\ Leave(w)
    /\ state' = [state EXCEPT ![cur[w]] = "dead"]
    /\ UNCHANGED <<queues, bound, slices, flags, thieving, poster, calls>>

\* What is dead stays dead when it comes back.
Back(x) == state' = [state EXCEPT ![x] = IF @ = "dead" THEN @ ELSE "suspended"]

\* It yields and waits to be posted again.
Suspend(w) ==
    /\ Leave(w) /\ Back(cur[w])
    /\ UNCHANGED <<queues, bound, slices, flags, thieving, poster, calls>>

\* Its time slice is used up: lm_scheduler_post puts it at the end of the line,
\* unless a wake has queued it already.
SliceYield(w) ==
    LET x == cur[w] IN
        /\ Leave(w) /\ Back(x)
        /\ slices < MaxSlices
        /\ slices' = slices + 1
        /\ \/ (queued[x] \/ state[x] = "dead") /\ UNCHANGED <<queued, lists>>
           \/ ~queued[x] /\ state[x] # "dead" /\ queued' = [queued EXCEPT ![x] = TRUE] /\ Enqueue(w, x)
        /\ UNCHANGED <<wsqs, bound, flags, thieving, poster, calls>>

\* A coroutine that nobody has posted yet.
New(x) == /\ bound[x] = None /\ ~queued[x]
          /\ \A p \in Callers : poster[p].task # x
          /\ \A w \in Workers : cur[w] # x

Step(p, step, x, w) == poster' = [poster EXCEPT ![p] = [step |-> step, task |-> x, to |-> w]]

\* overflow_push: into the global queue, and then a worker is woken.
Overflow(p, x) == Enqueue(Pool, x) /\ Step(p, "spin", None, None)

\* It posts a new neutral coroutine: lm_scheduler_post_local, to the WSQ, or to the global queue
\* when top is ahead of bottom.
Spawn(w, x) ==
    /\ Here(w, "run") /\ New(x) /\ Size(w) < Slots
    /\ queued' = [queued EXCEPT ![x] = TRUE]
    /\ \/ Size(w) >= 0 /\ Push(w, x, bottom[w]) /\ UNCHANGED <<lists, poster>>
       \/ Size(w) < 0 /\ Overflow(w, x) /\ UNCHANGED wsqs
    /\ UNCHANGED <<tasks, pc, cur, flags, thieving, calls>>

-----------------------------------------------------------------------------
(* The posters.                                                            *)

Call(p) == poster[p] = Idle /\ calls < MaxCalls /\ calls' = calls + 1

\* lm_scheduler_post claims the coroutine by its CAS of queued.  A coroutine that
\* has run here is woken here, a new pinned one goes to any worker.
Post(p, x, w) ==
    /\ Call(p) /\ state[x] # "dead" /\ Alive(w)
    /\ bound[x] = w \/ New(x)
    /\ bound' = [bound EXCEPT ![x] = w]
    /\ ~queued[x] /\ queued' = [queued EXCEPT ![x] = TRUE]
    /\ next' = [next EXCEPT ![x] = None]
    /\ Step(p, "append", x, w)
    /\ UNCHANGED <<head, tail, wsqs, state, slices, pc, cur, flags, thieving>>

\* Slip: sleeping is not looked at.
PostAppendSilently(p) ==
    LET x == poster[p].task  w == poster[p].to IN
        /\ poster[p].step = "append" /\ ~Locked(w)
        /\ Enqueue(w, x)
        /\ poster' = [poster EXCEPT ![p] = Idle]
        /\ UNCHANGED <<wsqs, queued, tasks, pc, cur, flags, thieving, calls>>

\* Under ready_mutex it joins the queue and sleeping is read.
PostAppend(p) ==
    LET x == poster[p].task  w == poster[p].to IN
        /\ poster[p].step = "append" /\ ~Locked(w)
        /\ Enqueue(w, x)
        /\ \/ sleeping[w] /\ Step(p, "bump", None, w)
           \/ ~sleeping[w] /\ poster' = [poster EXCEPT ![p] = Idle]
        /\ UNCHANGED <<wsqs, queued, tasks, pc, cur, flags, thieving, calls>>

\* sched_wake_parked bumps sleepWord and then wakes.  Only a worker between its
\* load of the word and lm_butex_wait can tell.
Bump(p) ==
    LET w == poster[p].to IN
        /\ poster[p].step = "bump"
        /\ stale' = [stale EXCEPT ![w] = (pc[w] = "wait")]
        /\ poster' = [poster EXCEPT ![p].step = "wake"]
        /\ UNCHANGED <<queues, tasks, pc, cur, sleeping, stop, reject, thieving, calls>>

Wake(p) ==
    LET w == poster[p].to IN
        /\ poster[p].step = "wake"
        /\ \/ pc[w] = "asleep" /\ pc' = [pc EXCEPT ![w] = "relock"]
           \/ pc[w] # "asleep" /\ UNCHANGED pc
        /\ poster' = [poster EXCEPT ![p] = Idle]
        /\ UNCHANGED <<queues, tasks, cur, flags, thieving, calls>>

\* overflow_push, for a neutral coroutine that computeBegin sends to the pool.
PushGlobal(p, x) ==
    /\ Call(p) /\ New(x)
    /\ queued' = [queued EXCEPT ![x] = TRUE]
    /\ Overflow(p, x)
    /\ UNCHANGED <<wsqs, tasks, pc, cur, flags, thieving>>

\* overflow_wake_one leaves it to a thief that is about.
SeeSpinner(p) ==
    /\ poster[p].step = "spin"
    /\ \/ spinning /\ poster' = [poster EXCEPT ![p] = Idle]
       \/ ~spinning /\ poster' = [poster EXCEPT ![p].step = "choose"]
    /\ UNCHANGED <<queues, tasks, pc, cur, flags, thieving, calls>>

\* Under g_scheds_mutex, which a thief holds too, it looks for a sleeping worker;
\* when there is none the pool grows, if it can (lm_compute_pool_maybe_grow).
ChooseWorker(p) ==
    /\ poster[p].step = "choose"
    /\ \A w \in Workers : pc[w] \notin {"scan", "copy", "commit"}
    /\ \/ \E w \in Workers : /\ Alive(w) /\ sleeping[w]
                             /\ Step(p, "bump", None, w)
                             /\ UNCHANGED pc
       \/ /\ \A w \in Workers : ~(Alive(w) /\ sleeping[w])
          /\ poster' = [poster EXCEPT ![p] = Idle]
          /\ \/ \E w \in Workers : pc[w] = "absent" /\ pc' = [pc EXCEPT ![w] = "pop"]
             \/ (\A w \in Workers : pc[w] # "absent") /\ UNCHANGED pc
    /\ UNCHANGED <<queues, tasks, cur, flags, thieving, calls>>

\* lm_scheduler_stop sets stop and reads sleeping under ready_mutex.
Stop(p, w) ==
    /\ Call(p) /\ Alive(w) /\ ~stop[w] /\ ~Locked(w)
    /\ stop' = [stop EXCEPT ![w] = TRUE]
    /\ \/ sleeping[w] /\ Step(p, "bump", None, w)
       \/ ~sleeping[w] /\ UNCHANGED poster
    /\ UNCHANGED <<queues, tasks, pc, cur, sleeping, reject, stale, thieving>>

\* lm_compute_pool_shrink sets reject_new and bumps sleepWord without the lock;
\* one worker is kept.
Shrink(p, w) ==
    /\ Call(p) /\ Alive(w) /\ ~reject[w]
    /\ Cardinality({v \in Workers : Alive(v) /\ ~reject[v]}) > 1
    /\ reject' = [reject EXCEPT ![w] = TRUE]
    /\ Step(p, "bump", None, w)
    /\ UNCHANGED <<queues, tasks, pc, cur, sleeping, stop, stale, thieving>>

-----------------------------------------------------------------------------
WorkerStep(w) ==
    \/ Pop(w) \/ Own(w) \/ TakeGlobal(w) \/ NothingToTake(w)
    \/ Steal(w) \/ (\E v \in Workers : Scan(w, v)) \/ Copy(w) \/ Commit(w) \/ CommitFails(w) \/ ScanDone(w)
    \/ Lock(w) \/ StayAwake(w) \/ FindNothing(w) \/ LoadWord(w) \/ Wait(w) \/ Relock(w)
    \/ Decide(w) \/ Finish(w) \/ Suspend(w) \/ SliceYield(w)

PosterStep(p) == PostAppend(p) \/ Bump(p) \/ Wake(p) \/ SeeSpinner(p) \/ ChooseWorker(p)

Next == \/ \E w \in Workers : WorkerStep(w) \/ \E x \in Tasks : Spawn(w, x)
        \/ \E p \in Callers : PosterStep(p)
        \/ \E p \in Posters :
               \/ \E x \in Tasks : PushGlobal(p, x) \/ \E w \in Workers : Post(p, x, w)
               \/ \E w \in Workers : Stop(p, w) \/ Shrink(p, w)

Spec == Init /\ [][Next]_vars

\* Workers and posters are threads the kernel runs.  A coroutine gives its worker
\* back: the reduction budget sees to it.
Fairness == /\ \A w \in Workers : WF_vars(WorkerStep(w))
            /\ \A p \in Callers : WF_vars(PosterStep(p))

FairSpec == Spec /\ Fairness

-----------------------------------------------------------------------------
WorkerPcs == {"absent", "pop", "steal", "scan", "copy", "commit", "lock", "check", "load", "wait",
              "asleep", "relock", "stopped", "awake", "run", "exited"}

TaskOrNone == Tasks \union {None}

TypeOK == /\ head \in [Lists -> TaskOrNone] /\ tail \in [Lists -> TaskOrNone]
          /\ next \in [Tasks -> TaskOrNone]
          /\ top \in [Workers -> Int] /\ bottom \in [Workers -> Int]
          /\ slot \in [Workers -> [0..(Slots - 1) -> TaskOrNone]]
          /\ queued \in [Tasks -> BOOLEAN]
          /\ state \in [Tasks -> {"suspended", "running", "dead"}]
          /\ bound \in [Tasks -> Workers \union {None}]
          /\ pc \in [Workers -> WorkerPcs] /\ cur \in [Workers -> TaskOrNone]
          /\ sleeping \in [Workers -> BOOLEAN] /\ stop \in [Workers -> BOOLEAN]
          /\ reject \in [Workers -> BOOLEAN] /\ stale \in [Workers -> BOOLEAN]
          /\ poster \in [Callers -> [step : {"idle", "append", "bump", "wake", "spin", "choose"},
                                     task : TaskOrNone, to : Workers \union {None}]]

Coming(w) == \E p \in Callers : poster[p].to = w /\ poster[p].step \in {"bump", "wake"}

\* A worker does not sleep on a coroutine posted to it, nor on its stop: whoever
\* posted has seen it sleeping and is about to wake it (lm_scheduler.c:713-720).
NoStrandedPost ==
    \A w \in Workers : pc[w] = "asleep" /\ (head[w] # None \/ stop[w]) => Coming(w)

\* "Two threads resuming one stack" is the disaster that lm_scheduler_post guards against
\* (lm_scheduler.c:336-339): no coroutine is in the hands of two workers.
OneRunner == \A v, w \in Workers : v # w /\ cur[v] # None => cur[v] # cur[w]

\* "All sources are rechecked" before the sleep (lm_scheduler.c:615): while the
\* global queue holds work some worker of the pool is up, or a poster is about to wake one.
NoStrandedGlobal ==
    head[Pool] # None /\ (\E w \in Workers : Alive(w)) =>
                     \/ \E w \in Workers : Alive(w) /\ pc[w] # "asleep"
                     \/ \E p \in Callers : poster[p].step \in {"spin", "choose", "bump", "wake"}

\* A worker leaves the pool "after draining its queues" (lm_scheduler.c:678-679).
ExitDrained == \A w \in Workers : pc[w] = "exited" => head[w] = None

\* What is posted to a worker has been taken, unless the worker has left, and who has been
\* told to stop has left.
Settled == /\ \A x \in Tasks : queued[x] /\ bound[x] # None => pc[bound[x]] = "exited"
           /\ \A w \in Workers : stop[w] => pc[w] = "exited"

\* A coroutine posted to a worker is taken by it in the end, if the worker does not leave
\* before (ExitDrained), and a stopped worker leaves: every post and stop comes to rest,
\* through sleep, steal, growth and shrink (lm_scheduler.c:357, 701-720).
PostedRuns == []<>Settled
=============================================================================
