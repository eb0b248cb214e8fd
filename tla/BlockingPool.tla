---------------------------- MODULE BlockingPool ----------------------------
(***************************************************************************)
(* The pool of threads that run blocking calls (lm_blocking_pool.c), with  *)
(* the two waits that stand on it: lm_co_await_blocking, and the name      *)
(* lookup of lm_socket.c, whose answer and timeout compete to wake the     *)
(* coroutine.  Threads come when a submit sees none idle and leave after   *)
(* ten idle seconds; the counts n and idle are read and written without    *)
(* the queue's mutex.                                                      *)
(***************************************************************************)
EXTENDS Naturals, Integers, Sequences, FiniteSets

CONSTANTS Coroutines, Workers, None,
          MaxWorkers,    \* LM_BLOCKING_MAX
          MinWorkers,    \* LM_BLOCKING_MIN
          MaxTasks       \* bound: tasks submitted in a behaviour

ASSUME PoolAssumption ==
    /\ None \notin Nat \union Coroutines
    /\ MinWorkers \in Nat \ {0} /\ MaxWorkers \in Nat /\ MinWorkers <= MaxWorkers /\ MaxTasks \in Nat

Tasks == 1 .. MaxTasks
Kinds == {"await", "lookup"}

VARIABLES queue,            \* head .. tail
          listed,           \* g_running: how many of its entries name a coroutine
          n, idle, word,    \* n, idle, sleepWord
          at, task, seen,   \* a worker's place, its task, the word it has read
          pc, cur,          \* a coroutine's place and its last task
          ctx,              \* a task's context
          ready,            \* coroutines posted to their scheduler
          owner             \* whoever made the scheduler still holds it

pool == <<queue, listed, n, idle, word>>
workers == <<at, task, seen>>
cos == <<pc, cur>>
vars == <<pool, workers, cos, ctx, ready, owner>>

\* st: 0 open, 1 answered, 2 timed out.  holds: the scheduler is retained for it.
NoCtx == [co |-> None, kind |-> None, st |-> 0, refs |-> 0, timer |-> "none", holds |-> FALSE]

Init == /\ queue = <<>> /\ listed = [c \in Coroutines |-> 0]
        /\ n = 0 /\ idle = 0 /\ word = 0
        /\ at = [w \in Workers |-> "none"] /\ task = [w \in Workers |-> None]
        /\ seen = [w \in Workers |-> 0]
        /\ pc = [c \in Coroutines |-> "runs"] /\ cur = [c \in Coroutines |-> None]
        /\ ctx = [t \in Tasks |-> NoCtx]
        /\ ready = {} /\ owner = TRUE

Go(w, place) == at' = [at EXCEPT ![w] = place]
Co(w) == ctx[task[w]].co
Submitted == {t \in Tasks : ctx[t].co # None}

-----------------------------------------------------------------------------
(* A coroutine submits a task and yields                                   *)

\* The references of a lookup: its answer, its coroutine and its timer.  The context
\* of an await is the coroutine's alone.
NewCtx(c, kind) == [co |-> c, kind |-> kind, st |-> 0, refs |-> IF kind = "lookup" THEN 3 ELSE 1,
                    timer |-> "none", holds |-> TRUE]

Submit(c, kind) ==
    LET t == Cardinality(Submitted) + 1 IN
        /\ pc[c] = "runs" /\ owner /\ t <= MaxTasks
        /\ ctx' = [ctx EXCEPT ![t] = NewCtx(c, kind)]
        /\ queue' = Append(queue, t)
        /\ cur' = [cur EXCEPT ![c] = t] /\ pc' = [pc EXCEPT ![c] = "look"]
        /\ UNCHANGED <<listed, n, idle, word, workers, ready, owner>>

\* An idle thread is woken, or a thread is made.
Look(c) == /\ pc[c] = "look"
           /\ pc' = [pc EXCEPT ![c] = IF idle > 0 THEN "bump" ELSE "make"]
           /\ UNCHANGED <<pool, workers, cur, ctx, ready, owner>>

Bump(c) == /\ pc[c] = "bump" /\ word' = word + 1
           /\ pc' = [pc EXCEPT ![c] = "wake"]
           /\ UNCHANGED <<queue, listed, n, idle, workers, cur, ctx, ready, owner>>

Wake(c) ==
    /\ pc[c] = "wake" /\ pc' = [pc EXCEPT ![c] = "yield"]
    /\ \/ \E w \in Workers : at[w] = "asleep" /\ Go(w, "pop")
       \/ (\A w \in Workers : at[w] # "asleep") /\ UNCHANGED at
    /\ UNCHANGED <<pool, task, seen, cur, ctx, ready, owner>>

\* n counts a thread once it runs, and idle counts it once it has been made.
Make(c) ==
    /\ pc[c] = "make"
    /\ \/ n < MaxWorkers /\ \E w \in Workers : at[w] = "none" /\ Go(w, "start")
          /\ pc' = [pc EXCEPT ![c] = "made"]
       \/ (n >= MaxWorkers \/ \A w \in Workers : at[w] # "none")
          /\ pc' = [pc EXCEPT ![c] = "yield"] /\ UNCHANGED at
    /\ UNCHANGED <<pool, task, seen, cur, ctx, ready, owner>>

Made(c) == /\ pc[c] = "made" /\ idle' = idle + 1
           /\ pc' = [pc EXCEPT ![c] = "yield"]
           /\ UNCHANGED <<queue, listed, n, word, workers, cur, ctx, ready, owner>>

\* The lookup arms its timer last.
Yield(c) ==
    /\ pc[c] = "yield" /\ pc' = [pc EXCEPT ![c] = "waits"]
    /\ ctx' = IF ctx[cur[c]].kind = "lookup" THEN [ctx EXCEPT ![cur[c]].timer = "armed"] ELSE ctx
    /\ UNCHANGED <<pool, workers, cur, ready, owner>>

\* Resumed by its scheduler's thread, it reads the result and gives back what it
\* holds: the reference to the scheduler is its own for a lookup, the pool's for an
\* await.
Resume(c) ==
    /\ owner /\ c \in ready /\ pc[c] = "waits"
    /\ ready' = ready \ {c} /\ pc' = [pc EXCEPT ![c] = "runs"]
    /\ ctx' = [ctx EXCEPT ![cur[c]].refs = @ - 1, ![cur[c]].holds = @ /\ ctx[cur[c]].kind = "await"]
    /\ UNCHANGED <<pool, workers, cur, owner>>

\* The loop has ended and the program destroys its scheduler.
Destroy == /\ owner /\ owner' = FALSE
           /\ \A c \in Coroutines : pc[c] \in {"runs", "waits"}
           /\ UNCHANGED <<pool, workers, cos, ctx, ready>>

-----------------------------------------------------------------------------
(* A thread of the pool                                                    *)

Start(w) == /\ at[w] = "start" /\ n' = n + 1 /\ Go(w, "pop")
            /\ UNCHANGED <<queue, listed, idle, word, task, seen, cos, ctx, ready, owner>>

\* Slip: the task is entered in the books only after the mutex has been released.
PopUnlisted(w) ==
    /\ at[w] = "pop"
    /\ IF queue = <<>> THEN Go(w, "load") /\ UNCHANGED <<queue, task>>
       ELSE /\ task' = [task EXCEPT ![w] = Head(queue)] /\ queue' = Tail(queue)
            /\ Go(w, "count")
    /\ UNCHANGED <<listed, n, idle, word, seen, cos, ctx, ready, owner>>

\* pool_pop_task: out of the queue and into the books under one mutex.
Pop(w) ==
    /\ at[w] = "pop"
    /\ IF queue = <<>> THEN Go(w, "load") /\ UNCHANGED <<queue, listed, task>>
       ELSE /\ task' = [task EXCEPT ![w] = Head(queue)] /\ queue' = Tail(queue)
            /\ listed' = [listed EXCEPT ![ctx[Head(queue)].co] = @ + 1]
            /\ Go(w, "count")
    /\ UNCHANGED <<n, idle, word, seen, cos, ctx, ready, owner>>

\* It is busy; the blocking call may take as long as it likes.
Count(w) == /\ at[w] = "count" /\ idle' = idle - 1 /\ Go(w, "call")
            /\ UNCHANGED <<queue, listed, n, word, task, seen, cos, ctx, ready, owner>>

\* Slip: an answer wakes the coroutine whether or not the timeout has.
AnswerAnyway(w) ==
    /\ at[w] = "call" /\ Go(w, "post")
    /\ ctx' = [ctx EXCEPT ![task[w]].st = 1]
    /\ UNCHANGED <<pool, task, seen, cos, ready, owner>>

\* blocking_await_done; dns_co_done, which first claims the wait.
Answer(w) ==
    LET t == task[w] IN
    /\ at[w] = "call"
    /\ Go(w, IF ctx[t].st = 0 THEN "post" ELSE "drop")
    /\ ctx' = IF ctx[t].st = 0 THEN [ctx EXCEPT ![t].st = 1] ELSE ctx
    /\ UNCHANGED <<pool, task, seen, cos, ready, owner>>

\* Slip: the reference to the scheduler is given back with the post.
PostAndRelease(w) == /\ at[w] = "post" /\ ready' = ready \union {Co(w)} /\ Go(w, "notify")
                     /\ ctx' = [ctx EXCEPT ![task[w]].holds = FALSE]
                     /\ UNCHANGED <<pool, task, seen, cos, owner>>

\* lm_scheduler_wakeup posts, then looks into the scheduler for its reactor.
Post(w) == /\ at[w] = "post" /\ ready' = ready \union {Co(w)} /\ Go(w, "notify")
           /\ UNCHANGED <<pool, task, seen, cos, ctx, owner>>

Notify(w) == /\ at[w] = "notify" /\ Go(w, "drop")
             /\ UNCHANGED <<pool, task, seen, cos, ctx, ready, owner>>

\* The answer's own reference: the scheduler's for an await, the context's for a lookup.
Drop(w) ==
    LET t == task[w] IN
    /\ at[w] = "drop" /\ Go(w, "unlist")
    /\ ctx' = IF ctx[t].kind = "await" THEN [ctx EXCEPT ![t].holds = FALSE]
              ELSE [ctx EXCEPT ![t].refs = @ - 1]
    /\ UNCHANGED <<pool, task, seen, cos, ready, owner>>

\* running_del: one of the entries that name the coroutine.
Unlist(w) == /\ at[w] = "unlist" /\ Go(w, "rest")
             /\ listed' = [listed EXCEPT ![Co(w)] = @ - 1]
             /\ UNCHANGED <<queue, n, idle, word, task, seen, cos, ctx, ready, owner>>

Rest(w) == /\ at[w] = "rest" /\ idle' = idle + 1 /\ Go(w, "pop")
           /\ task' = [task EXCEPT ![w] = None]
           /\ UNCHANGED <<queue, listed, n, word, seen, cos, ctx, ready, owner>>

\* The word is read only after the queue was found empty.
Load(w) == /\ at[w] = "load" /\ seen' = [seen EXCEPT ![w] = word] /\ Go(w, "park")
           /\ UNCHANGED <<pool, task, cos, ctx, ready, owner>>

\* lm_futex_wait says "not woken" also when the word has changed already.
Park(w) == /\ at[w] = "park" /\ Go(w, IF seen[w] = word THEN "asleep" ELSE "late")
           /\ seen' = [seen EXCEPT ![w] = 0]
           /\ UNCHANGED <<pool, task, cos, ctx, ready, owner>>

TimeOut(w) == /\ at[w] = "asleep" /\ Go(w, "late")
              /\ UNCHANGED <<pool, task, seen, cos, ctx, ready, owner>>

\* Slip: a thread that stays sleeps again without a look at the queue.
LateSleeps(w) == /\ at[w] = "late" /\ Go(w, IF n > MinWorkers THEN "leave" ELSE "load")
                 /\ UNCHANGED <<pool, task, seen, cos, ctx, ready, owner>>

\* Not woken: a thread above the minimum leaves, without another look at the queue.
Late(w) == /\ at[w] = "late" /\ Go(w, IF n > MinWorkers THEN "leave" ELSE "pop")
           /\ UNCHANGED <<pool, task, seen, cos, ctx, ready, owner>>

Leave(w) == /\ at[w] = "leave" /\ idle' = idle - 1 /\ Go(w, "left")
            /\ UNCHANGED <<queue, listed, n, word, task, seen, cos, ctx, ready, owner>>

Left(w) == /\ at[w] = "left" /\ n' = n - 1 /\ Go(w, "none")
           /\ UNCHANGED <<queue, listed, idle, word, task, seen, cos, ctx, ready, owner>>

-----------------------------------------------------------------------------
(* dns_co_timeout on the timer thread                                      *)

Timer(t, from, to) == ctx[t].timer = from /\ ctx' = [ctx EXCEPT ![t].timer = to]

Expire(t) ==
    /\ ctx[t].timer = "armed"
    /\ ctx' = [ctx EXCEPT ![t].timer = IF ctx[t].st = 0 THEN "post" ELSE "drop",
                          ![t].st = IF @ = 0 THEN 2 ELSE @]
    /\ UNCHANGED <<pool, workers, cos, ready, owner>>

ExpirePost(t) == /\ Timer(t, "post", "notify") /\ ready' = ready \union {ctx[t].co}
                 /\ UNCHANGED <<pool, workers, cos, owner>>

ExpireNotify(t) == /\ Timer(t, "notify", "drop")
                   /\ UNCHANGED <<pool, workers, cos, ready, owner>>

ExpireDrop(t) == /\ ctx[t].timer = "drop"
                 /\ ctx' = [ctx EXCEPT ![t].timer = "over", ![t].refs = @ - 1]
                 /\ UNCHANGED <<pool, workers, cos, ready, owner>>

-----------------------------------------------------------------------------
Submits(c) == Look(c) \/ Bump(c) \/ Wake(c) \/ Make(c) \/ Made(c) \/ Yield(c)

Works(w) ==
    \/ Start(w) \/ Pop(w) \/ Count(w) \/ Answer(w) \/ Post(w) \/ Notify(w) \/ Drop(w)
    \/ Unlist(w) \/ Rest(w) \/ Load(w) \/ Park(w) \/ Late(w) \/ Leave(w) \/ Left(w)

Expires(t) == ExpirePost(t) \/ ExpireNotify(t) \/ ExpireDrop(t)

Next == \/ \E c \in Coroutines : Submits(c) \/ Resume(c) \/ \E k \in Kinds : Submit(c, k)
        \/ \E w \in Workers : Works(w) \/ TimeOut(w)
        \/ \E t \in Tasks : Expire(t) \/ Expires(t)
        \/ Destroy

Spec == Init /\ [][Next]_vars

\* Threads that run go on, blocking calls end, and a sleep in the pool ends after ten
\* seconds.
FairSpec == /\ Spec
            /\ \A c \in Coroutines : WF_vars(Submits(c))
            /\ \A w \in Workers : WF_vars(Works(w)) /\ WF_vars(TimeOut(w))

-----------------------------------------------------------------------------
TypeOK ==
    /\ queue \in Seq(Tasks) /\ listed \in [Coroutines -> Nat]
    /\ n \in Nat /\ idle \in Int /\ word \in Nat
    /\ task \in [Workers -> Tasks \union {None}] /\ seen \in [Workers -> Nat]
    /\ cur \in [Coroutines -> Tasks \union {None}] /\ ready \subseteq Coroutines /\ owner \in BOOLEAN

InQueue(c) == \E i \in DOMAIN queue : ctx[queue[i]].co = c

\* A coroutine that awaits a blocking call is in the pool's books, queue or g_running,
\* until it has been posted: what sysmon asks before it calls the coroutine stuck
\* (lm_blocking_pool_task_pending) is never answered wrongly in between.
InBooks == \A c \in Coroutines :
    pc[c] = "waits" /\ ctx[cur[c]].kind = "await" /\ c \notin ready =>
        InQueue(c) \/ listed[c] > 0

\* A posted coroutine is in the wait the post is for: an answer that comes after the
\* timeout, or a timeout after the answer, wakes neither twice nor the next wait.
WakesItsOwnWait == \A c \in ready :
    /\ pc[c] # "runs" /\ (ctx[cur[c]].st # 0)
    /\ \A w \in Workers : at[w] = "post" => Co(w) # c
    /\ \A t \in Tasks : ctx[t].timer = "post" => ctx[t].co # c

SchedulerFreed == ~owner /\ \A t \in Tasks : ~ctx[t].holds

\* The pool never looks into a scheduler that has been freed, nor into the context of
\* a lookup that has been given back by all its holders.
NothingFreedUsed ==
    /\ \A w \in Workers : at[w] \in {"post", "notify"} /\ ctx[task[w]].kind = "await" => ~SchedulerFreed
    /\ \A t \in Tasks : ctx[t].timer \in {"post", "notify", "drop"} => ctx[t].refs > 0
    /\ \A w \in Workers : at[w] = "drop" /\ ctx[task[w]].kind = "lookup" => ctx[task[w]].refs > 0

\* The same for the scheduler of a lookup.
LookupKeepsScheduler ==
    \A w \in Workers : at[w] = "notify" /\ ctx[task[w]].kind = "lookup" => ~SchedulerFreed

\* A task is not left in the queue by a pool that still has a thread: the bump of a submit may
\* fall between a thread's look at the queue and its load of the word (lm_blocking_pool.c:111),
\* and the thread sleeps on the task, but not for ever; nor do threads that leave take the last
\* look with them while others stay.
TakenIfAnyStays == \A t \in Tasks :
    <>[](\E i \in DOMAIN queue : queue[i] = t) => <>[](\A w \in Workers : at[w] = "none")

\* "min = 1, one thread is always resident" (lm_blocking_pool.h:10): when every submit has seen
\* to its task, a task in the queue has a thread of the pool to take it.
OneStays == queue # <<>> /\ (\A c \in Coroutines : pc[c] \in {"yield", "waits", "runs"}) =>
    \E w \in Workers : at[w] # "none"
=============================================================================
