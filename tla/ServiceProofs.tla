--------------------------- MODULE ServiceProofs ---------------------------
(***************************************************************************)
(* The threads that serve coroutines.                                      *)
(*                                                                         *)
(* The pool of BlockingPool.tla keeps its books, wakes each wait once and  *)
(* uses nothing that has been freed, for any coroutines, threads and       *)
(* number of tasks, whichever way answers and timeouts fall.               *)
(*                                                                         *)
(* The timer thread of Timer.tla keeps each task in one place, sleeps no   *)
(* longer than the earliest timer and keeps the promise of TimerSpec.tla,  *)
(* for any tasks, callers, buckets and times.                              *)
(***************************************************************************)
EXTENDS BlockingPool, Timer, FiniteSetTheorems, WellFoundedInduction, TLAPS

(***************************************************************************)
(* The blocking pool                                                       *)
(***************************************************************************)

Submitting == {"look", "bump", "wake", "make", "made", "yield"}
Unanswered == {"count", "call"}
Owing == Unanswered \union {"post", "notify", "drop"}    \* the answer's reference is not given back
Entered == Owing \union {"unlist"}                       \* in g_running
Holding == Entered \union {"rest"}                       \* has a task
Free == {"none", "start", "pop", "load", "park", "asleep", "late", "leave", "left"}

Contexts == [co : Coroutines \union {None}, kind : Kinds \union {None}, st : 0..2, refs : Int,
             timer : {"none", "armed", "post", "notify", "drop", "over"}, holds : BOOLEAN]

Typed == /\ queue \in Seq(Tasks) /\ listed \in [Coroutines -> Int]
         /\ at \in [Workers -> Holding \union Free] /\ task \in [Workers -> Tasks \union {None}]
         /\ pc \in [Coroutines -> {"runs", "waits"} \union Submitting]
         /\ cur \in [Coroutines -> Tasks \union {None}]
         /\ ctx \in [Tasks -> Contexts] /\ ready \subseteq Coroutines

\* Tasks are numbered in the order in which they come.
Numbered == \E m \in Nat : Submitted = 1..m

Queued == {queue[i] : i \in 1..Len(queue)}

HeldBy(w, t, places) == task[w] = t /\ at[w] \in places
Held(t, places) == \E w \in Workers : HeldBy(w, t, places)

\* A task is in the queue once, or with one thread, or over.
TaskInv ==
    /\ \A i, j \in 1..Len(queue) : queue[i] = queue[j] => i = j
    /\ \A t \in Queued : ctx[t].co # None /\ ~Held(t, Holding)
    /\ \A w \in Workers : at[w] \in Holding => task[w] \in Tasks /\ Co(w) # None
    /\ \A v, w \in Workers : at[v] \in Holding /\ at[w] \in Holding /\ task[v] = task[w] => v = w

\* The coroutine is in the wait for t, and in it without having been posted.
In(t) == pc[ctx[t].co] # "runs" /\ cur[ctx[t].co] = t
Awaits(t) == In(t) /\ ctx[t].co \notin ready

CoInv == \A c \in Coroutines :
    /\ pc[c] # "runs" => cur[c] \in Tasks /\ ctx[cur[c]].co = c
    /\ pc[c] \in Submitting => ctx[cur[c]].timer = "none"
    /\ c \in ready => pc[c] # "runs"

\* Whoever is about to post a coroutine has claimed its wait, and nobody posts it after.
WaitInv == \A t \in Submitted :
    /\ ctx[t].kind \in Kinds
    /\ ~Awaits(t) => ctx[t].st # 0
    /\ ctx[t].timer = "post" => ctx[t].st = 2 /\ Awaits(t)
    /\ \A w \in Workers : HeldBy(w, t, {"post"}) => ctx[t].st = 1 /\ Awaits(t)

Owed(t) == t \in Queued \/ Held(t, Owing)

\* An await has no timer; its scheduler is held until the answer has been posted.
AwaitInv == \A t \in Submitted : ctx[t].kind = "await" =>
    /\ ctx[t].timer = "none"
    /\ Owed(t) => ctx[t].holds
    /\ t \in Queued \/ Held(t, Unanswered) => ctx[t].st = 0
    /\ Awaits(t) => t \in Queued \/ Held(t, Unanswered \union {"post"})

One(b) == IF b THEN 1 ELSE 0

\* The references of a lookup are those of its answer, its coroutine and its timer.
LookupInv == \A t \in Tasks :
    /\ ctx[t].timer # "none" => ctx[t].co # None /\ ctx[t].kind = "lookup"
    /\ ctx[t].co # None /\ ctx[t].kind = "lookup" =>
           ctx[t].refs = One(Owed(t)) + One(In(t)) + One(ctx[t].timer # "over")

Entries(c) == {t \in Tasks : ctx[t].co = c /\ Held(t, Entered)}

\* g_running has an entry for every task between its pop and the end of its answer.
BookInv == \A c \in Coroutines : listed[c] = Cardinality(Entries(c))

PoolInv == Typed /\ Numbered /\ TaskInv /\ CoInv /\ WaitInv /\ AwaitInv /\ LookupInv /\ BookInv

-----------------------------------------------------------------------------
(* The start, and steps that move no task                                  *)

\* At the start there is no task.
LEMMA PoolInit == Init => PoolInv
<1> SUFFICES ASSUME Init PROVE PoolInv
  OBVIOUS
<1>1. Typed
  BY PoolAssumption DEF Init, Typed, NoCtx, Contexts, Holding, Free
<1>2. Submitted = {} /\ Queued = {} /\ \A w \in Workers : at[w] \notin Holding
  BY DEF Init, NoCtx, Submitted, Queued, Holding, Entered, Owing, Unanswered
<1>3. Numbered
  <2>1. Submitted = 1..0
    BY <1>2
  <2>. QED
    BY <2>1 DEF Numbered
<1>4. TaskInv
  BY <1>2 DEF Init, TaskInv
<1>5. CoInv /\ WaitInv /\ AwaitInv
  BY <1>2 DEF Init, CoInv, WaitInv, AwaitInv, Submitting
<1>6. LookupInv
  BY DEF Init, LookupInv, NoCtx
<1>7. BookInv
  <2>1. ASSUME NEW c \in Coroutines PROVE Entries(c) = {}
    BY <1>2 DEF Entries, Held, HeldBy, Holding
  <2>. QED
    BY <2>1, FS_EmptySet DEF BookInv, Init
<1>. QED
  BY <1>1, <1>3, <1>4, <1>5, <1>6, <1>7 DEF PoolInv

\* Who is submitted, and the numbers, only a submit changes.
LEMMA SameTasks ==
  ASSUME Numbered, \A t \in Tasks : ctx'[t].co = ctx[t].co
  PROVE  Submitted' = Submitted /\ Numbered'
BY DEF Submitted, Numbered

\* Threads without a task, coroutines on their way into the wait, and steps within the call or
\* behind the post move no task.
LEMMA QuietStep ==
  ASSUME PoolInv, Typed',
         UNCHANGED <<queue, listed, task, cur, ctx, ready>>,
         \A w \in Workers : \/ at'[w] = at[w]
                            \/ at[w] \in Free /\ at'[w] \in Free
                            \/ at[w] \in Unanswered /\ at'[w] \in Unanswered
                            \/ at[w] = "notify" /\ at'[w] = "drop",
         \A c \in Coroutines : pc'[c] = pc[c] \/ (pc[c] \in Submitting /\ pc'[c] \in Submitting)
  PROVE  PoolInv'
<1> DEFINE Told == {Holding, Entered, Owing, Unanswered, Unanswered \union {"post"}, {"post"}}
<1>1. \A w \in Workers, P \in Told : at'[w] \in P <=> at[w] \in P
  BY DEF Holding, Entered, Owing, Unanswered, Free
<1>2. \A t \in Tasks, w \in Workers, P \in Told : HeldBy(w, t, P)' <=> HeldBy(w, t, P)
  BY <1>1 DEF HeldBy
<1>3. \A t \in Tasks, P \in Told : Held(t, P)' <=> Held(t, P)
  BY <1>2 DEF Held
<1>4. \A t \in Submitted : (In(t)' <=> In(t)) /\ (Awaits(t)' <=> Awaits(t))
  BY DEF PoolInv, Typed, Contexts, In, Awaits, Submitting, Submitted
<1>5. Queued' = Queued /\ Submitted' = Submitted /\ Numbered'
  BY DEF PoolInv, Queued, Submitted, Numbered
<1>6. \A t \in Tasks : (Owed(t)' <=> Owed(t))
  BY <1>3, <1>5 DEF Owed
<1>7. TaskInv'
  <2>1. \A w \in Workers : at'[w] \in Holding <=> at[w] \in Holding
    BY <1>1
  <2>2. \A t \in Queued : t \in Tasks
    BY DEF PoolInv, Typed, Queued
  <2>3. \A t \in Queued : ~Held(t, Holding)'
    BY <1>3, <2>2 DEF PoolInv, TaskInv
  <2>. QED
    BY <1>5, <2>1, <2>3 DEF PoolInv, TaskInv, Co
<1>8. CoInv'
  BY DEF PoolInv, CoInv, Submitting
<1>9. WaitInv'
  <2>1. \A t \in Tasks, w \in Workers : HeldBy(w, t, {"post"})' <=> HeldBy(w, t, {"post"})
    BY <1>2
  <2>. QED
    BY <1>4, <1>5, <2>1 DEF PoolInv, WaitInv, Submitted
<1>10. AwaitInv'
  <2>1. \A t \in Tasks : /\ Held(t, Unanswered)' <=> Held(t, Unanswered)
                         /\ Held(t, Unanswered \union {"post"})' <=> Held(t, Unanswered \union {"post"})
    BY <1>3
  <2>. QED
    BY <1>4, <1>5, <1>6, <2>1 DEF PoolInv, AwaitInv, Submitted
<1>11. LookupInv'
  BY <1>4, <1>6 DEF PoolInv, LookupInv, Submitted, One
<1>12. BookInv'
  <2>1. \A c \in Coroutines : Entries(c)' = Entries(c)
    BY <1>3 DEF Entries
  <2>. QED
    BY <2>1 DEF PoolInv, BookInv
<1>. QED
  BY <1>5, <1>7, <1>8, <1>9, <1>10, <1>11, <1>12 DEF PoolInv

-----------------------------------------------------------------------------
(* Types                                                                   *)

\* A thread that has a task has one that was submitted.
LEMMA HeldTask ==
  ASSUME PoolInv, NEW w \in Workers, at[w] \in Holding
  PROVE  task[w] \in Tasks /\ task[w] \in Submitted /\ Co(w) \in Coroutines /\ ctx[task[w]] \in Contexts
BY DEF PoolInv, Typed, TaskInv, Co, Contexts, Submitted

\* A coroutine that does not run has a task.
LEMMA CurTask ==
  ASSUME PoolInv, NEW c \in Coroutines, pc[c] # "runs"
  PROVE  cur[c] \in Tasks /\ cur[c] \in Submitted /\ ctx[cur[c]].co = c /\ ctx[cur[c]] \in Contexts
BY PoolAssumption DEF PoolInv, Typed, CoInv, Submitted

\* The task of a submit is a new one.
LEMMA NewTask ==
  ASSUME PoolInv, Cardinality(Submitted) + 1 <= MaxTasks
  PROVE  /\ Cardinality(Submitted) + 1 \in Tasks \ Submitted
         /\ Submitted \union {Cardinality(Submitted) + 1} = 1..(Cardinality(Submitted) + 1)
<1>1. PICK m \in Nat : Submitted = 1..m
  BY DEF PoolInv, Numbered
<1>2. Cardinality(Submitted) = m
  BY <1>1, FS_Interval
<1>. QED
  BY <1>1, <1>2, PoolAssumption DEF Tasks

LEMMA ContextTypes ==
  ASSUME ctx \in [Tasks -> Contexts], NEW t \in Tasks
  PROVE  /\ [ctx EXCEPT ![t].st = 1] \in [Tasks -> Contexts]
         /\ [ctx EXCEPT ![t].holds = FALSE] \in [Tasks -> Contexts]
         /\ [ctx EXCEPT ![t].refs = @ - 1] \in [Tasks -> Contexts]
         /\ \A p \in {"armed", "notify", "drop"} : [ctx EXCEPT ![t].timer = p] \in [Tasks -> Contexts]
<1>1. [ctx EXCEPT ![t].st = 1] \in [Tasks -> Contexts]
  BY DEF Contexts
<1>2. [ctx EXCEPT ![t].holds = FALSE] \in [Tasks -> Contexts]
  BY DEF Contexts
<1>3. [ctx EXCEPT ![t].refs = @ - 1] \in [Tasks -> Contexts]
  BY DEF Contexts
<1>4. \A p \in {"armed", "notify", "drop"} : [ctx EXCEPT ![t].timer = p] \in [Tasks -> Contexts]
  BY DEF Contexts
<1>. QED
  BY <1>1, <1>2, <1>3, <1>4

LEMMA TypedCoroutine ==
  ASSUME PoolInv, NEW c \in Coroutines, Submits(c) \/ Resume(c) \/ \E k \in Kinds : Submit(c, k)
  PROVE  Typed'
<1>. Typed
  BY DEF PoolInv
<1> USE DEF cos, workers, pool
<1>1. ASSUME NEW k \in Kinds, Submit(c, k) PROVE Typed'
  <2> DEFINE t == Cardinality(Submitted) + 1
  <2>1. t \in Tasks
    BY <1>1, NewTask DEF Submit
  <2>2. NewCtx(c, k) \in Contexts
    BY DEF NewCtx, Contexts
  <2>. QED
    BY <2>1, <2>2, <1>1 DEF Submit, Typed, Submitting
<1>2. CASE Resume(c)
  <2> DEFINE t == cur[c]
             r == [ctx[t] EXCEPT !.refs = @ - 1]
             s == [r EXCEPT !.holds = @ /\ ctx[t].kind = "await"]
  <2>1. t \in Tasks /\ ctx[t] \in Contexts
    BY <1>2, CurTask DEF Resume
  <2>2. s \in Contexts
    <3>1. r \in Contexts
      BY <2>1 DEF Contexts
    <3>. HIDE DEF r
    <3>. QED
      BY <3>1 DEF Contexts
  <2>3. ctx' = [ctx EXCEPT ![t] = s]
    BY <1>2, <2>1 DEF Resume, Typed, Contexts
  <2>. HIDE DEF t, s
  <2>4. ctx' \in [Tasks -> Contexts]
    BY <2>1, <2>2, <2>3 DEF Typed
  <2>. QED
    BY <1>2, <2>4 DEF Resume, Typed
<1>3. CASE Yield(c)
  <2>1. cur[c] \in Tasks
    BY <1>3, CurTask DEF Yield
  <2>2. [ctx EXCEPT ![cur[c]].timer = "armed"] \in [Tasks -> Contexts]
    BY <2>1, ContextTypes DEF Typed
  <2>. QED
    BY <1>3, <2>2 DEF Yield, Typed
<1>4. CASE Look(c) \/ Bump(c) \/ Made(c)
  BY <1>4 DEF Look, Bump, Made, Typed, Submitting
<1>5. CASE Wake(c)
  BY <1>5 DEF Wake, Typed, Submitting, Free, Go
<1>6. CASE Make(c)
  BY <1>6 DEF Make, Typed, Submitting, Free, Go
<1>. QED
  BY <1>1, <1>2, <1>3, <1>4, <1>5, <1>6 DEF Submits

LEMMA TypedWorker ==
  ASSUME PoolInv, NEW w \in Workers, Works(w) \/ TimeOut(w)
  PROVE  Typed'
<1>. Typed
  BY DEF PoolInv
<1> USE DEF cos, workers, pool
<1> DEFINE t == task[w]
<1>1. CASE Start(w) \/ Count(w) \/ Notify(w) \/ Rest(w)
  BY <1>1 DEF Start, Count, Notify, Rest, Typed, Go, Holding, Entered, Owing, Unanswered, Free
<1>2. CASE Load(w) \/ Park(w) \/ Late(w) \/ Leave(w) \/ Left(w) \/ TimeOut(w)
  BY <1>2 DEF Load, Park, Late, Leave, Left, TimeOut, Typed, Go, Free
<1>3. CASE Pop(w) /\ queue = <<>>
  BY <1>3 DEF Pop, Typed, Go, Free
<1>4. CASE Pop(w) /\ queue # <<>>
  <2>1. Head(queue) \in Tasks /\ Tail(queue) \in Seq(Tasks)
    BY <1>4 DEF Typed
  <2>2. ctx[Head(queue)].co \in Coroutines
    <3>1. Head(queue) \in Queued
      BY <1>4 DEF Typed, Queued
    <3>. QED
      BY <2>1, <3>1 DEF PoolInv, TaskInv, Typed, Contexts
  <2>. QED
    <3>1. listed' \in [Coroutines -> Int]
      BY <1>4, <2>2 DEF Pop, Typed
    <3>2. at' \in [Workers -> Holding \union Free]
      BY <1>4 DEF Pop, Typed, Go, Holding, Entered, Owing, Unanswered
    <3>. QED
      BY <1>4, <2>1, <3>1, <3>2 DEF Pop, Typed
<1>5. CASE Answer(w)
  <2>1. t \in Tasks
    BY <1>5, HeldTask DEF Answer, Holding, Entered, Owing, Unanswered
  <2>2. [ctx EXCEPT ![t].st = 1] \in [Tasks -> Contexts]
    BY <2>1, ContextTypes DEF Typed
  <2>. QED
    BY <1>5, <2>2 DEF Answer, Typed, Go, Holding, Entered, Owing
<1>6. CASE Post(w)
  <2>1. Co(w) \in Coroutines
    BY <1>6, HeldTask DEF Post, Holding, Entered, Owing
  <2>. QED
    BY <1>6, <2>1 DEF Post, Typed, Go, Holding, Entered, Owing
<1>7. CASE Drop(w)
  <2>1. t \in Tasks
    BY <1>7, HeldTask DEF Drop, Holding, Entered, Owing
  <2>2. /\ [ctx EXCEPT ![t].holds = FALSE] \in [Tasks -> Contexts]
        /\ [ctx EXCEPT ![t].refs = @ - 1] \in [Tasks -> Contexts]
    BY <2>1, ContextTypes DEF Typed
  <2>. QED
    BY <1>7, <2>2 DEF Drop, Typed, Go, Holding, Entered
<1>8. CASE Unlist(w)
  <2>1. Co(w) \in Coroutines
    BY <1>8, HeldTask DEF Unlist, Holding, Entered
  <2>. QED
    BY <1>8, <2>1 DEF Unlist, Typed, Go, Holding
<1>. QED
  BY <1>1, <1>2, <1>3, <1>4, <1>5, <1>6, <1>7, <1>8 DEF Works

LEMMA TypedTimer ==
  ASSUME PoolInv, NEW t \in Tasks, Expire(t) \/ Expires(t)
  PROVE  Typed'
<1>. Typed
  BY DEF PoolInv
<1> USE DEF cos, workers, pool
<1>1. CASE Expire(t)
  <2> DEFINE r == [ctx[t] EXCEPT !.timer = IF ctx[t].st = 0 THEN "post" ELSE "drop"]
             s == [r EXCEPT !.st = IF @ = 0 THEN 2 ELSE @]
  <2>1. s \in Contexts
    <3>1. r \in Contexts
      BY DEF Typed, Contexts
    <3>. HIDE DEF r
    <3>. QED
      BY <3>1 DEF Contexts
  <2>2. ctx' = [ctx EXCEPT ![t] = s]
    BY <1>1 DEF Expire, Typed, Contexts
  <2>. HIDE DEF s
  <2>. QED
    BY <1>1, <2>1, <2>2 DEF Expire, Typed
<1>2. CASE ExpirePost(t)
  <2>1. ctx[t].co \in Coroutines
    BY <1>2 DEF ExpirePost, Timer, PoolInv, LookupInv, Typed, Contexts
  <2>2. ctx' \in [Tasks -> Contexts]
    BY <1>2, ContextTypes DEF ExpirePost, Timer, Typed
  <2>. QED
    BY <1>2, <2>1, <2>2 DEF ExpirePost, Typed
<1>3. CASE ExpireNotify(t)
  <2>1. ctx' \in [Tasks -> Contexts]
    BY <1>3, ContextTypes DEF ExpireNotify, Timer, Typed
  <2>. QED
    BY <1>3, <2>1 DEF ExpireNotify, Typed
<1>4. CASE ExpireDrop(t)
  <2> DEFINE r == [ctx[t] EXCEPT !.timer = "over"]
             s == [r EXCEPT !.refs = @ - 1]
  <2>1. s \in Contexts
    <3>1. r \in Contexts
      BY DEF Typed, Contexts
    <3>. HIDE DEF r
    <3>. QED
      BY <3>1 DEF Contexts
  <2>2. ctx' = [ctx EXCEPT ![t] = s]
    BY <1>4 DEF ExpireDrop, Typed, Contexts
  <2>. HIDE DEF s
  <2>. QED
    BY <1>4, <2>1, <2>2 DEF ExpireDrop, Typed
<1>. QED
  BY <1>1, <1>2, <1>3, <1>4 DEF Expires

-----------------------------------------------------------------------------
(* The timer                                                               *)

LEMMA TimerStep ==
  ASSUME PoolInv, NEW t \in Tasks, Expire(t) \/ Expires(t)
  PROVE  PoolInv'
<1> USE DEF cos, workers, pool
<1>1. Typed'
  BY TypedTimer
<1>2. UNCHANGED <<queue, listed, at, task, pc, cur>>
  BY DEF Expire, Expires, ExpirePost, ExpireNotify, ExpireDrop
<1>3. \A u \in Tasks : /\ ctx'[u].co = ctx[u].co /\ ctx'[u].kind = ctx[u].kind /\ ctx'[u].holds = ctx[u].holds
                       /\ u # t => ctx'[u] = ctx[u]
  BY DEF PoolInv, Typed, Contexts, Expire, Expires, ExpirePost, ExpireNotify, ExpireDrop, Timer
<1>4. t \in Submitted /\ ctx[t].kind = "lookup" /\ ctx[t].timer # "none" /\ ctx'[t].timer # "none"
  BY DEF PoolInv, LookupInv, Submitted, Typed, Contexts, Expire, Expires, ExpirePost, ExpireNotify, ExpireDrop, Timer
<1>5. Submitted' = Submitted /\ Numbered' /\ Queued' = Queued
  BY <1>2, <1>3, SameTasks DEF PoolInv, Queued
<1>6. \A u \in Tasks, w \in Workers : \A P : (HeldBy(w, u, P)' <=> HeldBy(w, u, P))
  BY <1>2 DEF HeldBy
<1>7. \A u \in Tasks : \A P : (Held(u, P)' <=> Held(u, P))
  BY <1>2 DEF Held, HeldBy
<1>8. \A u \in Tasks : (Owed(u)' <=> Owed(u)) /\ (In(u)' <=> In(u))
  BY <1>2, <1>3, <1>5, <1>7 DEF Owed, In
<1>9. Queued \subseteq Tasks
  BY DEF PoolInv, Typed, Queued
<1>10. TaskInv'
  BY <1>2, <1>3, <1>5, <1>7, <1>9 DEF PoolInv, TaskInv, Co
<1>11. BookInv'
  <2>1. \A c \in Coroutines : Entries(c)' = Entries(c)
    BY <1>3, <1>7 DEF Entries
  <2>. QED
    BY <2>1, <1>2 DEF PoolInv, BookInv
<1>12. CoInv'
  <2>1. ASSUME NEW c \in ready' PROVE pc[c] # "runs"
    <3>1. CASE c \in ready
      BY <3>1 DEF PoolInv, CoInv, Typed
    <3>2. CASE c \notin ready
      <4>1. ctx[t].timer = "post" /\ c = ctx[t].co
        BY <3>2 DEF Expire, Expires, ExpirePost, ExpireNotify, ExpireDrop, Timer
      <4>. QED
        BY <4>1, <1>4 DEF PoolInv, WaitInv, Awaits, In
    <3>. QED
      BY <3>1, <3>2
  <2>2. ASSUME NEW c \in Coroutines, pc[c] \in Submitting PROVE ctx'[cur[c]].timer = "none"
    <3>1. cur[c] \in Tasks /\ ctx[cur[c]].timer = "none"
      BY <2>2, CurTask DEF PoolInv, CoInv, Submitting
    <3>. QED
      BY <3>1, <1>3, <1>4
  <2>. QED
    BY <1>2, <1>3, <2>1, <2>2 DEF PoolInv, CoInv
<1>13. AwaitInv'
  <2>1. ASSUME NEW u \in Submitted, ctx[u].kind = "await"
        PROVE  u \in Tasks /\ u # t /\ ctx'[u] = ctx[u] /\ (Awaits(u)' => Awaits(u))
    BY <2>1, <1>3, <1>4, <1>8 DEF Submitted, Awaits, Expire, Expires, ExpirePost, ExpireNotify, ExpireDrop
  <2>2. \A u \in Submitted : ctx'[u].kind = ctx[u].kind
    BY <1>3 DEF Submitted
  <2>3. AwaitInv
    BY DEF PoolInv
  <2>4. ASSUME NEW u \in Submitted, ctx[u].kind = "await"
        PROVE  /\ ctx'[u].timer = "none"
               /\ Owed(u)' => ctx'[u].holds
               /\ u \in Queued' \/ Held(u, Unanswered)' => ctx'[u].st = 0
               /\ Awaits(u)' => u \in Queued' \/ Held(u, Unanswered \union {"post"})'
    BY <2>1, <2>3, <2>4, <1>5, <1>7, <1>8 DEF AwaitInv
  <2>. QED
    BY <2>2, <2>4, <1>5 DEF AwaitInv
<1>14. LookupInv'
  <2>1. ctx'[t].refs = One(Owed(t)) + One(In(t)) + One(ctx'[t].timer # "over")
    <3>1. ctx[t].refs = One(Owed(t)) + One(In(t)) + 1
      BY <1>4 DEF PoolInv, LookupInv, One, Submitted, Expire, Expires, ExpirePost, ExpireNotify, ExpireDrop, Timer
    <3>2. CASE ctx'[t].refs = ctx[t].refs /\ ctx'[t].timer # "over"
      BY <3>1, <3>2 DEF One
    <3>3. CASE ctx'[t].refs = ctx[t].refs - 1 /\ ctx'[t].timer = "over"
      BY <3>1, <3>3 DEF One
    <3>. QED
      BY <3>2, <3>3 DEF PoolInv, Typed, Contexts, Expire, Expires, ExpirePost, ExpireNotify, ExpireDrop, Timer
  <2>. QED
    BY <2>1, <1>3, <1>4, <1>8 DEF PoolInv, LookupInv, Submitted, One
<1>15. WaitInv'
  <2>. WaitInv
    BY DEF PoolInv
  <2>1. CASE Expire(t) /\ ctx[t].st = 0
    <3>1. \A u \in Tasks : (Awaits(u)' <=> Awaits(u))
      <4>1. ready' = ready
        BY <2>1 DEF Expire
      <4>. QED
        BY <4>1, <1>3, <1>8 DEF Awaits
    <3>2. ctx'[t].st = 2 /\ Awaits(t)
      BY <2>1, <1>4 DEF Expire, WaitInv, PoolInv, Typed, Contexts
    <3>3. \A w \in Workers : ~HeldBy(w, t, {"post"})
      BY <2>1, <1>4 DEF WaitInv
    <3>. QED
      BY <3>1, <3>2, <3>3, <1>3, <1>5, <1>6 DEF WaitInv, Submitted
  <2>2. CASE ExpirePost(t)
    <3>1. ctx[t].st = 2 /\ ctx'[t].st = 2 /\ ctx'[t].timer = "notify" /\ Awaits(t)
      BY <2>2, <1>4 DEF ExpirePost, Timer, WaitInv, PoolInv, Typed, Contexts
    <3>2. \A u \in Tasks : u # t /\ Awaits(u) => Awaits(u)'
      BY <2>2, <3>1, <1>3, <1>8 DEF ExpirePost, Awaits, In
    <3>3. \A u \in Tasks : u # t /\ Awaits(u)' => Awaits(u)
      BY <2>2, <1>3, <1>8 DEF ExpirePost, Awaits
    <3>4. \A w \in Workers : ~HeldBy(w, t, {"post"})
      BY <3>1, <1>4 DEF WaitInv
    <3>5. ASSUME NEW u \in Submitted, u # t
          PROVE  /\ ctx'[u].kind \in Kinds
                 /\ ~Awaits(u)' => ctx'[u].st # 0
                 /\ ctx'[u].timer = "post" => ctx'[u].st = 2 /\ Awaits(u)'
                 /\ \A w \in Workers : HeldBy(w, u, {"post"})' => ctx'[u].st = 1 /\ Awaits(u)'
      BY <3>2, <3>3, <3>5, <1>3, <1>6 DEF WaitInv, Submitted
    <3>6. /\ ctx'[t].kind \in Kinds
          /\ ctx'[t].st # 0 /\ ctx'[t].timer # "post"
          /\ \A w \in Workers : ~HeldBy(w, t, {"post"})'
      BY <3>1, <3>4, <1>3, <1>4, <1>6 DEF WaitInv
    <3>. QED
      BY <3>5, <3>6, <1>5 DEF WaitInv, Submitted
  <2>3. CASE ExpireNotify(t) \/ ExpireDrop(t) \/ (Expire(t) /\ ctx[t].st # 0)
    <3>1. \A u \in Tasks : (Awaits(u)' <=> Awaits(u))
      BY <2>3, <1>3, <1>8 DEF Expire, ExpireNotify, ExpireDrop, Awaits
    <3>2. ctx'[t].st = ctx[t].st /\ ctx'[t].timer # "post"
      BY <2>3 DEF Expire, ExpireNotify, ExpireDrop, Timer, PoolInv, Typed, Contexts
    <3>. QED
      BY <3>1, <3>2, <1>3, <1>5, <1>6 DEF WaitInv, Submitted
  <2>. QED
    BY <2>1, <2>2, <2>3 DEF Expires
<1>. QED
  BY <1>1, <1>5, <1>10, <1>11, <1>12, <1>13, <1>14, <1>15 DEF PoolInv

-----------------------------------------------------------------------------
(* A thread with a task                                                    *)

\* The thread of a task is the only one: what the others have is something else.
LEMMA MoveOne ==
  ASSUME PoolInv, NEW w \in Workers, at[w] \in Holding, NEW q, Go(w, q), task' = task,
         NEW t, t = task[w]
  PROVE  \A u \in Tasks : \A P :
             /\ u # t => (Held(u, P)' <=> Held(u, P))
             /\ P \subseteq Holding => (Held(t, P)' <=> q \in P)
             /\ P \subseteq Holding => (Held(t, P) <=> at[w] \in P)
BY DEF PoolInv, Typed, TaskInv, Go, Held, HeldBy

LEMMA AnswerStep ==
  ASSUME PoolInv, NEW w \in Workers, Answer(w)
  PROVE  PoolInv'
<1> USE DEF cos, workers, pool
<1>1. Typed'
  BY TypedWorker DEF Works
<1>2. PICK t \in Tasks : t = task[w] /\ t \in Submitted /\ at[w] \in Holding
  BY HeldTask DEF Answer, Holding, Entered, Owing, Unanswered
<1>3. UNCHANGED <<queue, listed, task, pc, cur, ready>>
  BY DEF Answer
<1>4. \A u \in Tasks : /\ ctx'[u].co = ctx[u].co /\ ctx'[u].kind = ctx[u].kind /\ ctx'[u].holds = ctx[u].holds
                       /\ ctx'[u].timer = ctx[u].timer /\ ctx'[u].refs = ctx[u].refs
                       /\ u # t => ctx'[u] = ctx[u]
  BY <1>2 DEF PoolInv, Typed, Contexts, Answer
<1>5. Submitted' = Submitted /\ Numbered' /\ Queued' = Queued
  BY <1>3, <1>4, SameTasks DEF PoolInv, Queued
<1>6. \/ ctx[t].st = 0 /\ at' = [at EXCEPT ![w] = "post"] /\ ctx'[t].st = 1
      \/ ctx[t].st # 0 /\ at' = [at EXCEPT ![w] = "drop"] /\ ctx'[t].st = ctx[t].st
  BY <1>2 DEF Answer, Go, PoolInv, Typed, Contexts
<1>7. \A u \in Tasks : (Held(u, Holding)' <=> Held(u, Holding)) /\ (Held(u, Entered)' <=> Held(u, Entered))
                       /\ (Held(u, Owing)' <=> Held(u, Owing))
  <2>1. PICK q \in {"post", "drop"} : Go(w, q)
    BY <1>6 DEF Go
  <2>2. ASSUME NEW P, P \in {Holding, Entered, Owing} PROVE P \subseteq Holding /\ q \in P /\ at[w] \in P
    BY <2>1, <2>2 DEF Answer, Holding, Entered, Owing, Unanswered
  <2>3. ASSUME NEW P, P \in {Holding, Entered, Owing}, NEW u \in Tasks PROVE (Held(u, P)' <=> Held(u, P))
    BY <2>1, <2>2, <2>3, <1>2, <1>3, MoveOne
  <2>. QED
    BY <2>3
<1>8. \A u \in Tasks : (Owed(u)' <=> Owed(u)) /\ (In(u)' <=> In(u)) /\ (Awaits(u)' <=> Awaits(u))
  BY <1>3, <1>4, <1>5, <1>7 DEF Owed, In, Awaits
<1>9. Queued \subseteq Tasks /\ t \notin Queued
  BY <1>2 DEF PoolInv, Typed, Queued, TaskInv, Held, HeldBy
<1>10. TaskInv'
  <2>1. \A v \in Workers : at'[v] \in Holding <=> at[v] \in Holding
    BY <1>2, <1>6 DEF PoolInv, Typed, Holding, Entered, Owing
  <2>. QED
    BY <2>1, <1>3, <1>4, <1>5, <1>7, <1>9 DEF PoolInv, TaskInv, Co
<1>11. BookInv'
  <2>1. \A c \in Coroutines : Entries(c)' = Entries(c)
    BY <1>4, <1>7 DEF Entries
  <2>. QED
    BY <2>1, <1>3 DEF PoolInv, BookInv
<1>12. CoInv'
  BY <1>3, <1>4, CurTask DEF PoolInv, CoInv, Submitting
<1>13. LookupInv'
  BY <1>4, <1>8 DEF PoolInv, LookupInv, One
<1>14. WaitInv'
  <2>1. ASSUME NEW u \in Submitted, u # t
        PROVE  /\ ctx'[u].kind \in Kinds
               /\ ~Awaits(u)' => ctx'[u].st # 0
               /\ ctx'[u].timer = "post" => ctx'[u].st = 2 /\ Awaits(u)'
               /\ \A v \in Workers : HeldBy(v, u, {"post"})' => ctx'[u].st = 1 /\ Awaits(u)'
    <3>1. \A v \in Workers : HeldBy(v, u, {"post"})' => HeldBy(v, u, {"post"})
      BY <2>1, <1>2, <1>3, <1>6 DEF HeldBy, PoolInv, Typed
    <3>. QED
      BY <2>1, <3>1, <1>4, <1>8 DEF PoolInv, WaitInv, Submitted
  <2>2. ASSUME NEW v \in Workers, HeldBy(v, t, {"post"})' PROVE ctx'[t].st = 1 /\ Awaits(t)
    <3>1. v = w
      BY <2>2, <1>2, <1>3, <1>6 DEF HeldBy, PoolInv, Typed, TaskInv, Holding, Entered, Owing
    <3>. QED
      BY <2>2, <3>1, <1>2, <1>3, <1>6 DEF HeldBy, PoolInv, Typed, WaitInv
  <2>3. ctx[t].kind \in Kinds /\ (~Awaits(t) => ctx[t].st # 0) /\ (ctx[t].timer = "post" => ctx[t].st = 2 /\ Awaits(t))
    BY <1>2 DEF PoolInv, WaitInv
  <2>. QED
    BY <2>1, <2>2, <2>3, <1>2, <1>4, <1>5, <1>6, <1>8 DEF WaitInv
<1>15. AwaitInv'
  <2>1. ASSUME NEW u \in Submitted, u # t, ctx[u].kind = "await"
        PROVE  /\ ctx'[u].timer = "none"
               /\ Owed(u)' => ctx'[u].holds
               /\ u \in Queued' \/ Held(u, Unanswered)' => ctx'[u].st = 0
               /\ Awaits(u)' => u \in Queued' \/ Held(u, Unanswered \union {"post"})'
    <3>1. u \in Tasks /\ \A P : (Held(u, P)' <=> Held(u, P))
      BY <2>1, <1>2, <1>3, <1>6, MoveOne DEF Submitted, Go
    <3>2. AwaitInv
      BY DEF PoolInv
    <3>. QED
      BY <2>1, <3>1, <3>2, <1>4, <1>5, <1>8 DEF AwaitInv
  <2>2. ASSUME ctx[t].kind = "await"
        PROVE  /\ ctx[t].timer = "none" /\ ctx[t].holds /\ ctx[t].st = 0
               /\ ~Held(t, Unanswered)' /\ Held(t, Unanswered \union {"post"})'
    <3>1. Held(t, Owing) /\ Held(t, Unanswered)
      BY <1>2 DEF Answer, Held, HeldBy, Owing, Unanswered
    <3>2. ctx[t].timer = "none" /\ ctx[t].holds /\ ctx[t].st = 0
      BY <2>2, <3>1, <1>2 DEF PoolInv, AwaitInv, Owed
    <3>3. Go(w, "post")
      BY <3>2, <1>6 DEF Go
    <3>4. Unanswered \subseteq Holding /\ Unanswered \union {"post"} \subseteq Holding /\ "post" \notin Unanswered
      BY DEF Holding, Entered, Owing, Unanswered
    <3>. QED
      BY <3>2, <3>3, <3>4, <1>2, <1>3, MoveOne
  <2>. QED
    BY <2>1, <2>2, <1>2, <1>4, <1>5, <1>9 DEF AwaitInv, Submitted
<1>. QED
  BY <1>1, <1>5, <1>10, <1>11, <1>12, <1>13, <1>14, <1>15 DEF PoolInv

LEMMA PostStep ==
  ASSUME PoolInv, NEW w \in Workers, Post(w)
  PROVE  PoolInv'
<1> USE DEF cos, workers, pool
<1>1. Typed'
  BY TypedWorker DEF Works
<1>2. PICK t \in Tasks : t = task[w] /\ t \in Submitted /\ at[w] \in Holding
  BY HeldTask DEF Post, Holding, Entered, Owing
<1>3. UNCHANGED <<queue, listed, task, pc, cur, ctx>> /\ Go(w, "notify") /\ at[w] = "post"
      /\ ready' = ready \union {ctx[t].co}
  BY <1>2 DEF Post, Co
<1>4. ctx[t].st = 1 /\ Awaits(t)
  BY <1>2, <1>3 DEF PoolInv, WaitInv, HeldBy
<1>5. Submitted' = Submitted /\ Numbered' /\ Queued' = Queued
  BY <1>3, SameTasks DEF PoolInv, Queued
<1>6. \A u \in Tasks, P \in {Holding, Entered, Owing, Unanswered} : Held(u, P)' <=> Held(u, P)
  <2>1. ASSUME NEW P, P \in {Holding, Entered, Owing, Unanswered}
        PROVE  P \subseteq Holding /\ ("notify" \in P <=> at[w] \in P)
    BY <2>1, <1>3 DEF Holding, Entered, Owing, Unanswered
  <2>2. ASSUME NEW P, P \in {Holding, Entered, Owing, Unanswered}, NEW u \in Tasks PROVE (Held(u, P)' <=> Held(u, P))
    BY <2>1, <2>2, <1>2, <1>3, MoveOne
  <2>. QED
    BY <2>2
<1>7. \A u \in Tasks : (Owed(u)' <=> Owed(u)) /\ (In(u)' <=> In(u))
  BY <1>3, <1>5, <1>6 DEF Owed, In
<1>8. ~Awaits(t)' /\ \A u \in Tasks : u # t => (Awaits(u)' <=> Awaits(u))
  BY <1>3, <1>4, <1>7 DEF Awaits, In
<1>9. Queued \subseteq Tasks
  BY DEF PoolInv, Typed, Queued
<1>10. TaskInv'
  <2>1. \A v \in Workers : at'[v] \in Holding <=> at[v] \in Holding
    BY <1>3 DEF PoolInv, Typed, Go, Holding, Entered, Owing
  <2>. QED
    BY <2>1, <1>3, <1>5, <1>6, <1>9 DEF PoolInv, TaskInv, Co
<1>11. BookInv'
  <2>1. \A c \in Coroutines : Entries(c)' = Entries(c)
    BY <1>3, <1>6 DEF Entries
  <2>. QED
    BY <2>1, <1>3 DEF PoolInv, BookInv
<1>12. CoInv'
  BY <1>3, <1>4 DEF PoolInv, CoInv, Awaits, In
<1>13. LookupInv'
  BY <1>3, <1>7 DEF PoolInv, LookupInv, One
<1>14. WaitInv'
  <2>1. \A v \in Workers : ~HeldBy(v, t, {"post"})'
    BY <1>2, <1>3 DEF PoolInv, Typed, TaskInv, HeldBy, Go, Holding, Entered, Owing
  <2>2. \A v \in Workers, u \in Tasks : HeldBy(v, u, {"post"})' => HeldBy(v, u, {"post"})
    BY <1>3 DEF PoolInv, Typed, HeldBy, Go
  <2>3. ctx[t].timer # "post"
    BY <1>2, <1>4 DEF PoolInv, WaitInv
  <2>. QED
    BY <2>1, <2>2, <2>3, <1>3, <1>4, <1>5, <1>8 DEF PoolInv, WaitInv, Submitted
<1>15. AwaitInv'
  <2>1. ASSUME NEW u \in Submitted, Awaits(u)'
        PROVE  Awaits(u) /\ (Held(u, Unanswered \union {"post"})' <=> Held(u, Unanswered \union {"post"}))
    BY <2>1, <1>2, <1>3, <1>8, MoveOne DEF Submitted
  <2>2. AwaitInv
    BY DEF PoolInv
  <2>. QED
    BY <2>1, <2>2, <1>3, <1>5, <1>6, <1>7 DEF AwaitInv, Submitted
<1>. QED
  BY <1>1, <1>5, <1>10, <1>11, <1>12, <1>13, <1>14, <1>15 DEF PoolInv

LEMMA DropStep ==
  ASSUME PoolInv, NEW w \in Workers, Drop(w)
  PROVE  PoolInv'
<1> USE DEF cos, workers, pool
<1>1. Typed'
  BY TypedWorker DEF Works
<1>2. PICK t \in Tasks : t = task[w] /\ t \in Submitted /\ at[w] \in Holding
  BY HeldTask DEF Drop, Holding, Entered, Owing
<1>3. UNCHANGED <<queue, listed, task, pc, cur, ready>> /\ Go(w, "unlist") /\ at[w] = "drop"
  BY DEF Drop
<1>4. \A u \in Tasks : /\ ctx'[u].co = ctx[u].co /\ ctx'[u].kind = ctx[u].kind /\ ctx'[u].st = ctx[u].st
                       /\ ctx'[u].timer = ctx[u].timer
                       /\ u # t => ctx'[u] = ctx[u]
  BY <1>2 DEF PoolInv, Typed, Contexts, Drop
<1>5. Submitted' = Submitted /\ Numbered' /\ Queued' = Queued
  BY <1>3, <1>4, SameTasks DEF PoolInv, Queued
<1>6. \A u \in Tasks, P \in {Holding, Entered, Unanswered, Unanswered \union {"post"}} : Held(u, P)' <=> Held(u, P)
  <2> DEFINE All == {Holding, Entered, Unanswered, Unanswered \union {"post"}}
  <2>1. ASSUME NEW P, P \in All
        PROVE  P \subseteq Holding /\ ("unlist" \in P <=> at[w] \in P)
    BY <2>1, <1>3 DEF Holding, Entered, Owing, Unanswered
  <2>2. ASSUME NEW P, P \in All, NEW u \in Tasks PROVE (Held(u, P)' <=> Held(u, P))
    BY <2>1, <2>2, <1>2, <1>3, MoveOne
  <2>. QED
    BY <2>2
<1>7. \A u \in Tasks : (In(u)' <=> In(u)) /\ (Awaits(u)' <=> Awaits(u))
  BY <1>3, <1>4 DEF In, Awaits
<1>8. Owed(t) /\ ~Owed(t)' /\ \A u \in Tasks : u # t => (Owed(u)' <=> Owed(u))
  <2>1. Owing \subseteq Holding /\ "unlist" \notin Owing /\ at[w] \in Owing
    BY <1>3 DEF Holding, Entered, Owing, Unanswered
  <2>2. Held(t, Owing) /\ ~Held(t, Owing)' /\ \A u \in Tasks : u # t => (Held(u, Owing)' <=> Held(u, Owing))
    BY <2>1, <1>2, <1>3, MoveOne
  <2>3. t \notin Queued
    BY <1>2 DEF PoolInv, TaskInv, Held, HeldBy
  <2>. QED
    BY <2>2, <2>3, <1>5 DEF Owed
<1>9. Queued \subseteq Tasks
  BY DEF PoolInv, Typed, Queued
<1>10. TaskInv'
  <2>1. \A v \in Workers : at'[v] \in Holding <=> at[v] \in Holding
    BY <1>3 DEF PoolInv, Typed, Go, Holding, Entered, Owing
  <2>. QED
    BY <2>1, <1>3, <1>4, <1>5, <1>6, <1>9 DEF PoolInv, TaskInv, Co
<1>11. BookInv'
  <2>1. \A c \in Coroutines : Entries(c)' = Entries(c)
    BY <1>4, <1>6 DEF Entries
  <2>. QED
    BY <2>1, <1>3 DEF PoolInv, BookInv
<1>12. CoInv'
  BY <1>3, <1>4, CurTask DEF PoolInv, CoInv, Submitting
<1>13. LookupInv'
  <2>1. ctx[t].kind = "lookup" => ctx'[t].refs = One(Owed(t)') + One(In(t)') + One(ctx'[t].timer # "over")
    <3>1. ASSUME ctx[t].kind = "lookup" PROVE ctx'[t].refs = ctx[t].refs - 1
      BY <3>1, <1>2 DEF Drop, PoolInv, Typed, Contexts
    <3>2. ctx[t].kind = "lookup" => ctx[t].refs = One(Owed(t)) + One(In(t)) + One(ctx[t].timer # "over")
      BY <1>2 DEF PoolInv, LookupInv, Submitted
    <3>. QED
      BY <3>1, <3>2, <1>4, <1>7, <1>8 DEF One
  <2>. QED
    BY <2>1, <1>4, <1>7, <1>8 DEF PoolInv, LookupInv, One
<1>14. WaitInv'
  <2>1. \A v \in Workers, u \in Tasks : HeldBy(v, u, {"post"})' => HeldBy(v, u, {"post"})
    BY <1>3 DEF PoolInv, Typed, HeldBy, Go
  <2>. QED
    BY <2>1, <1>4, <1>5, <1>7 DEF PoolInv, WaitInv, Submitted
<1>15. AwaitInv'
  BY <1>4, <1>5, <1>6, <1>7, <1>8 DEF PoolInv, AwaitInv, Submitted
<1>. QED
  BY <1>1, <1>5, <1>10, <1>11, <1>12, <1>13, <1>14, <1>15 DEF PoolInv

\* The entries of a coroutine are finitely many.
LEMMA EntriesFinite == \A c \in Coroutines : IsFiniteSet(Entries(c))
<1>1. IsFiniteSet(Tasks)
  BY PoolAssumption, FS_Interval DEF Tasks
<1>. QED
  BY <1>1, FS_Subset DEF Entries

LEMMA UnlistStep ==
  ASSUME PoolInv, NEW w \in Workers, Unlist(w)
  PROVE  PoolInv'
<1> USE DEF cos, workers, pool
<1>1. Typed'
  BY TypedWorker DEF Works
<1>2. PICK t \in Tasks : t = task[w] /\ t \in Submitted /\ at[w] \in Holding /\ ctx[t].co \in Coroutines
  BY HeldTask DEF Unlist, Holding, Entered, Co
<1>3. UNCHANGED <<queue, task, pc, cur, ctx, ready>> /\ Go(w, "rest") /\ at[w] = "unlist"
      /\ listed' = [listed EXCEPT ![ctx[t].co] = @ - 1]
  BY <1>2 DEF Unlist, Co
<1>5. Submitted' = Submitted /\ Numbered' /\ Queued' = Queued
  BY <1>3, SameTasks DEF PoolInv, Queued
<1>6. \A u \in Tasks, P \in {Holding, Owing, Unanswered, Unanswered \union {"post"}} : Held(u, P)' <=> Held(u, P)
  <2> DEFINE All == {Holding, Owing, Unanswered, Unanswered \union {"post"}}
  <2>1. ASSUME NEW P, P \in All
        PROVE  P \subseteq Holding /\ ("rest" \in P <=> at[w] \in P)
    BY <2>1, <1>3 DEF Holding, Entered, Owing, Unanswered
  <2>2. ASSUME NEW P, P \in All, NEW u \in Tasks PROVE (Held(u, P)' <=> Held(u, P))
    BY <2>1, <2>2, <1>2, <1>3, MoveOne
  <2>. QED
    BY <2>2
<1>7. \A u \in Tasks : (Owed(u)' <=> Owed(u)) /\ (In(u)' <=> In(u)) /\ (Awaits(u)' <=> Awaits(u))
  BY <1>3, <1>5, <1>6 DEF Owed, In, Awaits
<1>9. Queued \subseteq Tasks
  BY DEF PoolInv, Typed, Queued
<1>10. TaskInv'
  <2>1. \A v \in Workers : at'[v] \in Holding <=> at[v] \in Holding
    BY <1>3 DEF PoolInv, Typed, Go, Holding, Entered
  <2>. QED
    BY <2>1, <1>3, <1>5, <1>6, <1>9 DEF PoolInv, TaskInv, Co
<1>11. BookInv'
  <2>1. Held(t, Entered) /\ ~Held(t, Entered)' /\ \A u \in Tasks : u # t => (Held(u, Entered)' <=> Held(u, Entered))
    <3>1. Entered \subseteq Holding /\ "rest" \notin Entered /\ at[w] \in Entered
      BY <1>3 DEF Holding, Entered, Owing, Unanswered
    <3>. QED
      BY <3>1, <1>2, <1>3, MoveOne
  <2>2. ASSUME NEW c \in Coroutines PROVE listed'[c] = Cardinality(Entries(c)')
    <3>1. CASE c = ctx[t].co
      <4>1. t \in Entries(c) /\ Entries(c)' = Entries(c) \ {t}
        BY <2>1, <3>1, <1>2, <1>3 DEF Entries
      <4>2. Cardinality(Entries(c)') = Cardinality(Entries(c)) - 1
        BY <4>1, EntriesFinite, FS_RemoveElement
      <4>. QED
        BY <4>2, <3>1, <1>3 DEF PoolInv, Typed, BookInv
    <3>2. CASE c # ctx[t].co
      <4>1. Entries(c)' = Entries(c)
        BY <2>1, <3>2, <1>3 DEF Entries
      <4>. QED
        BY <4>1, <3>2, <1>3 DEF PoolInv, Typed, BookInv
    <3>. QED
      BY <3>1, <3>2
  <2>. QED
    BY <2>2 DEF BookInv
<1>12. CoInv'
  BY <1>3 DEF PoolInv, CoInv
<1>13. LookupInv'
  BY <1>3, <1>7 DEF PoolInv, LookupInv, One
<1>14. WaitInv'
  <2>1. \A v \in Workers, u \in Tasks : HeldBy(v, u, {"post"})' => HeldBy(v, u, {"post"})
    BY <1>3 DEF PoolInv, Typed, HeldBy, Go
  <2>. QED
    BY <2>1, <1>3, <1>5, <1>7 DEF PoolInv, WaitInv, Submitted
<1>15. AwaitInv'
  BY <1>3, <1>5, <1>6, <1>7 DEF PoolInv, AwaitInv, Submitted
<1>. QED
  BY <1>1, <1>5, <1>10, <1>11, <1>12, <1>13, <1>14, <1>15 DEF PoolInv

LEMMA RestStep ==
  ASSUME PoolInv, NEW w \in Workers, Rest(w)
  PROVE  PoolInv'
<1> USE DEF cos, workers, pool
<1>1. Typed'
  BY TypedWorker DEF Works
<1>3. /\ UNCHANGED <<queue, listed, pc, cur, ctx, ready>>
      /\ at[w] = "rest" /\ at' = [at EXCEPT ![w] = "pop"] /\ task' = [task EXCEPT ![w] = None]
  BY DEF Rest, Go
<1>5. Submitted' = Submitted /\ Numbered' /\ Queued' = Queued
  BY <1>3, SameTasks DEF PoolInv, Queued
<1>6. \A u \in Tasks, P \in {Entered, Owing, Unanswered, Unanswered \union {"post"}} : Held(u, P)' <=> Held(u, P)
  <2> DEFINE All == {Entered, Owing, Unanswered, Unanswered \union {"post"}}
  <2>1. ASSUME NEW P, P \in All PROVE "rest" \notin P /\ "pop" \notin P
    BY <2>1 DEF Entered, Owing, Unanswered
  <2>2. ASSUME NEW P, P \in All, NEW u \in Tasks PROVE (Held(u, P)' <=> Held(u, P))
    BY <2>1, <2>2, <1>3 DEF Held, HeldBy, PoolInv, Typed
  <2>. QED
    BY <2>2
<1>7. \A u \in Tasks : (Owed(u)' <=> Owed(u)) /\ (In(u)' <=> In(u)) /\ (Awaits(u)' <=> Awaits(u))
  BY <1>3, <1>5, <1>6 DEF Owed, In, Awaits
<1>9. Queued \subseteq Tasks
  BY DEF PoolInv, Typed, Queued
<1>10. TaskInv'
  <2>1. \A v \in Workers : at'[v] \in Holding => v # w /\ at'[v] = at[v] /\ task'[v] = task[v]
    BY <1>3 DEF PoolInv, Typed, Holding, Entered, Owing, Unanswered
  <2>2. \A u \in Tasks : Held(u, Holding)' => Held(u, Holding)
    BY <2>1 DEF Held, HeldBy
  <2>. QED
    BY <2>1, <2>2, <1>3, <1>5, <1>9 DEF PoolInv, TaskInv, Co
<1>11. BookInv'
  <2>1. \A c \in Coroutines : Entries(c)' = Entries(c)
    BY <1>3, <1>6 DEF Entries
  <2>. QED
    BY <2>1, <1>3 DEF PoolInv, BookInv
<1>12. CoInv'
  BY <1>3 DEF PoolInv, CoInv
<1>13. LookupInv'
  BY <1>3, <1>7 DEF PoolInv, LookupInv, One
<1>14. WaitInv'
  <2>1. \A v \in Workers, u \in Tasks : HeldBy(v, u, {"post"})' => HeldBy(v, u, {"post"})
    BY <1>3 DEF PoolInv, Typed, HeldBy
  <2>. QED
    BY <2>1, <1>3, <1>5, <1>7 DEF PoolInv, WaitInv, Submitted
<1>15. AwaitInv'
  BY <1>3, <1>5, <1>6, <1>7 DEF PoolInv, AwaitInv, Submitted
<1>. QED
  BY <1>1, <1>5, <1>10, <1>11, <1>12, <1>13, <1>14, <1>15 DEF PoolInv

LEMMA PopStep ==
  ASSUME PoolInv, NEW w \in Workers, Pop(w), queue # <<>>
  PROVE  PoolInv'
<1> USE DEF cos, workers, pool
<1>1. Typed'
  BY TypedWorker DEF Works
<1>2. PICK t \in Tasks : t = Head(queue) /\ t \in Queued /\ t \in Submitted /\ ctx[t].co \in Coroutines
  <2>1. Head(queue) = queue[1] /\ 1 \in 1..Len(queue)
    BY DEF PoolInv, Typed
  <2>. QED
    BY <2>1 DEF PoolInv, Typed, TaskInv, Queued, Submitted, Contexts
<1>3. /\ UNCHANGED <<pc, cur, ctx, ready>> /\ at[w] = "pop" /\ queue' = Tail(queue)
      /\ at' = [at EXCEPT ![w] = "count"] /\ task' = [task EXCEPT ![w] = t]
      /\ listed' = [listed EXCEPT ![ctx[t].co] = @ + 1]
  BY <1>2 DEF Pop, Go
<1>4. Queued' = Queued \ {t} /\ \A i, j \in 1..Len(queue') : queue'[i] = queue'[j] => i = j
  <2>1. Len(queue') = Len(queue) - 1 /\ \A i \in 1..Len(queue') : queue'[i] = queue[i + 1]
    BY <1>3 DEF PoolInv, Typed
  <2>2. Len(queue) \in Nat \ {0} /\ t = queue[1]
    BY <1>2 DEF PoolInv, Typed
  <2>3. \A i, j \in 1..Len(queue) : queue[i] = queue[j] => i = j
    BY DEF PoolInv, TaskInv
  <2>4. \A i \in 1..Len(queue') : i + 1 \in 1..Len(queue) /\ queue'[i] # t
    BY <2>1, <2>2, <2>3
  <2>5. \A i \in 1..Len(queue) : i = 1 \/ (i - 1 \in 1..Len(queue') /\ queue'[i - 1] = queue[i])
    BY <2>1, <2>2
  <2>6. ASSUME NEW u, u # t, NEW i \in 1..Len(queue), u = queue[i] PROVE \E j \in 1..Len(queue') : u = queue'[j]
    BY <2>2, <2>5, <2>6
  <2>7. Queued' \subseteq Queued \ {t}
    BY <2>1, <2>4 DEF Queued
  <2>8. Queued \ {t} \subseteq Queued'
    BY <2>6 DEF Queued
  <2>9. \A i, j \in 1..Len(queue') : queue'[i] = queue'[j] => i = j
    <3>1. ASSUME NEW i \in 1..Len(queue'), NEW j \in 1..Len(queue'), queue'[i] = queue'[j] PROVE i + 1 = j + 1
      BY <3>1, <2>1, <2>3, <2>4
    <3>. QED
      BY <3>1
  <2>. QED
    BY <2>7, <2>8, <2>9
<1>5. Submitted' = Submitted /\ Numbered'
  BY <1>3, SameTasks DEF PoolInv
<1>6. \A P \in {Holding, Entered, Owing, Unanswered, Unanswered \union {"post"}} :
          ~Held(t, P) /\ Held(t, P)' /\ \A u \in Tasks : u # t => (Held(u, P)' <=> Held(u, P))
  <2> DEFINE All == {Holding, Entered, Owing, Unanswered, Unanswered \union {"post"}}
  <2>1. ASSUME NEW P, P \in All PROVE "pop" \notin P /\ "count" \in P /\ P \subseteq Holding
    BY <2>1 DEF Holding, Entered, Owing, Unanswered
  <2>2. ASSUME NEW P, P \in All, NEW u \in Tasks, u # t PROVE (Held(u, P)' <=> Held(u, P))
    BY <2>1, <2>2, <1>3 DEF Held, HeldBy, PoolInv, Typed
  <2>3. ASSUME NEW P, P \in All PROVE Held(t, P)'
    BY <2>1, <2>3, <1>3 DEF Held, HeldBy, PoolInv, Typed
  <2>4. ASSUME NEW P, P \in All PROVE ~Held(t, P)
    BY <2>1, <2>4, <1>2 DEF Held, HeldBy, PoolInv, TaskInv
  <2>. QED
    BY <2>2, <2>3, <2>4
<1>7. \A u \in Tasks : (Owed(u)' <=> Owed(u)) /\ (In(u)' <=> In(u)) /\ (Awaits(u)' <=> Awaits(u))
  BY <1>2, <1>3, <1>4, <1>6 DEF Owed, In, Awaits
<1>9. Queued \subseteq Tasks
  BY DEF PoolInv, Typed, Queued
<1>10. TaskInv'
  <2>1. \A v \in Workers : v # w => at'[v] = at[v] /\ task'[v] = task[v]
    BY <1>3 DEF PoolInv, Typed
  <2>2. at'[w] = "count" /\ task'[w] = t
    BY <1>3 DEF PoolInv, Typed
  <2>3. \A v \in Workers : at[v] \in Holding => task[v] # t
    BY <1>2 DEF PoolInv, TaskInv, Held, HeldBy
  <2>4. \A v \in Workers : at'[v] \in Holding => task'[v] \in Tasks /\ ctx[task'[v]].co # None
    BY <2>1, <2>2, <1>2 DEF PoolInv, TaskInv, Co, Submitted
  <2>5. \A u, v \in Workers : at'[u] \in Holding /\ at'[v] \in Holding /\ task'[u] = task'[v] => u = v
    BY <2>1, <2>2, <2>3 DEF PoolInv, TaskInv
  <2>6. \A u \in Queued' : ctx[u].co # None /\ ~Held(u, Holding)'
    BY <1>4, <1>6, <1>9 DEF PoolInv, TaskInv
  <2>. QED
    BY <2>4, <2>5, <2>6, <1>3, <1>4 DEF TaskInv, Co
<1>11. BookInv'
  <2>1. ASSUME NEW c \in Coroutines PROVE listed'[c] = Cardinality(Entries(c)')
    <3>1. CASE c = ctx[t].co
      <4>1. t \notin Entries(c) /\ Entries(c)' = Entries(c) \union {t}
        BY <3>1, <1>2, <1>3, <1>6 DEF Entries
      <4>2. Cardinality(Entries(c)') = Cardinality(Entries(c)) + 1
        BY <4>1, EntriesFinite, FS_AddElement
      <4>. QED
        BY <4>2, <3>1, <1>3 DEF PoolInv, Typed, BookInv
    <3>2. CASE c # ctx[t].co
      <4>1. Entries(c)' = Entries(c)
        BY <3>2, <1>3, <1>6 DEF Entries
      <4>. QED
        BY <4>1, <3>2, <1>3 DEF PoolInv, Typed, BookInv
    <3>. QED
      BY <3>1, <3>2
  <2>. QED
    BY <2>1 DEF BookInv
<1>12. CoInv'
  BY <1>3 DEF PoolInv, CoInv
<1>13. LookupInv'
  BY <1>3, <1>7 DEF PoolInv, LookupInv, One
<1>14. WaitInv'
  <2>1. \A v \in Workers, u \in Tasks : HeldBy(v, u, {"post"})' => HeldBy(v, u, {"post"})
    BY <1>3 DEF PoolInv, Typed, HeldBy
  <2>. QED
    BY <2>1, <1>3, <1>5, <1>7 DEF PoolInv, WaitInv, Submitted
<1>15. AwaitInv'
  BY <1>2, <1>3, <1>4, <1>5, <1>6, <1>7 DEF PoolInv, AwaitInv, Submitted
<1>. QED
  BY <1>1, <1>5, <1>10, <1>11, <1>12, <1>13, <1>14, <1>15 DEF PoolInv

-----------------------------------------------------------------------------
(* A coroutine                                                             *)

LEMMA SubmitStep ==
  ASSUME PoolInv, NEW c \in Coroutines, NEW k \in Kinds, Submit(c, k)
  PROVE  PoolInv'
<1> USE DEF cos, workers, pool
<1>1. Typed'
  BY TypedCoroutine
<1>2. PICK t \in Tasks : /\ t = Cardinality(Submitted) + 1 /\ t \notin Submitted
                         /\ Submitted \union {t} = 1..t /\ t \in Nat
  <2>1. Cardinality(Submitted) + 1 <= MaxTasks
    BY DEF Submit
  <2>. QED
    BY <2>1, NewTask DEF Tasks
<1>3. /\ UNCHANGED <<listed, at, task, ready>> /\ pc[c] = "runs"
      /\ queue' = Append(queue, t) /\ cur' = [cur EXCEPT ![c] = t] /\ pc' = [pc EXCEPT ![c] = "look"]
      /\ ctx' = [ctx EXCEPT ![t] = NewCtx(c, k)]
  BY <1>2 DEF Submit
<1>4. /\ \A u \in Tasks : u # t => ctx'[u] = ctx[u]
      /\ ctx'[t] = NewCtx(c, k) /\ ctx[t].co = None
      /\ ctx'[t].co = c /\ ctx'[t].kind = k /\ ctx'[t].st = 0 /\ ctx'[t].timer = "none" /\ ctx'[t].holds
      /\ k = "lookup" => ctx'[t].refs = 3
  BY <1>2, <1>3 DEF PoolInv, Typed, Submitted, NewCtx
<1>5. Submitted' = Submitted \union {t} /\ Numbered'
  <2>1. Submitted' = Submitted \union {t}
    BY <1>4, PoolAssumption DEF Submitted
  <2>. QED
    BY <2>1, <1>2 DEF Numbered
<1>6. Queued' = Queued \union {t} /\ \A i, j \in 1..Len(queue') : queue'[i] = queue'[j] => i = j
  <2>1. Len(queue) \in Nat /\ Len(queue') = Len(queue) + 1 /\ queue'[Len(queue) + 1] = t
        /\ \A i \in 1..Len(queue) : queue'[i] = queue[i]
    BY <1>3 DEF PoolInv, Typed
  <2>2. Queued' = Queued \union {t}
    BY <2>1 DEF Queued
  <2>3. \A i \in 1..Len(queue) : queue[i] # t
    BY <1>2 DEF PoolInv, TaskInv, Queued, Submitted
  <2>4. \A i, j \in 1..Len(queue) : queue[i] = queue[j] => i = j
    BY DEF PoolInv, TaskInv
  <2>. QED
    BY <2>1, <2>2, <2>3, <2>4
<1>7. \A u \in Tasks : \A P : Held(u, P)' <=> Held(u, P)
  BY <1>3 DEF Held, HeldBy
<1>8. \A P : P \subseteq Holding => ~Held(t, P)
  BY <1>4 DEF PoolInv, TaskInv, Held, HeldBy, Co
<1>9. t \notin Queued /\ Queued \subseteq Tasks
  BY <1>4 DEF PoolInv, TaskInv, Typed, Queued
<1>10. c \notin ready
  BY <1>3 DEF PoolInv, CoInv
<1>11. In(t)' /\ Awaits(t)' /\ Owed(t)'
  BY <1>3, <1>4, <1>6, <1>10 DEF In, Awaits, Owed, PoolInv, Typed
<1>12. \A u \in Submitted : (In(u)' <=> In(u)) /\ (Awaits(u)' <=> Awaits(u)) /\ (Owed(u)' <=> Owed(u))
  BY <1>2, <1>3, <1>4, <1>6, <1>7 DEF In, Awaits, Owed, PoolInv, Typed, Submitted
<1>13. TaskInv'
  <2>1. \A u \in Queued' : ctx'[u].co # None /\ ~Held(u, Holding)'
    BY <1>4, <1>6, <1>7, <1>8, <1>9, PoolAssumption DEF PoolInv, TaskInv
  <2>2. \A w \in Workers : at[w] \in Holding => task[w] \in Tasks /\ ctx'[task[w]].co # None
    BY <1>4, PoolAssumption DEF PoolInv, TaskInv, Co
  <2>. QED
    BY <2>1, <2>2, <1>3, <1>6 DEF PoolInv, TaskInv, Co
<1>14. BookInv'
  <2>1. ~Held(t, Entered)
    BY <1>8 DEF Holding
  <2>2. \A d \in Coroutines : Entries(d)' = Entries(d)
    BY <2>1, <1>4, <1>7 DEF Entries
  <2>. QED
    BY <2>2, <1>3 DEF PoolInv, BookInv
<1>15. CoInv'
  <2>1. ASSUME NEW d \in Coroutines, d # c
        PROVE  /\ pc'[d] # "runs" => cur'[d] \in Tasks /\ ctx'[cur'[d]].co = d
               /\ pc'[d] \in Submitting => ctx'[cur'[d]].timer = "none"
               /\ d \in ready' => pc'[d] # "runs"
    <3>1. pc'[d] = pc[d] /\ cur'[d] = cur[d]
      BY <2>1, <1>3 DEF PoolInv, Typed
    <3>2. pc[d] # "runs" => cur[d] \in Tasks /\ cur[d] # t /\ ctx[cur[d]].co = d
      BY <1>2, CurTask
    <3>. QED
      BY <3>1, <3>2, <1>3, <1>4 DEF PoolInv, CoInv, Submitting
  <2>2. pc'[c] = "look" /\ cur'[c] = t
    BY <1>3 DEF PoolInv, Typed
  <2>. QED
    BY <2>1, <2>2, <1>3, <1>4, <1>10 DEF CoInv
<1>16. LookupInv'
  <2>1. ASSUME NEW u \in Tasks, u # t
        PROVE  /\ ctx'[u].timer # "none" => ctx'[u].co # None /\ ctx'[u].kind = "lookup"
               /\ ctx'[u].co # None /\ ctx'[u].kind = "lookup" =>
                      ctx'[u].refs = One(Owed(u)') + One(In(u)') + One(ctx'[u].timer # "over")
    BY <2>1, <1>4, <1>12 DEF PoolInv, LookupInv, Submitted, One
  <2>2. /\ ctx'[t].timer = "none"
        /\ ctx'[t].kind = "lookup" => ctx'[t].refs = One(Owed(t)') + One(In(t)') + One(ctx'[t].timer # "over")
    BY <1>4, <1>11 DEF One
  <2>. QED
    BY <2>1, <2>2 DEF LookupInv, One
<1>17. WaitInv'
  <2>1. \A w \in Workers, u \in Tasks : HeldBy(w, u, {"post"})' <=> HeldBy(w, u, {"post"})
    BY <1>3 DEF HeldBy
  <2>2. \A w \in Workers : ~HeldBy(w, t, {"post"})
    <3>1. {"post"} \subseteq Holding
      BY DEF Holding, Entered, Owing
    <3>. QED
      BY <3>1, <1>8 DEF Held
  <2>3. ASSUME NEW u \in Submitted
        PROVE  /\ ctx'[u].kind \in Kinds
               /\ ~Awaits(u)' => ctx'[u].st # 0
               /\ ctx'[u].timer = "post" => ctx'[u].st = 2 /\ Awaits(u)'
               /\ \A w \in Workers : HeldBy(w, u, {"post"})' => ctx'[u].st = 1 /\ Awaits(u)'
    <3>1. u \in Tasks /\ u # t
      BY <1>2 DEF Submitted
    <3>. QED
      BY <3>1, <2>1, <1>4, <1>12 DEF PoolInv, WaitInv
  <2>4. ctx'[t].kind \in Kinds /\ Awaits(t)' /\ ctx'[t].timer # "post" /\ \A w \in Workers : ~HeldBy(w, t, {"post"})'
    BY <2>2, <1>3, <1>4, <1>11 DEF HeldBy
  <2>. QED
    BY <2>3, <2>4, <1>5 DEF WaitInv
<1>18. AwaitInv'
  <2>1. ASSUME NEW u \in Submitted, ctx[u].kind = "await"
        PROVE  /\ ctx'[u].timer = "none"
               /\ Owed(u)' => ctx'[u].holds
               /\ u \in Queued' \/ Held(u, Unanswered)' => ctx'[u].st = 0
               /\ Awaits(u)' => u \in Queued' \/ Held(u, Unanswered \union {"post"})'
    <3>1. u \in Tasks /\ u # t
      BY <1>2 DEF Submitted
    <3>2. AwaitInv
      BY DEF PoolInv
    <3>. QED
      BY <3>1, <3>2, <2>1, <1>4, <1>6, <1>7, <1>12 DEF AwaitInv
  <2>2. ctx'[t].timer = "none" /\ ctx'[t].holds /\ ctx'[t].st = 0 /\ t \in Queued'
    BY <1>4, <1>6
  <2>3. \A u \in Submitted : ctx'[u] = ctx[u]
    BY <1>2, <1>4 DEF Submitted
  <2>. QED
    BY <2>1, <2>2, <2>3, <1>5 DEF AwaitInv
<1>. QED
  BY <1>1, <1>5, <1>13, <1>14, <1>15, <1>16, <1>17, <1>18 DEF PoolInv

\* The end of a wait, and the timer that the beginning of one arms.
LEMMA YieldStep ==
  ASSUME PoolInv, NEW c \in Coroutines, Yield(c)
  PROVE  PoolInv'
<1> USE DEF cos, workers, pool
<1>1. Typed'
  BY TypedCoroutine DEF Submits
<1>2. PICK t \in Tasks : t = cur[c] /\ t \in Submitted /\ ctx[t].co = c /\ ctx[t].timer = "none"
  BY CurTask DEF Yield, PoolInv, CoInv, Submitting
<1>3. /\ UNCHANGED <<queue, listed, at, task, cur, ready>> /\ pc[c] = "yield" /\ pc' = [pc EXCEPT ![c] = "waits"]
      /\ ctx' = IF ctx[t].kind = "lookup" THEN [ctx EXCEPT ![t].timer = "armed"] ELSE ctx
  BY <1>2 DEF Yield
<1>4. /\ \A u \in Tasks : /\ ctx'[u].co = ctx[u].co /\ ctx'[u].kind = ctx[u].kind /\ ctx'[u].holds = ctx[u].holds
                          /\ ctx'[u].st = ctx[u].st /\ ctx'[u].refs = ctx[u].refs
                          /\ u # t => ctx'[u] = ctx[u]
      /\ ctx'[t].timer = IF ctx[t].kind = "lookup" THEN "armed" ELSE "none"
  BY <1>2, <1>3 DEF PoolInv, Typed, Contexts
<1>5. Submitted' = Submitted /\ Numbered' /\ Queued' = Queued
  BY <1>3, <1>4, SameTasks DEF PoolInv, Queued
<1>7. \A u \in Tasks : \A P : Held(u, P)' <=> Held(u, P)
  BY <1>3 DEF Held, HeldBy
<1>8. \A u \in Submitted : (In(u)' <=> In(u)) /\ (Awaits(u)' <=> Awaits(u)) /\ (Owed(u)' <=> Owed(u))
  BY <1>3, <1>4, <1>5, <1>7 DEF In, Awaits, Owed, PoolInv, Typed, Contexts, Submitted
<1>9. Queued \subseteq Tasks
  BY DEF PoolInv, Typed, Queued
<1>10. TaskInv'
  BY <1>3, <1>4, <1>5, <1>7, <1>9 DEF PoolInv, TaskInv, Co
<1>11. BookInv'
  <2>1. \A d \in Coroutines : Entries(d)' = Entries(d)
    BY <1>4, <1>7 DEF Entries
  <2>. QED
    BY <2>1, <1>3 DEF PoolInv, BookInv
<1>12. CoInv'
  <2>1. ASSUME NEW d \in Coroutines, d # c
        PROVE  /\ pc'[d] # "runs" => cur'[d] \in Tasks /\ ctx'[cur'[d]].co = d
               /\ pc'[d] \in Submitting => ctx'[cur'[d]].timer = "none"
               /\ d \in ready' => pc'[d] # "runs"
    <3>1. pc'[d] = pc[d] /\ cur'[d] = cur[d]
      BY <2>1, <1>3 DEF PoolInv, Typed
    <3>2. pc[d] # "runs" => cur[d] \in Tasks /\ cur[d] # t /\ ctx[cur[d]].co = d
      BY <2>1, <1>2, CurTask
    <3>. QED
      BY <3>1, <3>2, <1>3, <1>4 DEF PoolInv, CoInv, Submitting
  <2>2. pc'[c] = "waits" /\ cur'[c] = t
    BY <1>2, <1>3 DEF PoolInv, Typed
  <2>. QED
    BY <2>1, <2>2, <1>2, <1>3, <1>4 DEF CoInv, Submitting
<1>13. LookupInv'
  BY <1>2, <1>4, <1>8, PoolAssumption DEF PoolInv, LookupInv, Submitted, One
<1>14. WaitInv'
  <2>1. \A w \in Workers, u \in Tasks : HeldBy(w, u, {"post"})' <=> HeldBy(w, u, {"post"})
    BY <1>3 DEF HeldBy
  <2>. QED
    BY <2>1, <1>4, <1>5, <1>8 DEF PoolInv, WaitInv, Submitted
<1>15. AwaitInv'
  BY <1>4, <1>5, <1>7, <1>8 DEF PoolInv, AwaitInv, Submitted
<1>. QED
  BY <1>1, <1>5, <1>10, <1>11, <1>12, <1>13, <1>14, <1>15 DEF PoolInv

LEMMA ResumeStep ==
  ASSUME PoolInv, NEW c \in Coroutines, Resume(c)
  PROVE  PoolInv'
<1> USE DEF cos, workers, pool
<1>1. Typed'
  BY TypedCoroutine
<1>2. PICK t \in Tasks : t = cur[c] /\ t \in Submitted /\ ctx[t].co = c
  BY CurTask DEF Resume
<1>3. /\ UNCHANGED <<queue, listed, at, task, cur>> /\ c \in ready /\ ready' = ready \ {c}
      /\ pc[c] = "waits" /\ pc' = [pc EXCEPT ![c] = "runs"]
  BY DEF Resume
<1>4. /\ \A u \in Tasks : /\ ctx'[u].co = ctx[u].co /\ ctx'[u].kind = ctx[u].kind /\ ctx'[u].timer = ctx[u].timer
                          /\ ctx'[u].st = ctx[u].st
                          /\ u # t => ctx'[u] = ctx[u]
      /\ ctx'[t].refs = ctx[t].refs - 1
  BY <1>2 DEF PoolInv, Typed, Contexts, Resume
<1>5. ctx[t].kind = "await" /\ ctx[t].holds => ctx'[t].holds
  BY <1>2 DEF PoolInv, Typed, Contexts, Resume
<1>6. Submitted' = Submitted /\ Numbered' /\ Queued' = Queued
  BY <1>3, <1>4, SameTasks DEF PoolInv, Queued
<1>7. \A u \in Tasks : \A P : Held(u, P)' <=> Held(u, P)
  BY <1>3 DEF Held, HeldBy
<1>8. \A u \in Submitted : /\ (Awaits(u)' <=> Awaits(u)) /\ (Owed(u)' <=> Owed(u))
                           /\ u # t => (In(u)' <=> In(u))
  BY <1>2, <1>3, <1>4, <1>6, <1>7 DEF In, Awaits, Owed, PoolInv, Typed, Contexts, Submitted
<1>9. In(t) /\ ~In(t)' /\ Queued \subseteq Tasks
  BY <1>2, <1>3, <1>4 DEF In, PoolInv, Typed, Queued
<1>10. TaskInv'
  BY <1>3, <1>4, <1>6, <1>7, <1>9 DEF PoolInv, TaskInv, Co
<1>11. BookInv'
  <2>1. \A d \in Coroutines : Entries(d)' = Entries(d)
    BY <1>4, <1>7 DEF Entries
  <2>. QED
    BY <2>1, <1>3 DEF PoolInv, BookInv
<1>12. CoInv'
  <2>1. \A d \in Coroutines : d # c => pc'[d] = pc[d] /\ (d \in ready' <=> d \in ready)
    BY <1>3 DEF PoolInv, Typed
  <2>2. pc'[c] = "runs" /\ c \notin ready'
    BY <1>3 DEF PoolInv, Typed
  <2>. QED
    BY <2>1, <2>2, <1>3, <1>4 DEF PoolInv, CoInv, Submitting
<1>13. LookupInv'
  <2>1. ctx[t].kind = "lookup" => ctx'[t].refs = One(Owed(t)') + One(In(t)') + One(ctx'[t].timer # "over")
    <3>1. ctx[t].kind = "lookup" => ctx[t].refs = One(Owed(t)) + One(In(t)) + One(ctx[t].timer # "over")
      BY <1>2 DEF PoolInv, LookupInv, Submitted
    <3>. QED
      BY <3>1, <1>2, <1>4, <1>8, <1>9 DEF One
  <2>. QED
    BY <2>1, <1>4, <1>8 DEF PoolInv, LookupInv, One, Submitted
<1>14. WaitInv'
  <2>1. \A w \in Workers, u \in Tasks : HeldBy(w, u, {"post"})' <=> HeldBy(w, u, {"post"})
    BY <1>3 DEF HeldBy
  <2>. QED
    BY <2>1, <1>4, <1>6, <1>8 DEF PoolInv, WaitInv, Submitted
<1>15. AwaitInv'
  BY <1>4, <1>5, <1>6, <1>7, <1>8 DEF PoolInv, AwaitInv, Submitted
<1>. QED
  BY <1>1, <1>6, <1>10, <1>11, <1>12, <1>13, <1>14, <1>15 DEF PoolInv

-----------------------------------------------------------------------------
(* The theorems                                                            *)

\* The invariant behind the others, with the types.
THEOREM PoolInvariance == Spec => []PoolInv
<1>1. Init => PoolInv
  BY PoolInit
<1>2. PoolInv /\ [Next]_vars => PoolInv'
  <2> SUFFICES ASSUME PoolInv, [Next]_vars PROVE PoolInv'
    OBVIOUS
  <2> USE DEF cos, workers, pool
  <2>1. ASSUME NEW c \in Coroutines, Submits(c) PROVE PoolInv'
    <3>1. CASE Yield(c)
      BY <3>1, YieldStep
    <3>2. CASE Look(c) \/ Bump(c) \/ Wake(c) \/ Make(c) \/ Made(c)
      <4>1. Typed'
        BY <2>1, TypedCoroutine
      <4>2. UNCHANGED <<queue, listed, task, cur, ctx, ready>>
        BY <3>2 DEF Look, Bump, Wake, Make, Made
      <4>3. \A d \in Coroutines : pc'[d] = pc[d] \/ (pc[d] \in Submitting /\ pc'[d] \in Submitting)
        BY <3>2 DEF Look, Bump, Wake, Make, Made, PoolInv, Typed, Submitting
      <4>4. \A w \in Workers : at'[w] = at[w] \/ (at[w] \in Free /\ at'[w] \in Free)
        BY <3>2 DEF Look, Bump, Wake, Make, Made, Go, PoolInv, Typed, Free
      <4>. QED
        BY <4>1, <4>2, <4>3, <4>4, QuietStep
    <3>. QED
      BY <2>1, <3>1, <3>2 DEF Submits
  <2>2. ASSUME NEW c \in Coroutines, Resume(c) PROVE PoolInv'
    BY <2>2, ResumeStep
  <2>3. ASSUME NEW c \in Coroutines, NEW k \in Kinds, Submit(c, k) PROVE PoolInv'
    BY <2>3, SubmitStep
  <2>4. ASSUME NEW w \in Workers, Works(w) \/ TimeOut(w) PROVE PoolInv'
    <3>1. CASE Answer(w)
      BY <3>1, AnswerStep
    <3>2. CASE Post(w)
      BY <3>2, PostStep
    <3>3. CASE Drop(w)
      BY <3>3, DropStep
    <3>4. CASE Unlist(w)
      BY <3>4, UnlistStep
    <3>5. CASE Rest(w)
      BY <3>5, RestStep
    <3>6. CASE Pop(w) /\ queue # <<>>
      BY <3>6, PopStep
    <3>7. CASE \/ Start(w) \/ Count(w) \/ Notify(w) \/ Load(w) \/ Park(w) \/ TimeOut(w) \/ Late(w)
               \/ Leave(w) \/ Left(w) \/ (Pop(w) /\ queue = <<>>)
      <4>1. Typed'
        BY <2>4, TypedWorker
      <4>2. UNCHANGED <<queue, listed, task, cur, ctx, ready, pc>>
        BY <3>7 DEF Start, Count, Notify, Load, Park, TimeOut, Late, Leave, Left, Pop
      <4>3. \A v \in Workers : \/ at'[v] = at[v]
                               \/ at[v] \in Free /\ at'[v] \in Free
                               \/ at[v] \in Unanswered /\ at'[v] \in Unanswered
                               \/ at[v] = "notify" /\ at'[v] = "drop"
        BY <3>7 DEF Start, Count, Notify, Load, Park, TimeOut, Late, Leave, Left, Pop, Go,
                    PoolInv, Typed, Free, Unanswered
      <4>. QED
        BY <4>1, <4>2, <4>3, QuietStep
    <3>. QED
      BY <2>4, <3>1, <3>2, <3>3, <3>4, <3>5, <3>6, <3>7 DEF Works
  <2>5. ASSUME NEW t \in Tasks, Expire(t) \/ Expires(t) PROVE PoolInv'
    BY <2>5, TimerStep
  <2>6. CASE Destroy \/ UNCHANGED vars
    <3>1. UNCHANGED <<queue, listed, at, task, pc, cur, ctx, ready>>
      BY <2>6 DEF Destroy, vars
    <3>2. Typed'
      BY <3>1 DEF PoolInv, Typed
    <3>. QED
      BY <3>1, <3>2, QuietStep
  <2>. QED
    BY <2>1, <2>2, <2>3, <2>4, <2>5, <2>6 DEF Next
<1>. QED
  BY <1>1, <1>2, PTL DEF Spec

\* lm_blocking_pool_task_pending finds every coroutine that awaits a blocking call, in the queue or in
\* g_running, whatever the threads of the pool and sysmon's look at it do in between.
THEOREM NeverOffTheBooks == Spec => []InBooks
<1>1. PoolInv => InBooks
  <2> SUFFICES ASSUME PoolInv, NEW c \in Coroutines, pc[c] = "waits", ctx[cur[c]].kind = "await", c \notin ready,
                      listed[c] <= 0
               PROVE  InQueue(c)
    BY DEF InBooks, PoolInv, Typed
  <2>1. cur[c] \in Submitted /\ cur[c] \in Tasks /\ ctx[cur[c]].co = c /\ Awaits(cur[c])
    BY CurTask DEF Awaits, In
  <2>2. CASE cur[c] \in Queued
    BY <2>1, <2>2 DEF Queued, InQueue, PoolInv, Typed
  <2>3. CASE Held(cur[c], Unanswered \union {"post"})
    <3>1. cur[c] \in Entries(c)
      BY <2>1, <2>3 DEF Entries, Held, HeldBy, Entered, Owing
    <3>2. Cardinality(Entries(c)) \in Nat \ {0}
      BY <3>1, EntriesFinite, FS_EmptySet, FS_CardinalityType
    <3>. QED
      BY <3>2 DEF PoolInv, BookInv
  <2>. QED
    BY <2>1, <2>2, <2>3 DEF PoolInv, AwaitInv
<1>. QED
  BY <1>1, PoolInvariance, PTL

\* An answer and a timeout of one lookup, and answers that come late, wake the coroutine once, and in the
\* wait they are for (dns_co_done against dns_co_timeout).
THEOREM WokenOnce == Spec => []WakesItsOwnWait
<1>1. PoolInv => WakesItsOwnWait
  <2> SUFFICES ASSUME PoolInv, NEW c \in ready
               PROVE  /\ pc[c] # "runs" /\ ctx[cur[c]].st # 0
                      /\ \A w \in Workers : at[w] = "post" => Co(w) # c
                      /\ \A t \in Tasks : ctx[t].timer = "post" => ctx[t].co # c
    BY DEF WakesItsOwnWait
  <2>1. c \in Coroutines /\ pc[c] # "runs"
    BY DEF PoolInv, Typed, CoInv
  <2>2. cur[c] \in Submitted /\ ctx[cur[c]].co = c
    BY <2>1, CurTask
  <2>3. ctx[cur[c]].st # 0
    BY <2>2 DEF PoolInv, WaitInv, Awaits
  <2>4. ASSUME NEW w \in Workers, at[w] = "post" PROVE Co(w) # c
    BY <2>4, HeldTask DEF PoolInv, WaitInv, Awaits, HeldBy, Co, Holding, Entered, Owing
  <2>5. ASSUME NEW t \in Tasks, ctx[t].timer = "post" PROVE ctx[t].co # c
    BY <2>5 DEF PoolInv, WaitInv, LookupInv, Awaits, Submitted
  <2>. QED
    BY <2>1, <2>3, <2>4, <2>5
<1>. QED
  BY <1>1, PoolInvariance, PTL

\* While the pool looks into the scheduler of an await somebody holds it, and while an answer or a timer
\* looks into the context of a lookup a reference is left.
THEOREM NothingFreed == Spec => []NothingFreedUsed
<1>1. PoolInv => NothingFreedUsed
  <2> SUFFICES ASSUME PoolInv PROVE NothingFreedUsed
    OBVIOUS
  <2>1. ASSUME NEW w \in Workers, at[w] \in {"post", "notify"}, ctx[task[w]].kind = "await" PROVE ~SchedulerFreed
    <3>1. task[w] \in Submitted /\ task[w] \in Tasks
      BY <2>1, HeldTask DEF Holding, Entered, Owing
    <3>2. Owed(task[w])
      BY <2>1 DEF Owed, Held, HeldBy, Owing
    <3>. QED
      BY <2>1, <3>1, <3>2 DEF PoolInv, AwaitInv, SchedulerFreed
  <2>2. ASSUME NEW t \in Tasks, ctx[t].timer \in {"post", "notify", "drop"} PROVE ctx[t].refs > 0
    BY <2>2 DEF PoolInv, LookupInv, One
  <2>3. ASSUME NEW w \in Workers, at[w] = "drop", ctx[task[w]].kind = "lookup" PROVE ctx[task[w]].refs > 0
    <3>1. task[w] \in Submitted /\ task[w] \in Tasks
      BY <2>3, HeldTask DEF Holding, Entered, Owing
    <3>2. Owed(task[w])
      BY <2>3 DEF Owed, Held, HeldBy, Owing
    <3>. QED
      BY <2>3, <3>1, <3>2 DEF PoolInv, LookupInv, One, Submitted
  <2>. QED
    BY <2>1, <2>2, <2>3 DEF NothingFreedUsed
<1>. QED
  BY <1>1, PoolInvariance, PTL

(***************************************************************************)
(* The timer thread                                                        *)
(***************************************************************************)

\* An add that has its task and has not yet compared, and one that has not yet signalled.
Adding == {"insert", "compare"}
Unsignalled == Adding \union {"signal"}

\* The life id names has begun and is not ahead of its task; it is the present one.
Begun(id) == id[2] < version[id[1]].seq \/ (id = IdOf(id[1]) /\ ~Is(id[1], "free"))
Present(id, st) == id = IdOf(id[1]) => Is(id[1], st)

\* An add knows a life that has begun, and its deadline until the life is over.
Recalls(c) ==
    LET id == call[c].id
    IN /\ call[c].step \in Unsignalled => Begun(id)
       /\ call[c].step \in Adding /\ id = IdOf(id[1]) => call[c].due = deadline[id[1]]

\* A life begins with an add, and what was fired or cancelled stays so.
LifeInv ==
    /\ \A s \in Slots : version[s].seq + (IF Is(s, "free") THEN 0 ELSE 1) <= adds
    /\ \A c \in Callers : Recalls(c)
    /\ \A id \in fired : Begun(id) /\ Present(id, "running")
    /\ \A id \in cancelled : Begun(id) /\ Present(id, "done")

\* A task that is neither free nor in fn is with its caller, in a bucket or in the heap.
Inserts(c, s) == call[c].step = "insert" /\ call[c].id[1] = s
Waits(s) == Is(s, "scheduled") \/ Is(s, "done")

\* The task that c is about to insert is nowhere else.
InHand(c) ==
    LET s == call[c].id[1]
    IN /\ Waits(s) /\ call[c].id = IdOf(s) /\ s \notin heap
       /\ \A b \in Buckets : s \notin bucket[b]
       /\ \A d \in Callers : Inserts(d, s) => d = c

PlaceInv ==
    /\ \A s \in Slots : (s \in free <=> Is(s, "free")) /\ (s \in running <=> Is(s, "running"))
    /\ \A s \in Slots : Waits(s) =>
           s \in heap \/ (\E b \in Buckets : s \in bucket[b]) \/ (\E c \in Callers : Inserts(c, s))
    /\ \A s \in heap : Waits(s) /\ \A b \in Buckets : s \notin bucket[b]
    /\ \A b \in Buckets : \A s \in bucket[b] : Waits(s) /\ \A d \in Buckets : s \in bucket[d] => d = b
    /\ \A c \in Callers : call[c].step = "insert" => InHand(c)

\* Where the thread is, and what it has in its hands there.
StepInv == /\ step = "consume" => index \in Buckets
           /\ step = "fn" => \E s \in Slots : running = {s}
           /\ step # "fn" => running = {}

\* The buckets that the thread has emptied since its sample.
Emptied(b) == (step = "consume" /\ b < index) \/ step \in {"sweep", "fn", "publish", "check", "park"}

\* The add of this life has not compared, or has not signalled.
AddedBy(s, steps) == \E c \in Callers : call[c].step \in steps /\ call[c].id = IdOf(s)

\* An add that has not signalled has a life of its own, which nobody has heard of.
Unheard(c) ==
    /\ call[c].id \notin heard
    /\ \A d \in Callers : call[d].step \in Unsignalled /\ call[d].id = call[c].id => d = c

HeardInv == /\ \A id \in heard : Begun(id)
            /\ \A c \in Callers : call[c].step \in Unsignalled => Unheard(c)

\* What comes into an emptied bucket is signalled; so what the thread has heard of is in the heap
\* when it parks, and what it hears of later wakes it.
Signalled ==
    \A b \in Buckets : Emptied(b) /\ nsignals = base =>
        \A s \in bucket[b] : AddedBy(s, {"compare", "signal"})

SleepInv == HeardInv /\ Signalled /\ SleepsToHeard

States == {"free", "scheduled", "running", "done"}
Versions == [seq : Seqs, st : States]

\* Each step of an add keeps of its call what the later ones need.
LEMMA CallTypes ==
  ASSUME TimerTypeOK, NEW c \in Callers
  PROVE  /\ call[c].step \in {"idle", "wake", "signal"} \union Adding
         /\ call[c].step \in Unsignalled => call[c].id \in Ids
         /\ call[c].step \in Adding => call[c].due \in 1..MaxTime
         /\ call[c].step = "signal" => call[c].wake \in BOOLEAN
         /\ call[c] = Idle <=> call[c].step = "idle"
BY DEF TimerTypeOK, Calls, Idle, Adding, Unsignalled

\* What recycling does to tasks in use: the others keep their lives.
LEMMA Recycling ==
  ASSUME TimerTypeOK, LifeInv, NEW T \in SUBSET Slots, Recycle(T), \A s \in T : ~Is(s, "free")
  PROVE  /\ version' \in [Slots -> Versions] /\ free' = free \union T /\ free' \subseteq Slots
         /\ \A s \in Slots : IF s \in T THEN version'[s].seq = version[s].seq + 1 /\ version'[s].st = "free"
                                        ELSE version'[s] = version[s]
<1>1. ASSUME NEW s \in T PROVE version[s].seq + 1 \in Seqs
  BY <1>1, TimerAssumption DEF TimerTypeOK, LifeInv, Seqs, Is
<1>2. version' \in [Slots -> Versions]
  BY <1>1 DEF TimerTypeOK, Recycle, Versions, States
<1>. QED
  BY <1>2 DEF TimerTypeOK, Recycle

\* What a change of state does.
LEMMA Becoming ==
  ASSUME TimerTypeOK, NEW s \in Slots, NEW st \in States, Become(s, st)
  PROVE  /\ version' \in [Slots -> Versions]
         /\ version'[s].seq = version[s].seq /\ version'[s].st = st
         /\ \A u \in Slots : u # s => version'[u] = version[u]
BY DEF TimerTypeOK, Become, Versions, States

-----------------------------------------------------------------------------
(* Types                                                                   *)

\* Numbers have a least one.
LEMMA Least ==
  ASSUME NEW D \in SUBSET Nat, D # {}
  PROVE  \E m \in D : \A e \in D : m <= e
<1>. DEFINE Less == {ss \in Nat \X Nat : ss[1] < ss[2]}
<1>1. OpToRel(<,Nat) = Less
  BY DEF OpToRel
<1>2. IsWellFoundedOn(Less, Nat)
  BY ONLY <1>1, NatLessThanWellFounded, Zenon
<1>. HIDE DEF Less
<1>3. PICK m \in D : \A e \in D : <<e, m>> \notin Less
  BY <1>2, WFMin
<1>4. \A e \in D : ~(e < m)
  BY <1>3 DEF Less
<1>. QED
  BY <1>4

\* A heap that is not empty has an earliest task.
LEMMA TopExists ==
  ASSUME TimerTypeOK, heap # {}
  PROVE  HeapTop # {}
<1>. DEFINE D == {deadline[s] : s \in heap}
<1>1. D \in SUBSET Nat /\ D # {}
  BY DEF TimerTypeOK
<1>2. PICK m \in D : \A e \in D : m <= e
  BY <1>1, Least
<1>3. PICK s \in heap : deadline[s] = m
  OBVIOUS
<1>. QED
  BY <1>2, <1>3 DEF HeapTop

\* HeapNearest is a time, and no later than what is in the heap.
LEMMA HeapBound ==
  ASSUME TimerTypeOK
  PROVE  /\ HeapNearest \in 0..Never
         /\ \A s \in heap : HeapNearest <= deadline[s]
<1>1. CASE heap = {}
  BY <1>1, TimerAssumption DEF HeapNearest
<1>2. CASE heap # {}
  <2>. DEFINE top == CHOOSE u \in HeapTop : TRUE
  <2>1. top \in HeapTop
    BY <1>2, TopExists
  <2>. HIDE DEF top
  <2>2. top \in heap /\ \A u \in heap : deadline[top] <= deadline[u]
    BY <2>1 DEF HeapTop
  <2>3. HeapNearest = deadline[top]
    BY <1>2 DEF HeapNearest, top
  <2>4. deadline[top] \in 0..Never
    BY <2>2, TimerAssumption DEF TimerTypeOK
  <2>. QED
    BY <2>2, <2>3, <2>4
<1>. QED
  BY <1>1, <1>2

\* The variables keep their types.
LEMMA TypeStep ==
  ASSUME TimerTypeOK, LifeInv, PlaceInv, StepInv, [TimerNext]_timerVars
  PROVE  TimerTypeOK' /\ StepInv'
<1>. USE TimerAssumption DEF Goto
<1>t. TimerTypeOK /\ StepInv
  OBVIOUS
<1>1. CASE SampleBase
  BY <1>1, <1>t DEF SampleBase, TimerTypeOK, StepInv, lists, thread, history, Buckets
<1>2. CASE Consume
  <2>1. index \in Buckets /\ bucket[index] \subseteq Slots
    BY <1>2, <1>t DEF StepInv, Consume, TimerTypeOK
  <2>2. \A s \in {u \in bucket[index] : ~Is(u, "scheduled")} : ~Is(s, "free")
    BY <2>1 DEF PlaceInv, Waits, Is
  <2>3. version' \in [Slots -> Versions] /\ free' \subseteq Slots
    BY <2>1, <2>2, <1>2, Recycling DEF Consume
  <2>. QED
    BY <1>2, <1>t, <2>1, <2>3 DEF Consume, TimerTypeOK, StepInv, Buckets, lists, thread, history, Versions, States
<1>3. CASE SweepEnd
  BY <1>3, <1>t DEF SweepEnd, TimerTypeOK, StepInv, lists, thread, history, Buckets
<1>4. CASE Publish
  BY <1>4, <1>t, HeapBound DEF Publish, TimerTypeOK, StepInv, lists, thread, history, Buckets
<1>5. CASE Check
  BY <1>5, <1>t DEF Check, TimerTypeOK, StepInv, lists, thread, history, Buckets
<1>6. CASE FutexWait
  BY <1>6, <1>t, HeapBound DEF FutexWait, TimerTypeOK, StepInv, lists, thread, history, Buckets
<1>7. CASE Timeout
  BY <1>7, <1>t DEF Timeout, WakeThread, TimerTypeOK, StepInv, lists, thread, history, Buckets
<1>8. CASE Return
  <2>1. \A s \in running : ~Is(s, "free")
    BY <1>t DEF PlaceInv, Is, TimerTypeOK
  <2>2. version' \in [Slots -> Versions] /\ free' \subseteq Slots
    BY <2>1, <1>8, <1>t, Recycling DEF Return, TimerTypeOK
  <2>. QED
    BY <1>8, <1>t, <2>2 DEF Return, TimerTypeOK, StepInv, lists, thread, history, Versions, States
<1>9. ASSUME NEW s \in Slots, SweepRun(s) PROVE TimerTypeOK' /\ StepInv'
  <2>1. version' \in [Slots -> Versions] /\ IdOf(s) \in Ids
    BY <1>9, Becoming DEF SweepRun, States, IdOf, Ids, TimerTypeOK
  <2>. QED
    BY <1>9, <1>t, <2>1 DEF SweepRun, TimerTypeOK, StepInv, lists, thread, history, Versions, States
<1>10. ASSUME NEW s \in Slots, SweepDrop(s) PROVE TimerTypeOK' /\ StepInv'
  <2>1. version' \in [Slots -> Versions] /\ free' \subseteq Slots
    BY <1>10, Recycling DEF SweepDrop, Is
  <2>. QED
    BY <1>10, <1>t, <2>1 DEF SweepDrop, TimerTypeOK, StepInv, lists, thread, history, Versions, States
<1>11. ASSUME NEW c \in Callers, NEW s \in Slots, NEW d \in 1..MaxTime, AddAlloc(c, s, d)
       PROVE  TimerTypeOK' /\ StepInv'
  <2>1. version' \in [Slots -> Versions] /\ IdOf(s) \in Ids
    BY <1>11, Becoming DEF AddAlloc, States, IdOf, Ids, TimerTypeOK
  <2>2. [step |-> "insert", id |-> IdOf(s), due |-> d] \in Calls
    BY <2>1 DEF Calls
  <2>3. call' \in [Callers -> Calls]
    BY <1>11, <2>2, <1>t DEF AddAlloc, TimerTypeOK
  <2>. QED
    BY <1>11, <1>t, <2>1, <2>3 DEF AddAlloc, TimerTypeOK, StepInv, lists, thread, history, Versions, States
<1>12. ASSUME NEW c \in Callers, Add(c) PROVE TimerTypeOK' /\ StepInv'
  <2>. USE CallTypes DEF Unsignalled, Adding
  <2>1. CASE AddInsert(c)
    <3>1. call[c] \in [step : {"insert", "compare"}, id : Ids, due : 1..MaxTime]
      BY <2>1, <1>t DEF AddInsert, TimerTypeOK, Calls, Idle
    <3>2. call' \in [Callers -> Calls] /\ call[c].id[1] \in Slots
      BY <3>1, <2>1, <1>t DEF AddInsert, TimerTypeOK, Calls, Ids
    <3>. QED
      BY <3>2, <2>1, <1>t DEF AddInsert, TimerTypeOK, StepInv, lists, thread, history
  <2>2. CASE AddCompare(c)
    <3>1. call' \in [Callers -> Calls] /\ nearest' \in 0..Never
      BY <2>2, <1>t DEF AddCompare, TimerTypeOK, Calls
    <3>. QED
      BY <3>1, <2>2, <1>t DEF AddCompare, TimerTypeOK, StepInv, lists, thread, history
  <2>3. CASE AddSignal(c)
    <3>1. call' \in [Callers -> Calls] /\ call[c].id \in Ids
      BY <2>3, <1>t, CallTypes DEF AddSignal, TimerTypeOK, Calls, Unsignalled
    <3>2. known' \in SUBSET Ids /\ heard' \in SUBSET Ids
      BY <3>1, <2>3, <1>t DEF AddSignal, Hear, TimerTypeOK
    <3>. QED
      BY <3>1, <3>2, <2>3, <1>t DEF AddSignal, TimerTypeOK, StepInv, lists, thread
  <2>4. CASE AddWake(c)
    BY <2>4, <1>t DEF AddWake, WakeThread, TimerTypeOK, StepInv, lists, thread, history, Calls
  <2>. QED
    BY <2>1, <2>2, <2>3, <2>4, <1>12 DEF Add
<1>13. ASSUME NEW id \in known, Cancel(id) PROVE TimerTypeOK' /\ StepInv'
  <2>1. id \in Ids /\ id[1] \in Slots
    BY <1>13, <1>t DEF TimerTypeOK, Ids
  <2>2. version' \in [Slots -> Versions]
    BY <2>1, <1>13, Becoming DEF Cancel, States
  <2>. QED
    BY <1>13, <1>t, <2>1, <2>2 DEF Cancel, TimerTypeOK, StepInv, lists, thread, history, Versions, States
<1>14. CASE Stop
  BY <1>14, <1>t DEF Stop, TimerTypeOK, StepInv, lists, thread, history
<1>16. CASE StopSignal
  BY <1>16, <1>t DEF StopSignal, TimerTypeOK, StepInv, lists, thread, history
<1>17. CASE StopWake
  BY <1>17, <1>t DEF StopWake, WakeThread, TimerTypeOK, StepInv, lists, thread, history
<1>18. CASE Tick
  BY <1>18, <1>t DEF Tick, TimerTypeOK, StepInv, lists, thread, history
<1>15. CASE UNCHANGED timerVars
  BY <1>15, <1>t DEF timerVars, TimerTypeOK, StepInv, lists, thread, history
<1>. QED
  BY <1>1, <1>2, <1>3, <1>4, <1>5, <1>6, <1>7, <1>8, <1>9, <1>10, <1>11, <1>12, <1>13, <1>14, <1>15,
     <1>16, <1>17, <1>18
  DEF TimerNext, Run, Stopping

-----------------------------------------------------------------------------
(* Lives                                                                   *)

\* A step that makes no life the present one of its task lets adds know what they know.
LEMMA SameCalls ==
  ASSUME TimerTypeOK, LifeInv, UNCHANGED <<call, deadline>>,
         \A id \in Ids : Begun(id) => Begun(id)' /\ (id = IdOf(id[1])' => id = IdOf(id[1]))
  PROVE  \A c \in Callers : Recalls(c)'
<1>1. ASSUME NEW c \in Callers PROVE Recalls(c)'
  <2>1. CASE call[c].step \in Unsignalled
    <3>1. call[c].id \in Ids /\ Begun(call[c].id) /\ call'[c] = call[c]
      BY <2>1, CallTypes DEF LifeInv, Recalls
    <3>. DEFINE id == call[c].id
    <3>2. Begun(id)' /\ (id = IdOf(id[1])' => id = IdOf(id[1]))
      BY <3>1
    <3>. QED
      BY <3>1, <3>2 DEF Recalls, LifeInv
  <2>2. CASE call[c].step \notin Unsignalled
    BY <2>2 DEF Recalls, Unsignalled
  <2>. QED
    BY <2>1, <2>2
<1>. QED
  BY <1>1

\* The sides of LifeInv that only the lives of tasks touch.
LEMMA RecycleLives ==
  ASSUME TimerTypeOK, LifeInv, NEW T \in SUBSET Slots, Recycle(T), \A s \in T : ~Is(s, "free"),
         UNCHANGED <<deadline, call, adds, fired, cancelled>>
  PROVE  LifeInv'
<1>1. \A s \in Slots : IF s \in T THEN version'[s].seq = version[s].seq + 1 /\ version'[s].st = "free"
                                  ELSE version'[s] = version[s]
  BY Recycling
<1>2. \A s \in Slots : version[s].seq \in Nat
  BY TimerAssumption DEF TimerTypeOK, Seqs
<1>3. ASSUME NEW id \in Ids, Begun(id)
      PROVE  Begun(id)' /\ (id = IdOf(id[1])' => id[1] \notin T /\ id = IdOf(id[1]))
  <2>1. id[1] \in Slots /\ id[2] \in Nat /\ id = <<id[1], id[2]>>
    BY TimerAssumption DEF Ids, Seqs
  <2>. QED
    BY <2>1, <1>1, <1>2, <1>3 DEF Begun, IdOf, Is
<1>4. \A s \in Slots : version'[s].seq + (IF Is(s, "free")' THEN 0 ELSE 1) <= adds'
  BY <1>1, <1>2 DEF LifeInv, Is
<1>5. \A c \in Callers : Recalls(c)'
  BY <1>3, SameCalls
<1>6. ASSUME NEW id \in Ids, NEW st \in States, Begun(id), Present(id, st)
      PROVE  Begun(id)' /\ Present(id, st)'
  <2>1. id[1] \in Slots
    BY DEF Ids
  <2>. QED
    BY <2>1, <1>1, <1>3, <1>6 DEF Present, Is
<1>7. \A id \in fired : Begun(id)' /\ Present(id, "running")'
  BY <1>6 DEF LifeInv, TimerTypeOK, States
<1>8. \A id \in cancelled : Begun(id)' /\ Present(id, "done")'
  BY <1>6 DEF LifeInv, TimerTypeOK, States
<1>. QED
  BY <1>4, <1>5, <1>7, <1>8 DEF LifeInv

\* A step of an add leaves lives alone and keeps what it needs of the call.
LEMMA CallLives ==
  ASSUME TimerTypeOK, LifeInv, UNCHANGED <<version, deadline, adds, fired, cancelled>>,
         \A c \in Callers :
             /\ call'[c].step \in Unsignalled => call[c].step \in Unsignalled /\ call'[c].id = call[c].id
             /\ call'[c].step \in Adding => call[c].step \in Adding /\ call'[c].due = call[c].due
  PROVE  LifeInv'
BY DEF LifeInv, Recalls, Begun, Present, IdOf, Is, Unsignalled, Adding

\* Lives begin, end and change their states as they should.
LEMMA LifeStep ==
  ASSUME TimerTypeOK, LifeInv, PlaceInv, StepInv, [TimerNext]_timerVars
  PROVE  LifeInv'
<1>. USE DEF history
<1>1. CASE UNCHANGED <<version, deadline, adds, fired, cancelled, call>>
  BY <1>1, CallLives
<1>2. CASE Consume
  <2>1. index \in Buckets /\ bucket[index] \subseteq Slots
    BY <1>2 DEF StepInv, Consume, TimerTypeOK, Goto
  <2>2. \A s \in {u \in bucket[index] : ~Is(u, "scheduled")} : ~Is(s, "free")
    BY <2>1 DEF PlaceInv, Waits, Is
  <2>. QED
    BY <2>1, <2>2, <1>2, RecycleLives DEF Consume
<1>3. CASE Return
  BY <1>3, RecycleLives DEF Return, PlaceInv, Is, TimerTypeOK
<1>4. ASSUME NEW s \in Slots, SweepDrop(s) PROVE LifeInv'
  BY <1>4, RecycleLives DEF SweepDrop, Is
<1>5. ASSUME NEW s \in Slots, SweepRun(s) PROVE LifeInv'
  <2>1. /\ version'[s].seq = version[s].seq /\ version'[s].st = "running" /\ version[s].st = "scheduled"
        /\ \A u \in Slots : u # s => version'[u] = version[u]
    BY <1>5, Becoming DEF SweepRun, States, Is
  <2>2. UNCHANGED <<deadline, call, adds, cancelled>> /\ fired' = fired \union {IdOf(s)}
    BY <1>5 DEF SweepRun
  <2>3. ASSUME NEW id \in Ids, Begun(id)
        PROVE  Begun(id)' /\ (id = IdOf(id[1])' => id = IdOf(id[1]))
    BY <2>1, <2>3 DEF Begun, IdOf, Is, Ids
  <2>4. IdOf(s) \in Ids /\ Begun(IdOf(s))
    BY <1>5 DEF SweepRun, Begun, Is, IdOf, Ids, TimerTypeOK
  <2>5. ASSUME NEW id \in fired' PROVE Begun(id)' /\ Present(id, "running")'
    <3>1. CASE id = IdOf(s)
      BY <2>1, <2>3, <2>4, <3>1 DEF Present, IdOf, Is
    <3>2. CASE id \in fired
      <4>1. id \in Ids /\ id[1] \in Slots /\ Begun(id) /\ Present(id, "running")
        BY <3>2 DEF LifeInv, TimerTypeOK, Ids
      <4>2. id[1] # s \/ id # IdOf(s)
        BY <4>1, <2>1 DEF Present, Is
      <4>. QED
        BY <4>1, <4>2, <2>1, <2>3 DEF Present, Is
    <3>. QED
      BY <3>1, <3>2, <2>2
  <2>6. \A id \in cancelled' : Begun(id)' /\ Present(id, "done")'
    BY <2>1, <2>2, <2>3 DEF LifeInv, Present, IdOf, Is, TimerTypeOK, Ids
  <2>7. \A u \in Slots : version'[u].seq + (IF Is(u, "free")' THEN 0 ELSE 1) <= adds'
    BY <2>1, <2>2 DEF LifeInv, Is
  <2>8. \A c \in Callers : Recalls(c)'
    BY <2>3, <2>2, SameCalls
  <2>. QED
    BY <2>2, <2>5, <2>6, <2>7, <2>8 DEF LifeInv
<1>6. ASSUME NEW id \in known, Cancel(id) PROVE LifeInv'
  <2>. DEFINE s == id[1]
  <2>1. id \in Ids /\ s \in Slots /\ id = IdOf(s)
    BY <1>6 DEF TimerTypeOK, Ids, Cancel, IdOf
  <2>2. /\ version'[s].seq = version[s].seq /\ version'[s].st = "done" /\ version[s].st = "scheduled"
        /\ \A u \in Slots : u # s => version'[u] = version[u]
    BY <1>6, <2>1, Becoming DEF Cancel, States
  <2>3. UNCHANGED <<deadline, call, adds, fired>> /\ cancelled' = cancelled \union {id}
    BY <1>6 DEF Cancel, history
  <2>. HIDE DEF s
  <2>4. ASSUME NEW i \in Ids, Begun(i)
        PROVE  Begun(i)' /\ (i = IdOf(i[1])' => i = IdOf(i[1]))
    BY <2>1, <2>2, <2>4 DEF Begun, IdOf, Is, Ids
  <2>5. Begun(id)
    BY <2>1, <2>2 DEF Begun, Is, IdOf
  <2>6. \A i \in fired' : Begun(i)' /\ Present(i, "running")'
    BY <2>1, <2>2, <2>3, <2>4 DEF LifeInv, Present, IdOf, Is, TimerTypeOK, Ids
  <2>7. ASSUME NEW i \in cancelled' PROVE Begun(i)' /\ Present(i, "done")'
    <3>1. CASE i = id
      BY <2>1, <2>2, <2>4, <2>5, <3>1 DEF Present, Is, s
    <3>2. CASE i # id
      <4>1. i \in Ids /\ Begun(i) /\ Present(i, "done") /\ i[1] \in Slots
        BY <2>3, <2>7, <3>2 DEF LifeInv, TimerTypeOK, Ids
      <4>. QED
        BY <2>1, <2>2, <2>4, <4>1 DEF Present, IdOf, Is
    <3>. QED
      BY <3>1, <3>2
  <2>8. \A u \in Slots : version'[u].seq + (IF Is(u, "free")' THEN 0 ELSE 1) <= adds'
    BY <2>1, <2>2, <2>3 DEF LifeInv, Is
  <2>9. \A c \in Callers : Recalls(c)'
    BY <2>4, <2>3, SameCalls
  <2>. QED
    BY <2>3, <2>6, <2>7, <2>8, <2>9 DEF LifeInv
<1>7. ASSUME NEW c \in Callers, NEW s \in Slots, NEW d \in 1..MaxTime, AddAlloc(c, s, d) PROVE LifeInv'
  <2>1. /\ version'[s].seq = version[s].seq /\ version'[s].st = "scheduled" /\ version[s].st = "free"
        /\ \A u \in Slots : u # s => version'[u] = version[u]
    BY <1>7, Becoming DEF AddAlloc, States, PlaceInv, Is
  <2>2. UNCHANGED <<fired, cancelled>> /\ adds' = adds + 1
    BY <1>7 DEF AddAlloc
  <2>3. ASSUME NEW i \in Ids, Begun(i)
        PROVE  Begun(i)' /\ i # IdOf(s) /\ IdOf(i[1])' = IdOf(i[1]) /\ (i = IdOf(i[1]) => i[1] # s)
    BY <2>1, <2>3, TimerAssumption DEF Begun, IdOf, Is, Ids, TimerTypeOK, Seqs
  <2>4. ASSUME NEW st \in States, NEW i \in Ids, Begun(i), Present(i, st) PROVE Begun(i)' /\ Present(i, st)'
    BY <2>1, <2>3, <2>4 DEF Present, Is, Ids
  <2>5. \A u \in Slots : version'[u].seq + (IF Is(u, "free")' THEN 0 ELSE 1) <= adds'
    BY <2>1, <2>2, TimerAssumption DEF LifeInv, Is, TimerTypeOK, Seqs
  <2>6. IdOf(s) \in Ids /\ Begun(IdOf(s))' /\ IdOf(s)' = IdOf(s) /\ IdOf(s)[1] = s
    BY <2>1 DEF Begun, IdOf, Is, Ids, TimerTypeOK
  <2>7. call' = [call EXCEPT ![c] = [step |-> "insert", id |-> IdOf(s), due |-> d]]
        /\ deadline' = [deadline EXCEPT ![s] = d]
    BY <1>7 DEF AddAlloc
  <2>8. ASSUME NEW e \in Callers PROVE Recalls(e)'
    <3>1. CASE e = c
      <4>1. call'[e] = [step |-> "insert", id |-> IdOf(s), due |-> d] /\ deadline'[s] = d
        BY <2>7, <3>1 DEF TimerTypeOK
      <4>. QED
        BY <4>1, <2>6 DEF Recalls, Begun, IdOf
    <3>2. CASE e # c /\ call[e].step \in Unsignalled
      <4>. DEFINE id == call[e].id
      <4>1. call'[e] = call[e] /\ id \in Ids /\ Begun(id) /\ id[1] \in Slots
        BY <2>7, <3>2, CallTypes DEF LifeInv, Recalls, TimerTypeOK, Ids
      <4>2. Begun(id)' /\ IdOf(id[1])' = IdOf(id[1]) /\ (id = IdOf(id[1]) => id[1] # s)
        BY <4>1, <2>3
      <4>3. id = IdOf(id[1]) => deadline'[id[1]] = deadline[id[1]]
        BY <4>1, <4>2, <2>7 DEF TimerTypeOK
      <4>4. call[e].step \in Adding /\ id = IdOf(id[1]) => call[e].due = deadline[id[1]]
        BY DEF LifeInv, Recalls
      <4>. QED
        BY <4>1, <4>2, <4>3, <4>4 DEF Recalls
    <3>3. CASE e # c /\ call[e].step \notin Unsignalled
      BY <3>3, <2>7 DEF Recalls, Unsignalled, TimerTypeOK
    <3>. QED
      BY <3>1, <3>2, <3>3
  <2>9. \A i \in fired' : Begun(i)' /\ Present(i, "running")'
    BY <2>2, <2>4 DEF LifeInv, TimerTypeOK, States
  <2>10. \A i \in cancelled' : Begun(i)' /\ Present(i, "done")'
    BY <2>2, <2>4 DEF LifeInv, TimerTypeOK, States
  <2>. QED
    BY <2>5, <2>8, <2>9, <2>10 DEF LifeInv
<1>8. ASSUME NEW c \in Callers, Add(c) PROVE LifeInv'
  <2>. USE DEF Unsignalled, Adding, TimerTypeOK, Idle
  <2>1. CASE AddInsert(c)
    BY <2>1, CallLives DEF AddInsert
  <2>2. CASE AddCompare(c)
    BY <2>2, CallLives DEF AddCompare
  <2>3. CASE AddSignal(c)
    BY <2>3, CallLives DEF AddSignal
  <2>4. CASE AddWake(c)
    BY <2>4, CallLives DEF AddWake
  <2>. QED
    BY <2>1, <2>2, <2>3, <2>4, <1>8 DEF Add
<1>9. CASE SampleBase \/ SweepEnd \/ Publish \/ Check \/ FutexWait \/ Timeout \/ Stop \/ Stopping \/ Tick
           \/ UNCHANGED timerVars
  BY <1>1, <1>9 DEF SampleBase, SweepEnd, Publish, Check, FutexWait, Timeout, Stop, Stopping, StopSignal, StopWake,
     Tick, timerVars
<1>. QED
  BY <1>2, <1>3, <1>4, <1>5, <1>6, <1>7, <1>8, <1>9 DEF TimerNext, Run

-----------------------------------------------------------------------------
(* Places                                                                  *)

\* A task is in one place, and its state fits the place.
LEMMA PlaceStep ==
  ASSUME TimerTypeOK, LifeInv, PlaceInv, StepInv, [TimerNext]_timerVars
  PROVE  PlaceInv'
<1>. USE DEF PlaceInv, Waits, Is, Inserts, InHand
<1>1. CASE UNCHANGED <<version, free, bucket, heap, running, call>>
  BY <1>1 DEF IdOf
<1>2. CASE Consume
  <2>. DEFINE T == {s \in bucket[index] : ~Is(s, "scheduled")}
  <2>1. index \in Buckets /\ bucket[index] \subseteq Slots /\ bucket \in [Buckets -> SUBSET Slots]
    BY <1>2 DEF StepInv, Consume, TimerTypeOK, Goto
  <2>2. T \in SUBSET Slots /\ \A s \in T : version[s].st = "done" /\ s \in bucket[index]
    BY <2>1
  <2>3. /\ free' = free \union T
        /\ \A s \in Slots : IF s \in T THEN version'[s].seq = version[s].seq + 1 /\ version'[s].st = "free"
                                       ELSE version'[s] = version[s]
    BY <2>2, <1>2, Recycling DEF Consume
  <2>4. /\ heap' = heap \union (bucket[index] \ T) /\ UNCHANGED <<running, call>>
        /\ bucket'[index] = {} /\ \A b \in Buckets : b # index => bucket'[b] = bucket[b]
    BY <1>2, <2>1 DEF Consume
  <2>5. \A c \in Callers : call[c].step = "insert" => call[c].id[1] \in Slots /\ call[c].id[1] \notin T
    BY <2>2, <2>1, CallTypes DEF Unsignalled, Adding, Ids
  <2>. HIDE DEF T
  <2>6. \A s \in Slots : (s \in free' <=> Is(s, "free")') /\ (s \in running' <=> Is(s, "running")')
    BY <2>1, <2>2, <2>3, <2>4
  <2>7. \A s \in Slots : Waits(s)' =>
           s \in heap' \/ (\E b \in Buckets : s \in bucket'[b]) \/ (\E c \in Callers : Inserts(c, s)')
    BY <2>1, <2>2, <2>3, <2>4
  <2>8. \A s \in heap' : Waits(s)' /\ \A b \in Buckets : s \notin bucket'[b]
    BY <2>1, <2>2, <2>3, <2>4 DEF TimerTypeOK
  <2>9. \A b \in Buckets : \A s \in bucket'[b] : Waits(s)' /\ \A d \in Buckets : s \in bucket'[d] => d = b
    BY <2>1, <2>2, <2>3, <2>4
  <2>10. ASSUME NEW c \in Callers, call[c].step = "insert" PROVE InHand(c)'
    BY <2>1, <2>2, <2>3, <2>4, <2>5, <2>10 DEF IdOf
  <2>. QED
    BY <2>4, <2>6, <2>7, <2>8, <2>9, <2>10
<1>3. ASSUME NEW T \in SUBSET Slots, Recycle(T), \A s \in T : version[s].st \in {"running", "done"},
             \A s \in T : (s \in running \/ s \in heap), running' = running \ T, heap' = heap \ T,
             UNCHANGED <<bucket, call>>
      PROVE  PlaceInv'
  <2>1. /\ free' = free \union T
        /\ \A s \in Slots : IF s \in T THEN version'[s].seq = version[s].seq + 1 /\ version'[s].st = "free"
                                       ELSE version'[s] = version[s]
    BY <1>3, Recycling
  <2>2. \A c \in Callers : call[c].step = "insert" => call[c].id[1] \in Slots /\ call[c].id[1] \notin T
    BY <1>3, CallTypes DEF Unsignalled, Adding, Ids
  <2>3. heap \subseteq Slots /\ \A b \in Buckets : bucket[b] \subseteq Slots
    BY DEF TimerTypeOK
  <2>4. \A s \in Slots : (s \in free' <=> Is(s, "free")') /\ (s \in running' <=> Is(s, "running")')
    BY <1>3, <2>1
  <2>5. \A s \in Slots : Waits(s)' =>
           s \in heap' \/ (\E b \in Buckets : s \in bucket'[b]) \/ (\E c \in Callers : Inserts(c, s)')
    BY <1>3, <2>1
  <2>6. \A s \in heap' : Waits(s)' /\ \A b \in Buckets : s \notin bucket'[b]
    BY <1>3, <2>1, <2>3
  <2>7. \A b \in Buckets : \A s \in bucket'[b] : Waits(s)' /\ \A d \in Buckets : s \in bucket'[d] => d = b
    BY <1>3, <2>1, <2>3
  <2>. QED
    BY <1>3, <2>1, <2>2, <2>4, <2>5, <2>6, <2>7 DEF IdOf
<1>4. CASE Return
  <2>1. \A s \in running : s \in Slots /\ s \notin heap /\ version[s].st = "running"
    BY DEF TimerTypeOK
  <2>. QED
    BY <1>3, <1>4, <2>1 DEF Return, TimerTypeOK
<1>5. ASSUME NEW s \in Slots, SweepDrop(s) PROVE PlaceInv'
  BY <1>3, <1>5 DEF SweepDrop, Due, HeapTop
<1>6. ASSUME NEW s \in Slots, SweepRun(s) PROVE PlaceInv'
  <2>1. /\ version'[s].seq = version[s].seq /\ version'[s].st = "running" /\ version[s].st = "scheduled"
        /\ \A u \in Slots : u # s => version'[u] = version[u]
    BY <1>6, Becoming DEF SweepRun, States
  <2>2. s \in heap /\ heap' = heap \ {s} /\ running' = {s} /\ running = {} /\ UNCHANGED <<free, bucket, call>>
    BY <1>6 DEF SweepRun, Due, HeapTop, StepInv, Goto
  <2>3. heap \subseteq Slots /\ \A b \in Buckets : bucket[b] \subseteq Slots
    BY DEF TimerTypeOK
  <2>4. \A c \in Callers : call[c].step = "insert" => call[c].id[1] \in Slots /\ call[c].id[1] # s
    BY <2>2, CallTypes DEF Unsignalled, Adding, Ids
  <2>. QED
    BY <2>1, <2>2, <2>3, <2>4 DEF IdOf
<1>7. ASSUME NEW id \in known, Cancel(id) PROVE PlaceInv'
  <2>1. id[1] \in Slots
    BY <1>7 DEF TimerTypeOK, Ids
  <2>2. /\ version'[id[1]].seq = version[id[1]].seq /\ version'[id[1]].st = "done" /\ version[id[1]].st = "scheduled"
        /\ \A u \in Slots : u # id[1] => version'[u] = version[u]
    BY <1>7, <2>1, Becoming DEF Cancel, States
  <2>3. UNCHANGED <<free, bucket, heap, running, call>>
    BY <1>7 DEF Cancel, lists, thread
  <2>4. heap \subseteq Slots /\ \A b \in Buckets : bucket[b] \subseteq Slots
    BY DEF TimerTypeOK
  <2>5. \A c \in Callers : call[c].step = "insert" => call[c].id[1] \in Slots
    BY CallTypes DEF Unsignalled, Adding, Ids
  <2>. QED
    BY <2>1, <2>2, <2>3, <2>4, <2>5 DEF IdOf
<1>8. ASSUME NEW c \in Callers, NEW s \in Slots, NEW d \in 1..MaxTime, AddAlloc(c, s, d) PROVE PlaceInv'
  <2>1. s \in free /\ version[s].st = "free"
    BY <1>8 DEF AddAlloc
  <2>2. /\ version'[s].seq = version[s].seq /\ version'[s].st = "scheduled"
        /\ \A u \in Slots : u # s => version'[u] = version[u]
    BY <1>8, Becoming DEF AddAlloc, States
  <2>3. free' = free \ {s} /\ UNCHANGED <<bucket, heap, running>>
    BY <1>8 DEF AddAlloc, thread
  <2>4. /\ call'[c].step = "insert" /\ call'[c].id = <<s, version[s].seq>>
        /\ \A e \in Callers : e # c => call'[e] = call[e]
    BY <1>8 DEF AddAlloc, TimerTypeOK, IdOf
  <2>5. heap \subseteq Slots /\ \A b \in Buckets : bucket[b] \subseteq Slots
    BY DEF TimerTypeOK
  <2>6. \A e \in Callers : call[e].step = "insert" => call[e].id[1] \in Slots /\ call[e].id[1] # s
    BY <2>1, CallTypes DEF Unsignalled, Adding, Ids
  <2>7. call[c].step # "insert"
    BY <1>8 DEF AddAlloc, Idle
  <2>8. call'[c].id[1] = s
    BY <2>4
  <2>9. \A u \in Slots : (u \in free' <=> Is(u, "free")') /\ (u \in running' <=> Is(u, "running")')
    BY <2>1, <2>2, <2>3
  <2>10. \A u \in Slots : Waits(u)' =>
           u \in heap' \/ (\E b \in Buckets : u \in bucket'[b]) \/ (\E e \in Callers : Inserts(e, u)')
    <3>1. ASSUME NEW u \in Slots, u # s, Waits(u)'
          PROVE  u \in heap' \/ (\E b \in Buckets : u \in bucket'[b]) \/ (\E e \in Callers : Inserts(e, u)')
      <4>1. u \in heap \/ (\E b \in Buckets : u \in bucket[b]) \/ (\E e \in Callers : Inserts(e, u))
        BY <3>1, <2>2
      <4>. QED
        BY <4>1, <2>3, <2>4, <2>7
    <3>. QED
      BY <3>1, <2>4, <2>8
  <2>11. \A u \in heap' : Waits(u)' /\ \A b \in Buckets : u \notin bucket'[b]
    BY <2>1, <2>2, <2>3, <2>5
  <2>12. \A b \in Buckets : \A u \in bucket'[b] : Waits(u)' /\ \A e \in Buckets : u \in bucket'[e] => e = b
    BY <2>1, <2>2, <2>3, <2>5
  <2>13. ASSUME NEW e \in Callers, call'[e].step = "insert"
         PROVE  InHand(e)'
    <3>1. CASE e = c
      <4>1. s \notin heap /\ (\A b \in Buckets : s \notin bucket[b]) /\ \A f \in Callers : ~Inserts(f, s)
        BY <2>1, <2>6
      <4>2. \A f \in Callers : Inserts(f, s)' => f = c
        BY <4>1, <2>4
      <4>. QED
        BY <3>1, <4>1, <4>2, <2>2, <2>3, <2>4, <2>8 DEF IdOf
    <3>2. CASE e # c
      <4>1. call'[e] = call[e] /\ call[e].step = "insert" /\ call[e].id[1] \in Slots /\ call[e].id[1] # s
        BY <3>2, <2>13, <2>4, <2>6
      <4>. DEFINE u == call[e].id[1]
      <4>2. InHand(e) /\ version'[u] = version[u]
        BY <4>1, <2>2
      <4>3. \A f \in Callers : Inserts(f, u)' => Inserts(f, u)
        BY <4>1, <2>4, <2>8
      <4>. QED
        BY <4>1, <4>2, <4>3, <2>3 DEF IdOf
    <3>. QED
      BY <3>1, <3>2
  <2>. QED
    BY <2>9, <2>10, <2>11, <2>12, <2>13 DEF IdOf
<1>9. ASSUME NEW c \in Callers, AddInsert(c) PROVE PlaceInv'
  <2>. DEFINE s == call[c].id[1]  dest == BucketOf[c]
  <2>1. s \in Slots /\ call[c].step = "insert" /\ dest \in Buckets
    BY <1>9, CallTypes, TimerAssumption DEF AddInsert, Unsignalled, Adding, Ids
  <2>2. /\ bucket'[dest] = bucket[dest] \union {s} /\ \A b \in Buckets : b # dest => bucket'[b] = bucket[b]
        /\ call'[c].step # "insert" /\ \A e \in Callers : e # c => call'[e] = call[e]
        /\ UNCHANGED <<version, free, heap, running>>
    BY <1>9, <2>1 DEF AddInsert, thread, TimerTypeOK
  <2>3. Waits(s) /\ s \notin heap /\ (\A b \in Buckets : s \notin bucket[b]) /\ \A e \in Callers : Inserts(e, s) => e = c
    BY <2>1
  <2>. HIDE DEF s, dest
  <2>4. \A b \in Buckets : \A u : u \in bucket'[b] <=> (u \in bucket[b] \/ (u = s /\ b = dest))
    BY <2>2
  <2>5. \A e \in Callers : \A u : Inserts(e, u)' <=> (Inserts(e, u) /\ e # c)
    BY <2>2
  <2>6. \A u \in Slots : (u \in free' <=> Is(u, "free")') /\ (u \in running' <=> Is(u, "running")')
    BY <2>2
  <2>7. \A u \in Slots : Waits(u)' =>
           u \in heap' \/ (\E b \in Buckets : u \in bucket'[b]) \/ (\E e \in Callers : Inserts(e, u)')
    <3>1. \A u : Inserts(c, u) => u = s
      BY DEF s
    <3>. QED
      BY <3>1, <2>1, <2>2, <2>4, <2>5
  <2>8. \A u \in heap' : Waits(u)' /\ \A b \in Buckets : u \notin bucket'[b]
    BY <2>2, <2>3, <2>4
  <2>9. \A b \in Buckets : \A u \in bucket'[b] : Waits(u)' /\ \A e \in Buckets : u \in bucket'[e] => e = b
    BY <2>2, <2>3, <2>4
  <2>10. ASSUME NEW e \in Callers, call'[e].step = "insert"
         PROVE  InHand(e)'
    <3>1. e # c /\ call'[e] = call[e] /\ call[e].id[1] # s
      BY <2>10, <2>2, <2>3
    <3>. QED
      BY <3>1, <2>10, <2>2, <2>4, <2>5 DEF IdOf
  <2>. QED
    BY <2>6, <2>7, <2>8, <2>9, <2>10 DEF IdOf
<1>10. ASSUME NEW c \in Callers, AddCompare(c) \/ AddSignal(c) \/ AddWake(c) PROVE PlaceInv'
  <2>1. /\ UNCHANGED <<version, free, bucket, heap, running>>
        /\ call[c].step # "insert" /\ call'[c].step # "insert" /\ \A e \in Callers : e # c => call'[e] = call[e]
    <3>1. CASE AddCompare(c)
      BY <3>1 DEF AddCompare, TimerTypeOK, lists, thread
    <3>2. CASE AddSignal(c)
      BY <3>2 DEF AddSignal, TimerTypeOK, lists, thread, Idle
    <3>3. CASE AddWake(c)
      BY <3>3 DEF AddWake, TimerTypeOK, lists, Idle
    <3>. QED
      BY <3>1, <3>2, <3>3, <1>10
  <2>2. \A e \in Callers : call'[e].step = "insert" => call[e].step = "insert" /\ call'[e] = call[e]
    BY <2>1
  <2>3. \A e \in Callers, u \in Slots : Inserts(e, u)' <=> Inserts(e, u)
    BY <2>1
  <2>4. \A e \in Callers : call[e].step = "insert" => call[e].id[1] \in Slots
    BY CallTypes DEF Unsignalled, Adding, Ids
  <2>. QED
    BY <2>1, <2>2, <2>3, <2>4 DEF IdOf
<1>11. CASE SampleBase \/ SweepEnd \/ Publish \/ Check \/ FutexWait \/ Timeout \/ Stop \/ Stopping \/ Tick
           \/ UNCHANGED timerVars
  BY <1>1, <1>11 DEF SampleBase, SweepEnd, Publish, Check, FutexWait, Timeout, Stop, Stopping, StopSignal, StopWake,
     Tick, timerVars, lists, thread
<1>. QED
  BY <1>2, <1>4, <1>5, <1>6, <1>7, <1>8, <1>9, <1>10, <1>11 DEF TimerNext, Run, Add

-----------------------------------------------------------------------------
(* Sleep                                                                   *)

\* What is in the buckets keeps its life.
LEMMA SameLives ==
  ASSUME TimerTypeOK, PlaceInv, NEW T \in SUBSET Slots, Recycle(T), LifeInv,
         \A s \in T : ~Is(s, "free"),
         NEW b \in Buckets, NEW s \in bucket[b], s \notin T
  PROVE  IdOf(s)' = IdOf(s)
BY Recycling DEF IdOf, TimerTypeOK

\* The steps of the thread that neither end a life nor leave the sleep keep what was heard.
LEMMA HeardStays ==
  ASSUME HeardInv, UNCHANGED <<call, heard>>,
         \A id \in heard : Begun(id) => Begun(id)'
  PROVE  HeardInv'
BY DEF HeardInv, Unheard

\* A life that has begun goes on or is over, whatever the thread recycles.
LEMMA RecycleHeard ==
  ASSUME TimerTypeOK, LifeInv, HeardInv, NEW T \in SUBSET Slots, Recycle(T),
         \A s \in T : ~Is(s, "free"), UNCHANGED <<call, heard>>
  PROVE  HeardInv'
<1>1. ASSUME NEW id \in Ids, Begun(id) PROVE Begun(id)'
  <2>1. id[1] \in Slots /\ id[2] \in Nat /\ version[id[1]].seq \in Nat
    BY <1>1 DEF Ids, Seqs, TimerTypeOK
  <2>2. CASE id[1] \in T
    <3>1. version'[id[1]].seq = version[id[1]].seq + 1
      BY <2>2, Recycling
    <3>2. id[2] <= version[id[1]].seq
      BY <1>1, <2>1 DEF Begun, IdOf
    <3>. QED
      BY <2>1, <3>1, <3>2 DEF Begun
  <2>3. CASE id[1] \notin T
    <3>1. version'[id[1]] = version[id[1]]
      BY <2>1, <2>3, Recycling
    <3>. QED
      BY <1>1, <3>1 DEF Begun, IdOf, Is
  <2>. QED
    BY <2>2, <2>3
<1>. QED
  BY <1>1, HeardStays DEF TimerTypeOK

\* The steps of the thread: what it empties stays signalled, and what it has heard of is in its
\* heap when it parks.
LEMMA ThreadSleeps ==
  ASSUME TimerTypeOK, LifeInv, PlaceInv, StepInv, SleepInv, Run
  PROVE  SleepInv'
<1>. USE DEF SleepInv, Goto
<1>0. \A b \in Buckets : b \in Nat /\ 1 <= b /\ b <= NumBuckets
  BY TimerAssumption DEF Buckets
<1>a. ASSUME UNCHANGED <<version, call, heard>> PROVE HeardInv'
  BY <1>a, HeardStays DEF Begun, IdOf, Is
<1>1. CASE SampleBase
  BY <1>0, <1>1, <1>a DEF SampleBase, history, Signalled, SleepsToHeard, Emptied
<1>2. CASE Consume
  <2>. DEFINE T == {s \in bucket[index] : ~Is(s, "scheduled")}
  <2>1. index \in Buckets /\ bucket[index] \subseteq Slots /\ bucket \in [Buckets -> SUBSET Slots]
    BY <1>2 DEF StepInv, Consume, TimerTypeOK
  <2>2. T \in SUBSET Slots /\ \A s \in T : ~Is(s, "free") /\ s \in bucket[index]
    BY <2>1 DEF PlaceInv, Waits, Is
  <2>3. Recycle(T)
    BY <1>2 DEF Consume
  <2>. HIDE DEF T
  <2>4. ASSUME NEW b \in Buckets, Emptied(b)', nsignals' = base', NEW s \in bucket'[b]
        PROVE  AddedBy(s, {"compare", "signal"})'
    <3>1. b # index /\ bucket'[b] = bucket[b] /\ UNCHANGED <<call, nsignals, base>>
      BY <1>2, <2>1, <2>4 DEF Consume
    <3>2. Emptied(b)
      BY <1>0, <1>2, <2>1, <2>4, <3>1 DEF Consume, Emptied
    <3>3. IdOf(s)' = IdOf(s)
      BY <2>1, <2>2, <2>3, <2>4, <3>1, SameLives DEF PlaceInv
    <3>. QED
      BY <2>4, <3>1, <3>2, <3>3 DEF Signalled, AddedBy
  <2>5. step' \in {"consume", "sweep"} /\ UNCHANGED <<call, heard>>
    BY <1>2 DEF Consume, history
  <2>6. HeardInv'
    BY <2>2, <2>3, <2>5, RecycleHeard
  <2>. QED
    BY <2>4, <2>5, <2>6 DEF Signalled, SleepsToHeard
<1>3. ASSUME NEW T \in SUBSET Slots, Recycle(T), \A s \in T : s \in heap \/ s \in running, step' = "sweep",
             step \in {"sweep", "fn"}, UNCHANGED <<bucket, call, heard, nsignals, base>>
      PROVE  SleepInv'
  <2>0. \A u \in T : ~Is(u, "free")
    BY <1>3 DEF PlaceInv, Waits, Is, TimerTypeOK
  <2>1. ASSUME NEW b \in Buckets, nsignals = base, NEW s \in bucket[b]
        PROVE  AddedBy(s, {"compare", "signal"})'
    <3>1. AddedBy(s, {"compare", "signal"})
      BY <1>3, <2>1 DEF Signalled, Emptied
    <3>2. s \notin T
      BY <1>3, <2>1 DEF PlaceInv, Waits, Is, TimerTypeOK
    <3>3. IdOf(s)' = IdOf(s)
      BY <1>3, <2>0, <2>1, <3>2, SameLives
    <3>. QED
      BY <1>3, <3>1, <3>3 DEF AddedBy
  <2>2. HeardInv'
    BY <1>3, <2>0, RecycleHeard
  <2>. QED
    BY <1>3, <2>1, <2>2 DEF Signalled, SleepsToHeard
<1>4. CASE Return
  BY <1>3, <1>4 DEF Return, TimerTypeOK, history
<1>5. ASSUME NEW s \in Slots, SweepDrop(s) PROVE SleepInv'
  BY <1>3, <1>5 DEF SweepDrop, Due, HeapTop, history
<1>6. ASSUME NEW s \in Slots, SweepRun(s) PROVE SleepInv'
  <2>1. \A u \in Slots : IdOf(u)' = IdOf(u) /\ (~Is(u, "free") => ~Is(u, "free")')
    BY <1>6, Becoming DEF SweepRun, States, IdOf, Is
  <2>2. \A b \in Buckets : bucket[b] \subseteq Slots
    BY DEF TimerTypeOK
  <2>3. HeardInv'
    <3>1. \A id \in Ids : Begun(id) => Begun(id)'
      BY <2>1 DEF Begun, IdOf, Ids
    <3>. QED
      BY <1>6, <3>1, HeardStays DEF SweepRun, TimerTypeOK
  <2>. QED
    BY <1>6, <2>1, <2>2, <2>3 DEF SweepRun, Signalled, SleepsToHeard, Emptied, AddedBy
<1>7. CASE SweepEnd \/ Publish \/ Check
  BY <1>7, <1>a DEF SweepEnd, Publish, Check, lists, history, Signalled, SleepsToHeard, Emptied, AddedBy, IdOf
<1>8. CASE FutexWait
  <2>0. UNCHANGED <<version, deadline, bucket, heap, call, heard, nsignals, base>> /\ HeardInv'
    BY <1>8, <1>a DEF FutexWait, lists, history
  <2>1. CASE nsignals # base
    BY <1>8, <2>0, <2>1 DEF FutexWait, Signalled, SleepsToHeard, Emptied
  <2>2. CASE nsignals = base
    <3>1. step = "park" /\ step' = "parked" /\ until' = HeapNearest
      BY <1>8, <2>2 DEF FutexWait
    <3>2. ASSUME NEW s \in Slots, Is(s, "scheduled"), IdOf(s) \in heard PROVE until' <= deadline[s]
      <4>0. ~AddedBy(s, Unsignalled)
        BY <3>2 DEF AddedBy, HeardInv, Unheard
      <4>1. \A b \in Buckets : s \notin bucket[b]
        BY <2>2, <3>1, <4>0 DEF Signalled, Emptied, AddedBy, Unsignalled, Adding
      <4>2. \A c \in Callers : ~Inserts(c, s)
        BY <4>0 DEF PlaceInv, InHand, Inserts, AddedBy, Unsignalled, Adding
      <4>3. s \in heap
        BY <3>2, <4>1, <4>2 DEF PlaceInv, Waits
      <4>. QED
        BY <3>1, <4>3, HeapBound
    <3>. QED
      BY <2>0, <3>1, <3>2 DEF Signalled, SleepsToHeard, Emptied, IdOf, Is
  <2>. QED
    BY <2>1, <2>2
<1>9. CASE Timeout
  BY <1>9, <1>a DEF Timeout, WakeThread, history, Signalled, SleepsToHeard, Emptied
<1>. QED
  BY <1>1, <1>2, <1>4, <1>5, <1>6, <1>7, <1>8, <1>9 DEF Run

\* The steps of adds: an add in an emptied bucket will signal, and one that is heard of while the
\* thread sleeps will wake it.
LEMMA AddSleeps ==
  ASSUME TimerTypeOK, LifeInv, PlaceInv, StepInv, SleepInv, NEW c \in Callers, Add(c)
  PROVE  SleepInv'
<1>. USE DEF SleepInv
<1>0. \A b \in Buckets : bucket[b] \subseteq Slots
  BY DEF TimerTypeOK
<1>1. CASE AddInsert(c)
  <2>. DEFINE s == call[c].id[1]  dest == BucketOf[c]
  <2>1. /\ s \in Slots /\ call[c].step = "insert" /\ dest \in Buckets /\ call[c].id = IdOf(s)
        /\ bucket \in [Buckets -> SUBSET Slots]
    BY <1>1, CallTypes, TimerAssumption DEF AddInsert, Unsignalled, Adding, Ids, TimerTypeOK, PlaceInv, InHand
  <2>2. /\ bucket'[dest] = bucket[dest] \union {s} /\ \A b \in Buckets : b # dest => bucket'[b] = bucket[b]
        /\ call'[c].step = "compare" /\ call'[c].id = call[c].id /\ \A e \in Callers : e # c => call'[e] = call[e]
    BY <1>1, <2>1 DEF AddInsert, TimerTypeOK, Calls, Idle
  <2>3. UNCHANGED <<version, deadline, nsignals, step, base, index, until, heard>>
    BY <1>1 DEF AddInsert, thread, history
  <2>. HIDE DEF s, dest
  <2>5. \A u \in Slots : IdOf(u)' = IdOf(u)
    BY <2>3 DEF IdOf
  <2>6. \A u \in Slots : AddedBy(u, {"compare", "signal"}) => AddedBy(u, {"compare", "signal"})'
    BY <2>1, <2>2, <2>5 DEF AddedBy
  <2>7. \A u \in Slots : u = s => AddedBy(u, {"compare", "signal"})'
    BY <2>1, <2>2, <2>5 DEF AddedBy
  <2>8. Signalled'
    <3>1. ASSUME NEW b \in Buckets, Emptied(b)', nsignals' = base', NEW u \in bucket'[b]
          PROVE  AddedBy(u, {"compare", "signal"})'
      <4>1. Emptied(b) /\ nsignals = base
        BY <3>1, <2>3 DEF Emptied
      <4>2. u = s \/ u \in bucket[b]
        BY <3>1, <2>2
      <4>. QED
        BY <4>1, <4>2, <1>0, <2>1, <2>6, <2>7 DEF Signalled
    <3>. QED
      BY <3>1 DEF Signalled
  <2>9. HeardInv'
    BY <2>1, <2>2, <2>3 DEF HeardInv, Unheard, Begun, IdOf, Is, Unsignalled, Adding
  <2>10. SleepsToHeard'
    BY <2>1, <2>2, <2>3 DEF SleepsToHeard, Is, IdOf
  <2>. QED
    BY <2>8, <2>9, <2>10
<1>2. CASE AddCompare(c)
  <2>1. /\ call[c].step = "compare" /\ call'[c].step = "signal" /\ call'[c].id = call[c].id
        /\ \A e \in Callers : e # c => call'[e] = call[e]
        /\ UNCHANGED <<version, deadline, bucket, nsignals, step, base, index, until, heard>>
    BY <1>2 DEF AddCompare, TimerTypeOK, thread, lists, history
  <2>2. \A u \in Slots : AddedBy(u, {"compare", "signal"}) => AddedBy(u, {"compare", "signal"})'
    BY <2>1 DEF AddedBy, IdOf
  <2>3. Signalled'
    BY <1>0, <2>1, <2>2 DEF Signalled, Emptied
  <2>4. HeardInv'
    BY <2>1 DEF HeardInv, Unheard, Begun, IdOf, Is, Unsignalled, Adding
  <2>5. SleepsToHeard'
    BY <2>1 DEF SleepsToHeard, Is, IdOf
  <2>. QED
    BY <2>3, <2>4, <2>5
<1>3. CASE AddSignal(c)
  <2>1. /\ call[c].step = "signal" /\ call[c].wake \in BOOLEAN /\ nsignals' # base'
        /\ call'[c].step = IF call[c].wake THEN "wake" ELSE "idle"
        /\ \A e \in Callers : e # c => call'[e] = call[e]
        /\ heard' = IF call[c].wake \/ step # "parked" THEN heard \union {call[c].id} ELSE heard
    BY <1>3, CallTypes DEF AddSignal, Hear, thread, TimerTypeOK, Idle
  <2>2. UNCHANGED <<version, deadline, step, until>>
    BY <1>3 DEF AddSignal, thread
  <2>3. HeardInv'
    <3>1. Begun(call[c].id)
      BY <2>1 DEF LifeInv, Recalls, Unsignalled
    <3>2. \A id \in heard' : Begun(id)'
      BY <2>1, <2>2, <3>1 DEF HeardInv, Begun, IdOf, Is
    <3>3. ASSUME NEW e \in Callers, call'[e].step \in Unsignalled PROVE Unheard(e)'
      <4>1. e # c /\ call'[e] = call[e]
        BY <2>1, <3>3 DEF Unsignalled, Adding
      <4>2. Unheard(e) /\ call[c].id # call[e].id
        BY <2>1, <3>3, <4>1 DEF HeardInv, Unheard, Unsignalled
      <4>. QED
        BY <2>1, <4>1, <4>2 DEF Unheard, Unsignalled, Adding
    <3>. QED
      BY <3>2, <3>3 DEF HeardInv
  <2>4. SleepsToHeard'
    <3>1. CASE call[c].wake
      BY <2>1, <3>1 DEF SleepsToHeard
    <3>2. CASE ~call[c].wake
      BY <2>1, <2>2, <3>2 DEF SleepsToHeard, Is, IdOf
    <3>. QED
      BY <3>1, <3>2, <2>1
  <2>. QED
    BY <2>1, <2>3, <2>4 DEF Signalled
<1>4. CASE AddWake(c)
  <2>1. /\ call[c].step = "wake" /\ call'[c].step = "idle" /\ \A e \in Callers : e # c => call'[e] = call[e]
        /\ step' # "parked" /\ step' \in {step, "base"}
        /\ UNCHANGED <<version, deadline, bucket, nsignals, base, index, heard>>
    BY <1>4 DEF AddWake, WakeThread, lists, TimerTypeOK, Idle, history
  <2>3. \A b \in Buckets : Emptied(b)' => Emptied(b)
    BY <2>1 DEF Emptied
  <2>4. \A u \in Slots : AddedBy(u, {"compare", "signal"}) => AddedBy(u, {"compare", "signal"})'
    BY <2>1 DEF AddedBy, IdOf
  <2>5. HeardInv'
    BY <2>1 DEF HeardInv, Unheard, Begun, IdOf, Is, Unsignalled, Adding
  <2>. QED
    BY <1>0, <2>1, <2>3, <2>4, <2>5 DEF Signalled, SleepsToHeard
<1>. QED
  BY <1>1, <1>2, <1>3, <1>4 DEF Add

\* The other steps: a begin of an add, a cancel, a stop and the clock.
LEMMA OtherSleeps ==
  ASSUME TimerTypeOK, LifeInv, PlaceInv, StepInv, SleepInv,
         \/ \E c \in Callers, s \in Slots, d \in 1..MaxTime : AddAlloc(c, s, d)
         \/ \E id \in known : Cancel(id)
         \/ Stop \/ Stopping \/ Tick \/ UNCHANGED timerVars
  PROVE  SleepInv'
<1>. USE DEF SleepInv
<1>0. \A b \in Buckets : bucket[b] \subseteq Slots
  BY DEF TimerTypeOK
<1>1. ASSUME NEW c \in Callers, NEW s \in Slots, NEW d \in 1..MaxTime, AddAlloc(c, s, d) PROVE SleepInv'
  <2>1. s \in free /\ version[s].st = "free" /\ \A b \in Buckets : s \notin bucket[b]
    BY <1>1 DEF AddAlloc, PlaceInv, Is, Waits
  <2>2. /\ version'[s].seq = version[s].seq /\ version'[s].st = "scheduled"
        /\ \A u \in Slots : u # s => version'[u] = version[u]
    BY <1>1, Becoming DEF AddAlloc, States
  <2>3. /\ call[c].step = "idle" /\ call'[c].step = "insert" /\ call'[c].id = IdOf(s)
        /\ \A e \in Callers : e # c => call'[e] = call[e]
        /\ \A u \in Slots : u # s => deadline'[u] = deadline[u]
    BY <1>1 DEF AddAlloc, TimerTypeOK, Idle
  <2>4. UNCHANGED <<bucket, nsignals, step, base, index, until, heard>>
    BY <1>1 DEF AddAlloc, thread, history
  <2>6. \A u \in Slots : IdOf(u)' = IdOf(u)
    BY <2>2 DEF IdOf
  <2>7. \A u \in Slots : AddedBy(u, {"compare", "signal"}) => AddedBy(u, {"compare", "signal"})'
    BY <2>3, <2>6 DEF AddedBy
  <2>8. \A id \in Ids : Begun(id) => id # IdOf(s) /\ Begun(id)'
    BY <2>1, <2>2, <2>6 DEF Begun, IdOf, Is, Ids, Seqs, TimerTypeOK
  <2>9. IdOf(s) \notin heard
    BY <2>8 DEF HeardInv, TimerTypeOK
  <2>10. HeardInv'
    <3>1. ASSUME NEW e \in Callers, e # c, call[e].step \in Unsignalled PROVE call[e].id # IdOf(s)
      BY <2>8, <3>1, CallTypes DEF LifeInv, Recalls
    <3>2. \A e \in Callers : call'[e].step \in Unsignalled => Unheard(e)'
      BY <2>3, <2>4, <2>9, <3>1 DEF HeardInv, Unheard
    <3>. QED
      BY <2>4, <2>8, <3>2 DEF HeardInv, TimerTypeOK
  <2>11. Signalled'
    BY <1>0, <2>4, <2>7 DEF Signalled, Emptied
  <2>12. SleepsToHeard'
    <3>1. \A u \in Slots : u # s => (Is(u, "scheduled")' <=> Is(u, "scheduled"))
      BY <2>2 DEF Is
    <3>. QED
      BY <3>1, <2>3, <2>4, <2>6, <2>9 DEF SleepsToHeard
  <2>. QED
    BY <2>10, <2>11, <2>12
<1>2. ASSUME NEW id \in known, Cancel(id) PROVE SleepInv'
  <2>1. id[1] \in Slots
    BY <1>2 DEF TimerTypeOK, Ids
  <2>2. /\ version'[id[1]].seq = version[id[1]].seq /\ version'[id[1]].st = "done"
        /\ \A u \in Slots : u # id[1] => version'[u] = version[u]
    BY <1>2, <2>1, Becoming DEF Cancel, States
  <2>3. UNCHANGED <<deadline, bucket, nsignals, step, base, index, until, call, heard>>
    BY <1>2 DEF Cancel, thread, lists
  <2>5. \A u \in Slots : IdOf(u)' = IdOf(u) /\ (Is(u, "scheduled")' => Is(u, "scheduled"))
                         /\ (~Is(u, "free") => ~Is(u, "free")')
    BY <2>2 DEF IdOf, Is
  <2>6. Signalled'
    BY <1>0, <2>3, <2>5 DEF Signalled, Emptied, AddedBy
  <2>7. HeardInv'
    <3>1. \A x \in Ids : Begun(x) => Begun(x)'
      BY <2>5 DEF Begun, IdOf, Ids
    <3>. QED
      BY <2>3, <3>1, HeardStays DEF TimerTypeOK
  <2>8. SleepsToHeard'
    BY <2>3, <2>5 DEF SleepsToHeard
  <2>. QED
    BY <2>6, <2>7, <2>8
<1>3. CASE Stop \/ StopSignal \/ Tick \/ UNCHANGED timerVars
  <2>1. /\ UNCHANGED <<version, deadline, bucket, step, base, index, until, call, heard>>
        /\ nsignals' = nsignals \/ nsignals' # base'
    BY <1>3 DEF Stop, StopSignal, Tick, timerVars, thread, lists, history, TimerTypeOK
  <2>. QED
    BY <2>1, HeardStays DEF Signalled, SleepsToHeard, Emptied, AddedBy, IdOf, Is, Begun
<1>4. CASE StopWake
  <2>1. /\ UNCHANGED <<version, deadline, bucket, nsignals, base, index, call, heard>>
        /\ step' # "parked" /\ step' \in {step, "base"}
    BY <1>4 DEF StopWake, WakeThread, lists, history
  <2>. QED
    BY <2>1, HeardStays DEF Signalled, SleepsToHeard, Emptied, AddedBy, IdOf, Is, Begun
<1>. QED
  BY <1>1, <1>2, <1>3, <1>4 DEF Stopping

-----------------------------------------------------------------------------
(* Theorems                                                                *)

TimerInv == TimerTypeOK /\ LifeInv /\ PlaceInv /\ StepInv

\* At the start every task is free, and nothing is on its way.
LEMMA TimerBegins == TimerInit => TimerInv /\ SleepInv
<1>. SUFFICES ASSUME TimerInit PROVE TimerInv /\ SleepInv
  OBVIOUS
<1>1. TimerTypeOK
  <2>1. /\ version \in [Slots -> [seq : Seqs, st : {"free", "scheduled", "running", "done"}]]
        /\ deadline \in [Slots -> 0..MaxTime]
    BY TimerAssumption DEF TimerInit, Seqs
  <2>2. bucket \in [Buckets -> SUBSET Slots] /\ call \in [Callers -> Calls] /\ index \in 1..NumBuckets + 1
    BY TimerAssumption DEF TimerInit, Calls
  <2>3. /\ nearest \in 0..Never /\ nsignals \in Nat /\ base \in 0..nsignals /\ clock \in 0..now
        /\ until \in 0..Never /\ now \in 0..MaxTime /\ adds \in 0..MaxAdds
    BY TimerAssumption DEF TimerInit
  <2>. QED
    BY <2>1, <2>2, <2>3 DEF TimerInit, TimerTypeOK
<1>2. LifeInv
  BY TimerAssumption DEF TimerInit, LifeInv, Recalls, Idle, Unsignalled, Adding, Is
<1>3. PlaceInv /\ StepInv
  BY DEF TimerInit, PlaceInv, StepInv, Waits, Is, Idle
<1>4. SleepInv
  BY DEF TimerInit, SleepInv, HeardInv, Signalled, SleepsToHeard, Emptied, Idle, Unsignalled, Adding
<1>. QED
  BY <1>1, <1>2, <1>3, <1>4 DEF TimerInv

\* Types, lives and lists hold whatever the threads do and in whatever order.
THEOREM TimerInvariance == TimerSystem => []TimerInv
<1>1. TimerInit => TimerInv
  BY TimerBegins
<1>2. TimerInv /\ [TimerNext]_timerVars => TimerInv'
  BY TypeStep, LifeStep, PlaceStep DEF TimerInv
<1>. QED
  BY <1>1, <1>2, PTL DEF TimerSystem

\* A task is in one place, and its state fits the place: of the free list, the buckets, the heap,
\* fn and the hands of the callers.
THEOREM TaskInOnePlace == TimerSystem => []OnePlace
<1>1. TimerInv => OnePlace
  <2>. SUFFICES ASSUME TimerInv, NEW s \in Slots
                PROVE  /\ \E p \in Places : \A q \in Places : Holds(q, s) <=> q = p
                       /\ s \in free <=> Is(s, "free")
                       /\ s \in running <=> Is(s, "running")
    BY DEF OnePlace
  <2>1. version[s].st \in {"free", "scheduled", "running", "done"}
    BY DEF TimerInv, TimerTypeOK
  <2>2. (s \in free <=> Is(s, "free")) /\ (s \in running <=> Is(s, "running"))
    BY DEF TimerInv, PlaceInv
  <2>3. /\ Holds(<<"free">>, s) <=> s \in free
        /\ Holds(<<"heap">>, s) <=> s \in heap
        /\ Holds(<<"fn">>, s) <=> s \in running
        /\ \A b \in Buckets : Holds(<<"bucket", b>>, s) <=> s \in bucket[b]
        /\ \A c \in Callers : Holds(<<"add", c>>, s) <=> Inserts(c, s)
    BY DEF Holds, Inserts
  <2>4. ASSUME NEW q \in Places
        PROVE  \/ q = <<"free">> \/ q = <<"heap">> \/ q = <<"fn">>
               \/ \E b \in Buckets : q = <<"bucket", b>>
               \/ \E c \in Callers : q = <<"add", c>>
    BY DEF Places
  <2>5. /\ <<"free">> \in Places /\ <<"heap">> \in Places /\ <<"fn">> \in Places
        /\ \A b \in Buckets : <<"bucket", b>> \in Places
        /\ \A c \in Callers : <<"add", c>> \in Places
    BY DEF Places
  <2>6. /\ s \in heap => Waits(s) /\ \A b \in Buckets : s \notin bucket[b]
        /\ \A b \in Buckets : s \in bucket[b] => Waits(s) /\ \A d \in Buckets : s \in bucket[d] => d = b
        /\ \A c \in Callers : Inserts(c, s) =>
               Waits(s) /\ s \notin heap /\ (\A b \in Buckets : s \notin bucket[b]) /\ \A d \in Callers : Inserts(d, s) => d = c
        /\ Waits(s) => s \in heap \/ (\E b \in Buckets : s \in bucket[b]) \/ (\E c \in Callers : Inserts(c, s))
    BY DEF TimerInv, PlaceInv, InHand, Inserts
  <2>7. CASE s \in free
    <3>1. \A q \in Places : Holds(q, s) <=> q = <<"free">>
      BY <2>2, <2>3, <2>4, <2>6, <2>7 DEF Waits, Is
    <3>. QED
      BY <3>1, <2>2, <2>5
  <2>8. CASE s \in running
    <3>1. \A q \in Places : Holds(q, s) <=> q = <<"fn">>
      BY <2>2, <2>3, <2>4, <2>6, <2>8 DEF Waits, Is
    <3>. QED
      BY <3>1, <2>2, <2>5
  <2>9. CASE s \in heap
    <3>1. \A q \in Places : Holds(q, s) <=> q = <<"heap">>
      BY <2>2, <2>3, <2>4, <2>6, <2>9 DEF Waits, Is
    <3>. QED
      BY <3>1, <2>2, <2>5
  <2>10. ASSUME NEW b \in Buckets, s \in bucket[b]
         PROVE  \E p \in Places : \A q \in Places : Holds(q, s) <=> q = p
    <3>1. \A q \in Places : Holds(q, s) <=> q = <<"bucket", b>>
      BY <2>2, <2>3, <2>4, <2>6, <2>10 DEF Waits, Is
    <3>. QED
      BY <3>1, <2>5
  <2>11. ASSUME NEW c \in Callers, Inserts(c, s)
         PROVE  \E p \in Places : \A q \in Places : Holds(q, s) <=> q = p
    <3>1. \A q \in Places : Holds(q, s) <=> q = <<"add", c>>
      BY <2>2, <2>3, <2>4, <2>6, <2>11 DEF Waits, Is
    <3>. QED
      BY <3>1, <2>5
  <2>12. Is(s, "free") \/ Is(s, "running") \/ Waits(s)
    BY <2>1 DEF Waits, Is
  <2>. QED
    BY <2>2, <2>6, <2>7, <2>8, <2>9, <2>10, <2>11, <2>12
<1>. QED
  BY <1>1, TimerInvariance, PTL

\* The thread sleeps past no timer whose add made its fetch_add before the thread slept, or means
\* to wake it: whatever the callers do and in whatever order.
THEOREM HeardInTime == TimerSystem => []SleepsToHeard
<1>1. TimerInit => TimerInv /\ SleepInv
  BY TimerBegins
<1>2. TimerInv /\ SleepInv /\ [TimerNext]_timerVars => (TimerInv /\ SleepInv)'
  <2>. SUFFICES ASSUME TimerInv, SleepInv, [TimerNext]_timerVars PROVE (TimerInv /\ SleepInv)'
    OBVIOUS
  <2>1. TimerInv'
    BY TypeStep, LifeStep, PlaceStep DEF TimerInv
  <2>2. CASE Run
    BY <2>1, <2>2, ThreadSleeps DEF TimerInv
  <2>3. CASE \E c \in Callers : Add(c)
    BY <2>1, <2>3, AddSleeps DEF TimerInv
  <2>4. CASE \/ \E c \in Callers, s \in Slots, d \in 1..MaxTime : AddAlloc(c, s, d)
             \/ \E id \in known : Cancel(id)
             \/ Stop \/ Stopping \/ Tick \/ UNCHANGED timerVars
    BY <2>1, <2>4, OtherSleeps DEF TimerInv
  <2>. QED
    BY <2>1, <2>2, <2>3, <2>4 DEF TimerNext
<1>3. SleepInv => SleepsToHeard
  BY DEF SleepInv
<1>. QED
  BY <1>1, <1>2, <1>3, PTL DEF TimerSystem

-----------------------------------------------------------------------------
(* Refinement                                                              *)

\* Lives that are not armed may end.
LEMMA RecyclingHides ==
  ASSUME TimerInv, NEW T \in SUBSET Slots, Recycle(T), \A s \in T : Is(s, "running") \/ Is(s, "done"),
         UNCHANGED <<deadline, fired, cancelled>>
  PROVE  Status' = Status /\ DueAt' = DueAt
<1>1. \A s \in Slots : IF s \in T THEN version'[s].seq = version[s].seq + 1 /\ version'[s].st = "free"
                                  ELSE version'[s] = version[s]
  BY Recycling DEF TimerInv, Is
<1>2. ASSUME NEW id \in Ids PROVE Armed(id)' <=> Armed(id)
  BY <1>1 DEF Armed, Ids, Is
<1>. QED
  BY <1>2 DEF Status, DueAt

\* A step of the timer is one of a timer as lm_timer.h describes it, or changes none.
LEMMA PromiseStep ==
  ASSUME TimerInv, [TimerNext]_timerVars
  PROVE  Promise!Next \/ UNCHANGED <<Status, DueAt, now>>
<1>. USE DEF TimerInv
<1>1. ASSUME UNCHANGED <<version, deadline, fired, cancelled>> PROVE UNCHANGED <<Status, DueAt>>
  BY <1>1 DEF Status, DueAt, Armed
<1>2. CASE \/ SampleBase \/ SweepEnd \/ Publish \/ Check \/ FutexWait \/ Timeout \/ Stop \/ Stopping
           \/ (\E c \in Callers : Add(c)) \/ UNCHANGED timerVars
  BY <1>1, <1>2 DEF SampleBase, SweepEnd, Publish, Check, FutexWait, Timeout, Stop, Stopping, StopSignal, StopWake,
     Add, AddInsert, AddCompare, AddSignal, AddWake, timerVars, lists, thread, history
<1>3. CASE Tick
  BY <1>1, <1>3 DEF Tick, history, Promise!Next, Promise!Tick
<1>4. CASE Consume
  <2>. DEFINE T == {s \in bucket[index] : ~Is(s, "scheduled")}
  <2>1. T \in SUBSET Slots /\ \A s \in T : Is(s, "running") \/ Is(s, "done")
    BY <1>4 DEF StepInv, Consume, TimerTypeOK, Goto, PlaceInv, Waits
  <2>2. Recycle(T) /\ UNCHANGED <<deadline, fired, cancelled, now>>
    BY <1>4 DEF Consume, history
  <2>. QED
    BY <2>1, <2>2, RecyclingHides
<1>5. CASE Return
  BY <1>5, RecyclingHides DEF Return, history, PlaceInv, TimerTypeOK
<1>6. ASSUME NEW s \in Slots, SweepDrop(s) PROVE UNCHANGED <<Status, DueAt, now>>
  BY <1>6, RecyclingHides DEF SweepDrop, history
<1>7. ASSUME NEW s \in Slots, SweepRun(s) PROVE Promise!Next
  <2>. DEFINE id0 == <<s, version[s].seq>>
  <2>1. /\ version'[s].seq = version[s].seq /\ version'[s].st = "running" /\ version[s].st = "scheduled"
        /\ \A u \in Slots : u # s => version'[u] = version[u]
    BY <1>7, Becoming DEF SweepRun, States, Is
  <2>2. /\ fired' = fired \union {id0} /\ UNCHANGED <<deadline, cancelled, now>> /\ deadline[s] <= now
    BY <1>7, TimerAssumption DEF SweepRun, IdOf, Due, TimerTypeOK
  <2>3. id0 \in Ids /\ Armed(id0) /\ id0 \notin fired /\ id0 \notin cancelled
    BY <2>1 DEF TimerTypeOK, Ids, Armed, LifeInv, Present, IdOf, Is
  <2>4. \A id \in Ids : Armed(id)' <=> Armed(id) /\ id # id0
    BY <2>1 DEF Armed, Ids, TimerTypeOK
  <2>. HIDE DEF id0
  <2>5. Status[id0] = "armed" /\ Status' = [Status EXCEPT ![id0] = "fired"]
    BY <2>2, <2>3, <2>4 DEF Status
  <2>6. DueAt[id0] <= now /\ DueAt' = [DueAt EXCEPT ![id0] = 0]
    BY <2>2, <2>3, <2>4 DEF DueAt, id0
  <2>. QED
    BY <2>2, <2>3, <2>5, <2>6 DEF Promise!Next, Promise!Fire, Promise!Over, Promise!Become
<1>8. ASSUME NEW id0 \in known, Cancel(id0) PROVE Promise!Next
  <2>. DEFINE s == id0[1]
  <2>1. id0 \in Ids /\ s \in Slots /\ Armed(id0) /\ id0 = <<s, version[s].seq>> /\ version[s].st = "scheduled"
    BY <1>8 DEF TimerTypeOK, Ids, Cancel, Armed
  <2>2. /\ version'[s].seq = version[s].seq /\ version'[s].st = "done"
        /\ \A u \in Slots : u # s => version'[u] = version[u]
    BY <1>8, <2>1, Becoming DEF Cancel, States
  <2>3. cancelled' = cancelled \union {id0} /\ UNCHANGED <<deadline, fired, now>>
    BY <1>8 DEF Cancel
  <2>4. id0 \notin fired /\ id0 \notin cancelled
    BY <2>1 DEF LifeInv, Present, IdOf, Is
  <2>. HIDE DEF s
  <2>5. \A id \in Ids : Armed(id)' <=> Armed(id) /\ id # id0
    BY <2>1, <2>2 DEF Armed, Ids, TimerTypeOK
  <2>6. Status[id0] = "armed" /\ Status' = [Status EXCEPT ![id0] = "cancelled"]
    BY <2>1, <2>3, <2>4, <2>5 DEF Status
  <2>7. DueAt' = [DueAt EXCEPT ![id0] = 0]
    BY <2>1, <2>3, <2>5 DEF DueAt
  <2>. QED
    BY <2>1, <2>3, <2>6, <2>7 DEF Promise!Next, Promise!Cancel, Promise!Over, Promise!Become
<1>9. ASSUME NEW c \in Callers, NEW s \in Slots, NEW d \in 1..MaxTime, AddAlloc(c, s, d) PROVE Promise!Next
  <2>. DEFINE id0 == <<s, version[s].seq>>
  <2>1. /\ version'[s].seq = version[s].seq /\ version'[s].st = "scheduled" /\ version[s].st = "free"
        /\ \A u \in Slots : u # s => version'[u] = version[u]
    BY <1>9, Becoming DEF AddAlloc, States, PlaceInv, Is
  <2>2. /\ deadline'[s] = d /\ \A u \in Slots : u # s => deadline'[u] = deadline[u]
        /\ UNCHANGED <<fired, cancelled, now>>
    BY <1>9 DEF AddAlloc, TimerTypeOK, history
  <2>3. id0 \in Ids /\ ~Armed(id0) /\ id0 \notin fired /\ id0 \notin cancelled
    BY <2>1 DEF TimerTypeOK, Ids, Armed, LifeInv, Present, IdOf, Is
  <2>4. version'[s] = [seq |-> version[s].seq, st |-> "scheduled"]
    BY <1>9 DEF AddAlloc, Become, TimerTypeOK
  <2>5. \A id \in Ids : Armed(id)' <=> Armed(id) \/ id = id0
    BY <2>1, <2>4 DEF Armed, Ids, TimerTypeOK
  <2>6. \A id \in Ids : Armed(id) => id[1] \in Slots /\ id[1] # s
    BY <2>1 DEF Armed, Ids
  <2>7. id0[1] = s
    OBVIOUS
  <2>. HIDE DEF id0
  <2>8. Status[id0] = "none" /\ Status' = [Status EXCEPT ![id0] = "armed"]
    BY <2>2, <2>3, <2>5 DEF Status
  <2>9. DueAt'[id0] \in Nat /\ DueAt' = [DueAt EXCEPT ![id0] = DueAt'[id0]]
    <3>1. DueAt' = [id \in Ids |-> IF Armed(id) \/ id = id0 THEN deadline'[id[1]] ELSE 0]
      BY <2>5 DEF DueAt
    <3>2. \A id \in Ids : id # id0 => DueAt'[id] = DueAt[id]
      BY <3>1, <2>2, <2>6 DEF DueAt
    <3>3. DueAt'[id0] = d
      BY <3>1, <2>2, <2>3, <2>7
    <3>4. DueAt' = [DueAt EXCEPT ![id0] = DueAt'[id0]]
      BY <3>1, <3>2, <2>3 DEF DueAt
    <3>. QED
      BY <3>3, <3>4, TimerAssumption
  <2>. QED
    BY <2>2, <2>3, <2>8, <2>9 DEF Promise!Next, Promise!Add, Promise!Become
<1>. QED
  BY <1>2, <1>3, <1>4, <1>5, <1>6, <1>7, <1>8, <1>9 DEF TimerNext, Run

\* A timer that was added is cancelled or fires, never both, never twice and never before its deadline.
THEOREM TimerRefines == TimerSystem => ImplementsTimerSpec
<1>1. TimerInit => Promise!Init
  BY DEF TimerInit, Promise!Init, Status, DueAt, Armed, Ids
<1>2. TimerInv /\ [TimerNext]_timerVars => [Promise!Next]_<<Status, DueAt, now>>
  BY PromiseStep
<1>. QED
  BY <1>1, <1>2, TimerInvariance, PTL DEF TimerSystem, ImplementsTimerSpec, Promise!Spec

-----------------------------------------------------------------------------
(* The stop                                                                *)

\* The thread's sample of nsignals is from before the stop, so that it does not stand after it.
StopInv ==
    /\ stop <=> stopping # "no"
    /\ stopping \in {"wake", "join"} /\ step \notin {"base", "ended"} => nsignals # base
    /\ stopping = "join" => step # "parked"

\* When the thread sleeps through a stop, lm_timer_thread_stop has yet to wake it.
StopIsHeard == step = "parked" /\ stop => stopping \in {"signal", "wake"}

\* The samples of the thread and the steps of a stop keep to their order.
LEMMA StopStep ==
  ASSUME TimerTypeOK, StopInv, [TimerNext]_timerVars
  PROVE  StopInv'
<1>. USE DEF StopInv, Goto
<1>0. nsignals \in Nat /\ base \in 0..nsignals
  BY DEF TimerTypeOK
<1>1. CASE SampleBase
  BY <1>1 DEF SampleBase
<1>2. CASE Consume
  <2>1. step = "consume" /\ step' \in {"sweep", "consume"}
    BY <1>2 DEF Consume
  <2>. QED
    BY <1>2, <2>1 DEF Consume
<1>3. CASE SweepEnd \/ Return
  BY <1>3 DEF SweepEnd, Return
<1>4. ASSUME NEW s \in Slots, SweepRun(s) \/ SweepDrop(s) PROVE StopInv'
  BY <1>4 DEF SweepRun, SweepDrop
<1>5. CASE Publish \/ Check \/ FutexWait
  BY <1>5 DEF Publish, Check, FutexWait
<1>6. CASE Timeout
  BY <1>6 DEF Timeout, WakeThread
<1>7. ASSUME NEW c \in Callers, Add(c) PROVE StopInv'
  BY <1>0, <1>7 DEF Add, AddInsert, AddCompare, AddSignal, AddWake, WakeThread, thread
<1>8. ASSUME NEW c \in Callers, NEW s \in Slots, NEW d \in 1..MaxTime, AddAlloc(c, s, d) PROVE StopInv'
  BY <1>8 DEF AddAlloc, thread
<1>9. ASSUME NEW id \in known, Cancel(id) PROVE StopInv'
  BY <1>9 DEF Cancel, thread
<1>10. CASE Stop
  BY <1>10 DEF Stop, thread
<1>11. CASE StopSignal
  BY <1>0, <1>11 DEF StopSignal, thread
<1>12. CASE StopWake
  BY <1>12 DEF StopWake, WakeThread
<1>13. CASE Tick \/ UNCHANGED timerVars
  BY <1>13 DEF Tick, timerVars, thread
<1>. QED
  BY <1>1, <1>2, <1>3, <1>4, <1>5, <1>6, <1>7, <1>8, <1>9, <1>10, <1>11, <1>12, <1>13 DEF TimerNext, Run, Stopping

\* A stop is not slept through: the safety part of StopEnds.
THEOREM NoSleepThroughStop == TimerSystem => []StopIsHeard
<1>1. TimerInit => StopInv
  BY DEF TimerInit, StopInv
<1>2. TimerInv /\ StopInv /\ [TimerNext]_timerVars => StopInv'
  BY StopStep DEF TimerInv
<1>3. StopInv /\ TimerTypeOK => StopIsHeard
  BY DEF StopInv, StopIsHeard, TimerTypeOK
<1>4. TimerInv => TimerTypeOK
  BY DEF TimerInv
<1>. QED
  BY <1>1, <1>2, <1>3, <1>4, TimerInvariance, PTL DEF TimerSystem
=============================================================================
