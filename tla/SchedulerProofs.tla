-------------------------- MODULE SchedulerProofs --------------------------
(***************************************************************************)
(* No worker of Scheduler.tla sleeps on a coroutine posted to it or on its *)
(* stop, for any workers, coroutines, posters, batch and sizes, whoever is *)
(* stopped or shrunk, and whatever the thieves do to the queues: the       *)
(* argument is about head, sleeping, the word and the wakers alone, and    *)
(* needs no coroutine to be in one place.                                  *)
(***************************************************************************)
EXTENDS Scheduler, TLAPS

Loots == [from : Workers \union {None}, t : Int, n : Int, out : Seq(TaskOrNone)]

\* A thief that copies or commits has a victim, and commits what it has read.
LootInv == /\ loot \in [Workers -> Loots]
           /\ \A w \in Workers : pc[w] \in {"copy", "commit"} => loot[w].from \in Workers
           /\ \A w \in Workers : pc[w] = "commit" => loot[w].out # <<>> /\ loot[w].n = Len(loot[w].out)

\* A call that is about to append or to wake knows for whom.
CallInv == \A p \in Callers : /\ poster[p].step \in {"append", "bump", "wake"} => poster[p].to \in Workers
                              /\ poster[p].step = "append" => poster[p].task \in Tasks

\* A worker is announced from its lock to the end of its sleep.
Announced == {"check", "load", "wait", "asleep", "relock"}

Reason(w) == head[w] # None \/ stop[w]

Bumps(p, w) == poster[p].to = w /\ poster[p].step = "bump"

\* The word is loaded after the last look, and whoever gives a reason later bumps it
\* or, when the worker is in its sleep, is still to wake it.
SleepAt(w) ==
    /\ pc[w] \in Announced => sleeping[w]
    /\ pc[w] = "load" => ~Reason(w)
    /\ pc[w] = "wait" /\ Reason(w) => stale[w] \/ \E p \in Callers : Bumps(p, w)
    /\ pc[w] = "asleep" /\ Reason(w) => Coming(w)

SleepInv == \A w \in Workers : SleepAt(w)

-----------------------------------------------------------------------------
(* The types                                                               *)

ListTypes == /\ head \in [Lists -> TaskOrNone] /\ tail \in [Lists -> TaskOrNone]
             /\ next \in [Tasks -> TaskOrNone]

WsqTypes == /\ top \in [Workers -> Int] /\ bottom \in [Workers -> Int]
            /\ slot \in [Workers -> [0..(Slots - 1) -> TaskOrNone]]

TaskTypes == /\ queued \in [Tasks -> BOOLEAN]
             /\ state \in [Tasks -> {"suspended", "running", "dead"}]
             /\ bound \in [Tasks -> Workers \union {None}]

WorkerTypes == pc \in [Workers -> WorkerPcs] /\ cur \in [Workers -> TaskOrNone]

FlagTypes == /\ sleeping \in [Workers -> BOOLEAN] /\ stop \in [Workers -> BOOLEAN]
             /\ reject \in [Workers -> BOOLEAN] /\ stale \in [Workers -> BOOLEAN]

CallTypes == poster \in [Callers -> [step : {"idle", "append", "bump", "wake", "spin", "choose"},
                                     task : TaskOrNone, to : Workers \union {None}]]

PoolInv == ListTypes /\ WsqTypes /\ TaskTypes /\ WorkerTypes /\ FlagTypes /\ CallTypes /\ LootInv /\ CallInv

LEMMA Parts == PoolInv => TypeOK
BY DEF PoolInv, TypeOK, ListTypes, WsqTypes, TaskTypes, WorkerTypes, FlagTypes, CallTypes

LEMMA EnqueueTypes ==
  ASSUME ListTypes, NEW l \in Lists, NEW x \in TaskOrNone, Enqueue(l, x)
  PROVE  ListTypes'
<1>1. head' \in [Lists -> TaskOrNone]
  BY DEF ListTypes, Enqueue
<1>2. tail' \in [Lists -> TaskOrNone]
  BY DEF ListTypes, Enqueue
<1>3. next' \in [Tasks -> TaskOrNone]
  BY DEF ListTypes, Enqueue, TaskOrNone
<1>. QED
  BY <1>1, <1>2, <1>3 DEF ListTypes

LEMMA DequeueTypes ==
  ASSUME ListTypes, NEW l \in Lists, Dequeue(l)
  PROVE  ListTypes' /\ head[l] \in Tasks
<1>1. head[l] \in Tasks
  BY DEF ListTypes, Dequeue, TaskOrNone
<1>2. head' \in [Lists -> TaskOrNone]
  BY <1>1 DEF ListTypes, Dequeue
<1>3. tail' \in [Lists -> TaskOrNone]
  BY <1>1 DEF ListTypes, Dequeue, TaskOrNone
<1>4. next' \in [Tasks -> TaskOrNone]
  BY <1>1 DEF ListTypes, Dequeue, TaskOrNone
<1>. QED
  BY <1>1, <1>2, <1>3, <1>4 DEF ListTypes

\* The slot of an index.
LEMMA InTheRing ==
  ASSUME NEW i \in Int
  PROVE  i % Slots \in 0..(Slots - 1)
<1>1. Slots \in Nat \ {0}
  BY SchedulerAssumption
<1>. QED
  BY <1>1

LEMMA PushTypes ==
  ASSUME WsqTypes, NEW w \in Workers, NEW x \in TaskOrNone, NEW i \in Int, Push(w, x, i)
  PROVE  WsqTypes'
<1>1. slot' \in [Workers -> [0..(Slots - 1) -> TaskOrNone]]
  BY InTheRing DEF WsqTypes, Push
<1>2. bottom' \in [Workers -> Int] /\ top' = top
  BY DEF WsqTypes, Push
<1>. QED
  BY <1>1, <1>2 DEF WsqTypes

LEMMA TakeTypes ==
  ASSUME TaskTypes, WorkerTypes, NEW w \in Workers, NEW x \in TaskOrNone, NEW from, Take(w, from, x)
  PROVE  /\ TaskTypes' /\ WorkerTypes'
         /\ pc'[w] \in {"run", "pop"} /\ \A v \in Workers : v # w => pc'[v] = pc[v]
<1>1. queued' \in [Tasks -> BOOLEAN]
  BY DEF TaskTypes, Take
<1>2. CASE state[x] # "dead" /\ Goto(w, from, "run") /\ cur' = [cur EXCEPT ![w] = x]
           /\ state' = [state EXCEPT ![x] = "running"] /\ bound' = [bound EXCEPT ![x] = w]
  <2>1. state' \in [Tasks -> {"suspended", "running", "dead"}] /\ bound' \in [Tasks -> Workers \union {None}]
    BY <1>2 DEF TaskTypes
  <2>2. cur' \in [Workers -> TaskOrNone] /\ pc' = [pc EXCEPT ![w] = "run"] /\ pc' \in [Workers -> WorkerPcs]
    BY <1>2 DEF WorkerTypes, Goto, WorkerPcs
  <2>. QED
    BY <1>1, <2>1, <2>2 DEF TaskTypes, WorkerTypes
<1>3. CASE Goto(w, from, "pop") /\ UNCHANGED <<cur, state, bound>>
  <2>1. pc' = [pc EXCEPT ![w] = "pop"] /\ pc' \in [Workers -> WorkerPcs]
    BY <1>3 DEF WorkerTypes, Goto, WorkerPcs
  <2>. QED
    BY <1>1, <1>3, <2>1 DEF TaskTypes, WorkerTypes
<1>. QED
  BY <1>2, <1>3 DEF Take

LEMMA StepTypes ==
  ASSUME CallTypes, CallInv, NEW p \in Callers, NEW x \in TaskOrNone, NEW w \in Workers \union {None},
         NEW step \in {"append", "bump", "spin"}, Step(p, step, x, w),
         step \in {"append", "bump"} => w \in Workers, step = "append" => x \in Tasks
  PROVE  CallTypes' /\ CallInv'
BY DEF CallTypes, CallInv, Step

\* A call that is over.
LEMMA IdleTypes ==
  ASSUME CallTypes, CallInv, NEW p \in Callers, poster' = [poster EXCEPT ![p] = Idle]
  PROVE  CallTypes' /\ CallInv'
BY DEF CallTypes, CallInv, Idle, TaskOrNone

\* A call that goes on.
LEMMA NextStepTypes ==
  ASSUME CallTypes, CallInv, NEW p \in Callers, NEW step \in {"wake", "choose"},
         poster' = [poster EXCEPT ![p].step = step], step = "wake" => poster[p].step = "bump"
  PROVE  CallTypes' /\ CallInv'
BY DEF CallTypes, CallInv

\* A step after which worker w is no thief.
LEMMA NoThief ==
  ASSUME LootInv, NEW w \in Workers, pc'[w] \notin {"copy", "commit"}, \A v \in Workers : v # w => pc'[v] = pc[v],
         loot' = loot \/ loot' = [loot EXCEPT ![w] = NoLoot]
  PROVE  LootInv'
<1>1. NoLoot \in Loots
  BY DEF NoLoot, Loots
<1>. QED
  BY <1>1 DEF LootInv

LEMMA GotoTypes ==
  ASSUME WorkerTypes, NEW w \in Workers, NEW from, NEW to \in WorkerPcs, Goto(w, from, to)
  PROVE  /\ pc \in [Workers -> WorkerPcs] /\ pc' \in [Workers -> WorkerPcs]
         /\ pc[w] = from /\ pc'[w] = to /\ \A v \in Workers : v # w => pc'[v] = pc[v]
BY DEF WorkerTypes, Goto, Here

\* Scan takes a size to steal, Copy a slot, Commit moves the whole batch.
LEMMA ScanTypes ==
  ASSUME PoolInv, NEW w \in Workers, NEW v \in Workers, Scan(w, v)
  PROVE  PoolInv'
<1>1. /\ ListTypes /\ WsqTypes /\ TaskTypes /\ WorkerTypes /\ FlagTypes /\ CallTypes /\ LootInv /\ CallInv
  BY DEF PoolInv
<1>2. /\ UNCHANGED <<head, tail, next, top, bottom, slot, queued, state, bound, cur, sleeping, stop, reject, stale, poster>>
      /\ \/ pc[w] = "scan" /\ pc' = pc /\ loot' = loot
         \/ Size(v) > 0 /\ Goto(w, "scan", "copy")
    BY DEF Scan, Here, queues, lists, wsqs, tasks, flags
<1>3. ListTypes' /\ WsqTypes' /\ TaskTypes' /\ FlagTypes' /\ CallTypes' /\ CallInv'
  BY <1>1, <1>2 DEF ListTypes, WsqTypes, TaskTypes, FlagTypes, CallTypes, CallInv
<1>4. CASE pc[w] = "scan" /\ pc' = pc /\ loot' = loot
  <2>1. WorkerTypes' /\ LootInv'
    BY <1>1, <1>2, <1>4 DEF WorkerTypes, LootInv
  <2>. QED
    BY <1>3, <2>1 DEF PoolInv
<1>5. CASE Size(v) > 0 /\ Goto(w, "scan", "copy")
  <2>1. PICK n \in Int : loot' = [loot EXCEPT ![w] = [from |-> v, t |-> top[v], n |-> n, out |-> <<>>]]
    <3>1. Batch \in Int /\ Size(v) \in Int
      BY <1>1, SchedulerAssumption DEF WsqTypes, Size
    <3>. DEFINE half == (Size(v) + 1) \div 2
                n == IF half > Batch THEN Batch ELSE half
    <3>2. half \in Int
      BY <3>1
    <3>3. n \in Int
      BY <3>1, <3>2
    <3>4. loot' = [loot EXCEPT ![w] = [from |-> v, t |-> top[v], n |-> n, out |-> <<>>]]
      BY <1>5, <3>1 DEF Scan, Goto, Here
    <3>. QED
      BY <3>3, <3>4
  <2>2. WorkerTypes' /\ pc'[w] = "copy" /\ \A u \in Workers : u # w => pc'[u] = pc[u]
    BY <1>1, <1>2, <1>5, GotoTypes DEF WorkerTypes, WorkerPcs
  <2>3. [from |-> v, t |-> top[v], n |-> n, out |-> <<>>] \in Loots
    BY <1>1 DEF Loots, WsqTypes
  <2>4. LootInv'
    BY <1>1, <2>1, <2>2, <2>3 DEF LootInv
  <2>. QED
    BY <1>3, <2>2, <2>4 DEF PoolInv
<1>. QED
  BY <1>2, <1>4, <1>5

LEMMA CopyTypes ==
  ASSUME PoolInv, NEW w \in Workers, Copy(w)
  PROVE  PoolInv'
<1>1. /\ ListTypes /\ WsqTypes /\ TaskTypes /\ WorkerTypes /\ FlagTypes /\ CallTypes /\ LootInv /\ CallInv
  BY DEF PoolInv
<1>2. /\ UNCHANGED <<head, tail, next, top, bottom, slot, queued, state, bound, cur, sleeping, stop, reject, stale, poster>>
      /\ Goto(w, "copy", IF Len(loot[w].out) + 1 = loot[w].n THEN "commit" ELSE "copy")
      /\ loot' = [loot EXCEPT ![w].out = Append(@, SlotOf(loot[w].from, loot[w].t + Len(loot[w].out)))]
  BY DEF Copy, queues, lists, wsqs, tasks, flags
<1>3. ListTypes' /\ WsqTypes' /\ TaskTypes' /\ FlagTypes' /\ CallTypes' /\ CallInv'
  BY <1>1, <1>2 DEF ListTypes, WsqTypes, TaskTypes, FlagTypes, CallTypes, CallInv
<1>4. PICK to \in {"copy", "commit"} : /\ Goto(w, "copy", to)
                                       /\ to = "commit" => Len(loot[w].out) + 1 = loot[w].n
  BY <1>2
<1>5. /\ WorkerTypes' /\ pc[w] = "copy" /\ pc'[w] = to /\ \A u \in Workers : u # w => pc'[u] = pc[u]
  BY <1>1, <1>2, <1>4, GotoTypes DEF WorkerTypes, WorkerPcs
<1>6. PICK x \in TaskOrNone : x = SlotOf(loot[w].from, loot[w].t + Len(loot[w].out))
  <2>1. loot[w].from \in Workers /\ loot[w].t \in Int /\ Len(loot[w].out) \in Nat
    BY <1>1, <1>5 DEF LootInv, Loots
  <2>. DEFINE i == loot[w].t + Len(loot[w].out)
  <2>2. i \in Int
    BY <2>1
  <2>3. i % Slots \in 0..(Slots - 1)
    BY <2>2, InTheRing
  <2>4. slot[loot[w].from][i % Slots] \in TaskOrNone
    BY <1>1, <2>1, <2>3 DEF WsqTypes
  <2>. QED
    BY <2>4 DEF SlotOf
<1>7. loot'[w] = [loot[w] EXCEPT !.out = Append(loot[w].out, x)] /\ loot[w] \in Loots /\ loot[w].from \in Workers
  BY <1>1, <1>2, <1>5, <1>6 DEF LootInv
<1>8. PICK q \in Seq(TaskOrNone) : q = Append(loot[w].out, x) /\ Len(q) = Len(loot[w].out) + 1 /\ q # <<>>
  <2>1. loot[w].out \in Seq(TaskOrNone)
    BY <1>7 DEF Loots
  <2>2. /\ Append(loot[w].out, x) \in Seq(TaskOrNone) /\ Append(loot[w].out, x) # <<>>
        /\ Len(Append(loot[w].out, x)) = Len(loot[w].out) + 1
    BY <2>1
  <2>. QED
    BY <2>2
<1>9. loot'[w] \in Loots /\ loot'[w].from = loot[w].from /\ loot'[w].n = loot[w].n /\ loot'[w].out = q
  BY <1>7, <1>8 DEF Loots
<1>10. loot' \in [Workers -> Loots] /\ \A u \in Workers : u # w => loot'[u] = loot[u]
  BY <1>1, <1>2, <1>9 DEF LootInv
<1>11. LootInv'
  <2>1. \A u \in Workers : pc'[u] \in {"copy", "commit"} => loot'[u].from \in Workers
    BY <1>1, <1>5, <1>7, <1>9, <1>10 DEF LootInv
  <2>2. pc'[w] = "commit" => loot'[w].out # <<>> /\ loot'[w].n = Len(loot'[w].out)
    BY <1>4, <1>5, <1>8, <1>9
  <2>3. \A u \in Workers : u # w /\ pc'[u] = "commit" => loot'[u].out # <<>> /\ loot'[u].n = Len(loot'[u].out)
    BY <1>1, <1>5, <1>10 DEF LootInv
  <2>. QED
    BY <1>10, <2>1, <2>2, <2>3 DEF LootInv
<1>. QED
  BY <1>3, <1>5, <1>11 DEF PoolInv

LEMMA CommitTypes ==
  ASSUME PoolInv, NEW w \in Workers, Commit(w)
  PROVE  PoolInv'
<1>1. /\ ListTypes /\ WsqTypes /\ TaskTypes /\ WorkerTypes /\ FlagTypes /\ CallTypes /\ LootInv /\ CallInv
  BY DEF PoolInv
<1>2. /\ loot[w].out \in Seq(TaskOrNone) /\ loot[w].out # <<>> /\ loot[w].n = Len(loot[w].out) /\ loot[w].from \in Workers
  BY <1>1 DEF Commit, LootInv, Loots
<1>3. PICK q \in Seq(TaskOrNone) : q = loot[w].out /\ q # <<>> /\ loot[w].n = Len(q)
  BY <1>2
<1>4. Take(w, "commit", q[1]) /\ q[1] \in TaskOrNone
  BY <1>3 DEF Commit
<1>5. /\ TaskTypes' /\ WorkerTypes' /\ pc'[w] \in {"run", "pop"} /\ \A v \in Workers : v # w => pc'[v] = pc[v]
  BY <1>1, <1>4, TakeTypes
<1>6. UNCHANGED <<head, tail, next, sleeping, stop, reject, stale, poster>> /\ loot' = [loot EXCEPT ![w] = NoLoot]
  BY DEF Commit, lists, flags
<1>7. ListTypes' /\ FlagTypes' /\ CallTypes' /\ CallInv' /\ LootInv'
  BY <1>1, <1>5, <1>6, NoThief DEF ListTypes, FlagTypes, CallTypes, CallInv
<1>8. top' \in [Workers -> Int] /\ bottom' \in [Workers -> Int]
  <2>1. PICK n \in Nat : n = loot[w].n
    BY <1>3
  <2>2. top' = [top EXCEPT ![loot[w].from] = @ + n] /\ bottom' = [bottom EXCEPT ![w] = @ + n - 1]
    BY <2>1 DEF Commit
  <2>. QED
    BY <1>1, <1>2, <2>1, <2>2 DEF WsqTypes
<1>9. slot' \in [Workers -> [0..(Slots - 1) -> TaskOrNone]]
  <2>. DEFINE At(i, k) == (bottom[w] + k - 2) % Slots = i
              new == [i \in DOMAIN slot[w] |-> IF \E k \in 2..Len(q) : At(i, k)
                                               THEN q[CHOOSE k \in 2..Len(q) : At(i, k)]
                                               ELSE slot[w][i]]
  <2>1. slot' = [slot EXCEPT ![w] = new]
    BY <1>3 DEF Commit
  <2>2. ASSUME NEW i \in 0..(Slots - 1), \E k \in 2..Len(q) : At(i, k)
        PROVE  q[CHOOSE k \in 2..Len(q) : At(i, k)] \in TaskOrNone
    <3>. HIDE DEF At
    <3>1. PICK k \in 2..Len(q) : k = CHOOSE j \in 2..Len(q) : At(i, j)
      BY <2>2
    <3>2. q[k] \in TaskOrNone
      BY <3>1
    <3>. QED
      BY <3>1, <3>2
  <2>3. slot[w] \in [0..(Slots - 1) -> TaskOrNone]
    BY <1>1 DEF WsqTypes
  <2>4. new \in [0..(Slots - 1) -> TaskOrNone]
    <3>. HIDE DEF At
    <3>. QED
      BY <2>2, <2>3
  <2>. QED
    <3>. HIDE DEF new
    <3>. QED
      BY <1>1, <2>1, <2>4 DEF WsqTypes
<1>10. WsqTypes'
  BY <1>8, <1>9 DEF WsqTypes
<1>. QED
  BY <1>5, <1>7, <1>10 DEF PoolInv

\* The steps of a worker that end with a coroutine in its hands.
LEMMA TakerTypes ==
  ASSUME PoolInv, NEW w \in Workers, Pop(w) \/ Own(w) \/ StayAwake(w)
  PROVE  PoolInv'
<1>1. /\ ListTypes /\ WsqTypes /\ TaskTypes /\ WorkerTypes /\ FlagTypes /\ CallTypes /\ LootInv /\ CallInv
      /\ w \in Lists
  BY DEF PoolInv, Lists
<1>2. ASSUME NEW from, NEW x \in TaskOrNone, Take(w, from, x), loot' = loot
      PROVE  TaskTypes' /\ WorkerTypes' /\ LootInv'
  <2>1. TaskTypes' /\ WorkerTypes' /\ pc'[w] \in {"run", "pop"} /\ \A v \in Workers : v # w => pc'[v] = pc[v]
    BY <1>1, <1>2, TakeTypes
  <2>. QED
    BY <1>1, <1>2, <2>1, NoThief
<1>3. CASE Pop(w)
  <2>1. /\ Dequeue(w) /\ Take(w, "pop", head[w])
        /\ UNCHANGED <<top, bottom, slot, sleeping, stop, reject, stale, loot, poster>>
    BY <1>3 DEF Pop, wsqs, flags, thieving
  <2>2. ListTypes' /\ head[w] \in TaskOrNone
    BY <1>1, <2>1, DequeueTypes DEF TaskOrNone
  <2>3. TaskTypes' /\ WorkerTypes' /\ LootInv'
    BY <1>2, <2>1, <2>2
  <2>4. WsqTypes' /\ FlagTypes' /\ CallTypes' /\ CallInv'
    BY <1>1, <2>1 DEF WsqTypes, FlagTypes, CallTypes, CallInv
  <2>. QED
    BY <2>2, <2>3, <2>4 DEF PoolInv
<1>4. CASE Own(w)
  <2>1. /\ Take(w, "pop", SlotOf(w, bottom[w] - 1))
        /\ UNCHANGED <<head, tail, next, slot, sleeping, stop, reject, stale, loot, poster>>
        /\ \/ bottom' = [bottom EXCEPT ![w] = @ - 1] /\ top' = top
           \/ top' = [top EXCEPT ![w] = @ + 1] /\ bottom' = bottom
    BY <1>4 DEF Own, lists, flags, thieving
  <2>2. PICK i \in Int : i = bottom[w] - 1
    BY <1>1 DEF WsqTypes
  <2>3. SlotOf(w, i) \in TaskOrNone
    BY <1>1, <2>2, InTheRing DEF WsqTypes, SlotOf
  <2>4. TaskTypes' /\ WorkerTypes' /\ LootInv'
    BY <1>2, <2>1, <2>2, <2>3
  <2>5. WsqTypes'
    BY <1>1, <2>1 DEF WsqTypes
  <2>6. ListTypes' /\ FlagTypes' /\ CallTypes' /\ CallInv'
    BY <1>1, <2>1 DEF ListTypes, FlagTypes, CallTypes, CallInv
  <2>. QED
    BY <2>4, <2>5, <2>6 DEF PoolInv
<1>5. CASE StayAwake(w)
  <2>1. /\ UNCHANGED <<top, bottom, slot, stop, reject, stale, loot, poster>>
        /\ sleeping' = [sleeping EXCEPT ![w] = FALSE]
        /\ \/ Dequeue(w) /\ Take(w, "check", head[w])
           \/ /\ Goto(w, "check", IF stop[w] THEN "stopped" ELSE "awake")
              /\ UNCHANGED <<head, tail, next, cur, queued, state, bound>>
    BY <1>5 DEF StayAwake, wsqs, lists, thieving
  <2>2. WsqTypes' /\ FlagTypes' /\ CallTypes' /\ CallInv'
    BY <1>1, <2>1 DEF WsqTypes, FlagTypes, CallTypes, CallInv
  <2>3. CASE Dequeue(w) /\ Take(w, "check", head[w])
    <3>1. ListTypes' /\ head[w] \in TaskOrNone
      BY <1>1, <2>3, DequeueTypes DEF TaskOrNone
    <3>2. TaskTypes' /\ WorkerTypes' /\ LootInv'
      BY <1>2, <2>1, <2>3, <3>1
    <3>. QED
      BY <2>2, <3>1, <3>2 DEF PoolInv
  <2>4. CASE /\ Goto(w, "check", IF stop[w] THEN "stopped" ELSE "awake")
             /\ UNCHANGED <<head, tail, next, cur, queued, state, bound>>
    <3>1. PICK to \in {"stopped", "awake"} : Goto(w, "check", to)
      BY <2>4
    <3>2. /\ pc' \in [Workers -> WorkerPcs] /\ pc'[w] = to /\ \A v \in Workers : v # w => pc'[v] = pc[v]
      BY <1>1, <3>1, GotoTypes DEF WorkerPcs
    <3>3. WorkerTypes' /\ ListTypes' /\ TaskTypes' /\ LootInv'
      BY <1>1, <2>1, <2>4, <3>2, NoThief DEF WorkerTypes, ListTypes, TaskTypes
    <3>. QED
      BY <2>2, <3>3 DEF PoolInv
  <2>. QED
    BY <2>1, <2>3, <2>4
<1>. QED
  BY <1>3, <1>4, <1>5

\* The steps that only take the worker on.
LEMMA MoverTypes ==
  ASSUME PoolInv, NEW w \in Workers,
         \/ NothingToTake(w) \/ Steal(w) \/ CommitFails(w) \/ ScanDone(w) \/ Lock(w) \/ FindNothing(w)
         \/ LoadWord(w) \/ Wait(w) \/ Relock(w) \/ Decide(w)
  PROVE  PoolInv'
<1>1. /\ ListTypes /\ WsqTypes /\ TaskTypes /\ WorkerTypes /\ FlagTypes /\ CallTypes /\ LootInv /\ CallInv
  BY DEF PoolInv
<1>2. UNCHANGED <<head, tail, next, top, slot, queued, state, bound, cur, stop, reject, poster>>
  <2>1. CASE NothingToTake(w) \/ Steal(w) \/ CommitFails(w) \/ ScanDone(w) \/ Lock(w)
    BY <2>1 DEF NothingToTake, Steal, CommitFails, ScanDone, Lock, queues, lists, wsqs, tasks, flags
  <2>2. CASE FindNothing(w) \/ LoadWord(w) \/ Wait(w) \/ Relock(w) \/ Decide(w)
    BY <2>2 DEF FindNothing, LoadWord, Wait, Relock, Decide, queues, lists, wsqs, tasks, flags
  <2>. QED
    BY <2>1, <2>2
<1>3. bottom' = bottom \/ bottom' = [bottom EXCEPT ![w] = top[w]]
  <2>1. CASE NothingToTake(w) \/ Steal(w) \/ CommitFails(w) \/ ScanDone(w) \/ Lock(w)
    BY <2>1 DEF NothingToTake, Steal, CommitFails, ScanDone, Lock, queues, wsqs
  <2>2. CASE FindNothing(w) \/ LoadWord(w) \/ Wait(w) \/ Relock(w) \/ Decide(w)
    BY <2>2 DEF FindNothing, LoadWord, Wait, Relock, Decide, queues, wsqs
  <2>. QED
    BY <2>1, <2>2
<1>4. /\ sleeping' = sleeping \/ sleeping' = [sleeping EXCEPT ![w] = TRUE]
      /\ stale' = stale \/ stale' = [stale EXCEPT ![w] = FALSE]
  <2>1. CASE NothingToTake(w) \/ Steal(w) \/ CommitFails(w) \/ ScanDone(w) \/ Lock(w)
    BY <2>1 DEF NothingToTake, Steal, CommitFails, ScanDone, Lock, flags
  <2>2. CASE FindNothing(w) \/ LoadWord(w) \/ Wait(w) \/ Relock(w) \/ Decide(w)
    BY <2>2 DEF FindNothing, LoadWord, Wait, Relock, Decide, flags
  <2>. QED
    BY <2>1, <2>2
<1>5. loot' = loot \/ loot' = [loot EXCEPT ![w] = NoLoot]
  <2>1. CASE NothingToTake(w) \/ Steal(w) \/ CommitFails(w) \/ ScanDone(w) \/ Lock(w)
    BY <2>1 DEF NothingToTake, Steal, CommitFails, ScanDone, Lock, thieving
  <2>2. CASE FindNothing(w) \/ LoadWord(w) \/ Wait(w) \/ Relock(w) \/ Decide(w)
    BY <2>2 DEF FindNothing, LoadWord, Wait, Relock, Decide, thieving
  <2>. QED
    BY <2>1, <2>2
<1>6. PICK to \in WorkerPcs \ {"copy", "commit"} : pc' = [pc EXCEPT ![w] = to]
  <2>1. CASE NothingToTake(w) \/ Steal(w) \/ CommitFails(w) \/ ScanDone(w) \/ Lock(w)
    BY <2>1 DEF NothingToTake, Steal, CommitFails, ScanDone, Lock, Goto, WorkerPcs
  <2>2. CASE FindNothing(w) \/ LoadWord(w) \/ Wait(w) \/ Relock(w) \/ Decide(w)
    BY <2>2 DEF FindNothing, LoadWord, Wait, Relock, Decide, Goto, WorkerPcs
  <2>. QED
    BY <2>1, <2>2
<1>7. WorkerTypes' /\ pc'[w] = to /\ \A v \in Workers : v # w => pc'[v] = pc[v]
  BY <1>1, <1>2, <1>6 DEF WorkerTypes
<1>8. ListTypes' /\ WsqTypes' /\ TaskTypes' /\ CallTypes' /\ CallInv'
  BY <1>1, <1>2, <1>3 DEF ListTypes, WsqTypes, TaskTypes, CallTypes, CallInv
<1>9. FlagTypes'
  BY <1>1, <1>2, <1>4 DEF FlagTypes
<1>10. LootInv'
  BY <1>1, <1>5, <1>7, NoThief
<1>. QED
  BY <1>7, <1>8, <1>9, <1>10 DEF PoolInv

\* Taking from the global queue into the WSQ.
LEMMA GlobalTypes ==
  ASSUME PoolInv, NEW w \in Workers, TakeGlobal(w)
  PROVE  PoolInv'
<1>1. /\ ListTypes /\ WsqTypes /\ TaskTypes /\ WorkerTypes /\ FlagTypes /\ CallTypes /\ LootInv /\ CallInv
      /\ Pool \in Lists
  BY DEF PoolInv, Lists
<1>2. /\ Dequeue(Pool) /\ UNCHANGED <<queued, state, bound, pc, cur, sleeping, stop, reject, stale, loot, poster>>
      /\ \/ Push(w, head[Pool], bottom[w])
         \/ UNCHANGED <<top, bottom, slot>>
         \/ Push(w, head[Pool], top[w])
  BY DEF TakeGlobal, wsqs, tasks, flags, thieving
<1>3. ListTypes' /\ head[Pool] \in TaskOrNone
  BY <1>1, <1>2, DequeueTypes DEF TaskOrNone
<1>4. WsqTypes'
  <2>1. bottom[w] \in Int /\ top[w] \in Int
    BY <1>1 DEF WsqTypes
  <2>2. CASE UNCHANGED <<top, bottom, slot>>
    BY <1>1, <2>2 DEF WsqTypes
  <2>. QED
    BY <1>1, <1>2, <1>3, <2>1, <2>2, PushTypes
<1>5. TaskTypes' /\ WorkerTypes' /\ FlagTypes' /\ CallTypes' /\ LootInv' /\ CallInv'
  BY <1>1, <1>2 DEF TaskTypes, WorkerTypes, FlagTypes, CallTypes, LootInv, CallInv
<1>. QED
  BY <1>3, <1>4, <1>5 DEF PoolInv

\* The steps in which a worker is done with its coroutine.
LEMMA LeaverTypes ==
  ASSUME PoolInv, NEW w \in Workers, Finish(w) \/ Suspend(w) \/ SliceYield(w)
  PROVE  PoolInv'
<1>1. /\ ListTypes /\ WsqTypes /\ TaskTypes /\ WorkerTypes /\ FlagTypes /\ CallTypes /\ LootInv /\ CallInv
      /\ w \in Lists /\ cur[w] \in TaskOrNone
  BY DEF PoolInv, Lists, WorkerTypes
<1>2. /\ UNCHANGED <<top, bottom, slot, bound, sleeping, stop, reject, stale, loot, poster>> /\ Leave(w)
  BY DEF Finish, Suspend, SliceYield, queues, wsqs, flags, thieving
<1>3. WorkerTypes' /\ pc'[w] = "pop" /\ \A v \in Workers : v # w => pc'[v] = pc[v]
  <2>1. cur' = [cur EXCEPT ![w] = None] /\ pc' = [pc EXCEPT ![w] = "pop"]
    BY <1>2 DEF Leave, Goto
  <2>. QED
    BY <1>1, <2>1 DEF WorkerTypes, WorkerPcs, TaskOrNone
<1>4. state' \in [Tasks -> {"suspended", "running", "dead"}]
  <2>1. CASE Finish(w)
    BY <1>1, <2>1 DEF Finish, TaskTypes
  <2>2. CASE Back(cur[w])
    BY <1>1, <2>2 DEF Back, TaskTypes
  <2>. QED
    BY <2>1, <2>2 DEF Suspend, SliceYield
<1>5. ListTypes' /\ queued' \in [Tasks -> BOOLEAN]
  <2>1. CASE UNCHANGED <<head, tail, next, queued>>
    BY <1>1, <2>1 DEF ListTypes, TaskTypes
  <2>2. CASE queued' = [queued EXCEPT ![cur[w]] = TRUE] /\ Enqueue(w, cur[w])
    BY <1>1, <2>2, EnqueueTypes DEF TaskTypes
  <2>. QED
    BY <2>1, <2>2 DEF Finish, Suspend, SliceYield, queues, lists
<1>6. TaskTypes'
  BY <1>1, <1>2, <1>4, <1>5 DEF TaskTypes
<1>7. WsqTypes' /\ FlagTypes' /\ CallTypes' /\ CallInv' /\ LootInv'
  BY <1>1, <1>2, <1>3, NoThief DEF WsqTypes, FlagTypes, CallTypes, CallInv
<1>. QED
  BY <1>3, <1>5, <1>6, <1>7 DEF PoolInv

LEMMA SpawnTypes ==
  ASSUME PoolInv, NEW w \in Workers, NEW x \in Tasks, Spawn(w, x)
  PROVE  PoolInv'
<1>1. /\ ListTypes /\ WsqTypes /\ TaskTypes /\ WorkerTypes /\ FlagTypes /\ CallTypes /\ LootInv /\ CallInv
      /\ Pool \in Lists /\ w \in Callers /\ x \in TaskOrNone
  BY DEF PoolInv, Lists, Callers, TaskOrNone
<1>2. /\ queued' = [queued EXCEPT ![x] = TRUE] /\ UNCHANGED <<state, bound, pc, cur, sleeping, stop, reject, stale, loot>>
      /\ \/ Push(w, x, bottom[w]) /\ UNCHANGED <<head, tail, next, poster>>
         \/ Overflow(w, x) /\ UNCHANGED <<top, bottom, slot>>
  BY DEF Spawn, lists, wsqs, tasks, flags, thieving
<1>3. TaskTypes' /\ WorkerTypes' /\ FlagTypes' /\ LootInv'
  BY <1>1, <1>2 DEF TaskTypes, WorkerTypes, FlagTypes, LootInv
<1>4. CASE Push(w, x, bottom[w]) /\ UNCHANGED <<head, tail, next, poster>>
  <2>1. bottom[w] \in Int
    BY <1>1 DEF WsqTypes
  <2>2. WsqTypes'
    BY <1>1, <1>4, <2>1, PushTypes
  <2>3. ListTypes' /\ CallTypes' /\ CallInv'
    BY <1>1, <1>4 DEF ListTypes, CallTypes, CallInv
  <2>. QED
    BY <1>3, <2>2, <2>3 DEF PoolInv
<1>5. CASE Overflow(w, x) /\ UNCHANGED <<top, bottom, slot>>
  <2>1. ListTypes' /\ WsqTypes'
    BY <1>1, <1>5, EnqueueTypes DEF Overflow, WsqTypes
  <2>2. CallTypes' /\ CallInv'
    BY <1>1, <1>5, StepTypes DEF Overflow, TaskOrNone
  <2>. QED
    BY <1>3, <2>1, <2>2 DEF PoolInv
<1>. QED
  BY <1>2, <1>4, <1>5

LEMMA CallerTypes ==
  ASSUME PoolInv, NEW p \in Callers, PosterStep(p)
  PROVE  PoolInv'
<1>1. /\ ListTypes /\ WsqTypes /\ TaskTypes /\ WorkerTypes /\ FlagTypes /\ CallTypes /\ LootInv /\ CallInv
  BY DEF PoolInv
<1>2. UNCHANGED <<top, bottom, slot, queued, state, bound, cur, sleeping, stop, reject, loot>>
  BY DEF PosterStep, PostAppend, Bump, Wake, SeeSpinner, ChooseWorker, queues, wsqs, tasks, flags, thieving
<1>3. WsqTypes' /\ TaskTypes'
  BY <1>1, <1>2 DEF WsqTypes, TaskTypes
<1>4. CASE PostAppend(p)
  <2>1. PICK x \in Tasks, w \in Workers : x = poster[p].task /\ w = poster[p].to
    BY <1>1, <1>4 DEF PostAppend, CallInv
  <2>2. /\ Enqueue(w, x) /\ UNCHANGED <<pc, stale>>
        /\ \/ Step(p, "bump", None, w)
           \/ poster' = [poster EXCEPT ![p] = Idle]
    BY <1>4, <2>1 DEF PostAppend, flags
  <2>3. ListTypes'
    BY <1>1, <2>2, EnqueueTypes DEF Lists, TaskOrNone
  <2>4. CallTypes' /\ CallInv'
    BY <1>1, <2>2, StepTypes, IdleTypes DEF TaskOrNone
  <2>5. WorkerTypes' /\ FlagTypes' /\ LootInv'
    BY <1>1, <1>2, <2>2 DEF WorkerTypes, FlagTypes, LootInv
  <2>. QED
    BY <1>3, <2>3, <2>4, <2>5 DEF PoolInv
<1>5. CASE Bump(p)
  <2>1. /\ poster[p].step = "bump" /\ poster' = [poster EXCEPT ![p].step = "wake"]
        /\ stale' = [stale EXCEPT ![poster[p].to] = (pc[poster[p].to] = "wait")]
        /\ UNCHANGED <<head, tail, next, pc>>
    BY <1>5 DEF Bump, queues, lists
  <2>2. CallTypes' /\ CallInv'
    BY <1>1, <2>1, NextStepTypes
  <2>3. ListTypes' /\ WorkerTypes' /\ FlagTypes' /\ LootInv'
    BY <1>1, <1>2, <2>1 DEF ListTypes, WorkerTypes, FlagTypes, LootInv
  <2>. QED
    BY <1>3, <2>2, <2>3 DEF PoolInv
<1>6. CASE Wake(p)
  <2>1. /\ poster' = [poster EXCEPT ![p] = Idle] /\ UNCHANGED <<head, tail, next, stale>>
        /\ pc' = pc \/ pc' = [pc EXCEPT ![poster[p].to] = "relock"]
    BY <1>6 DEF Wake, queues, lists, flags
  <2>2. CallTypes' /\ CallInv'
    BY <1>1, <2>1, IdleTypes
  <2>3. /\ pc' \in [Workers -> WorkerPcs]
        /\ \A v \in Workers : pc'[v] \in {"copy", "commit"} => pc'[v] = pc[v]
    BY <1>1, <2>1 DEF WorkerTypes, WorkerPcs
  <2>4. ListTypes' /\ WorkerTypes' /\ FlagTypes' /\ LootInv'
    BY <1>1, <1>2, <2>1, <2>3 DEF ListTypes, WorkerTypes, FlagTypes, LootInv
  <2>. QED
    BY <1>3, <2>2, <2>4 DEF PoolInv
<1>7. CASE SeeSpinner(p)
  <2>1. /\ UNCHANGED <<head, tail, next, stale, pc>>
        /\ poster' = [poster EXCEPT ![p] = Idle] \/ poster' = [poster EXCEPT ![p].step = "choose"]
    BY <1>7 DEF SeeSpinner, queues, lists, flags
  <2>2. CallTypes' /\ CallInv'
    BY <1>1, <2>1, IdleTypes, NextStepTypes
  <2>3. ListTypes' /\ WorkerTypes' /\ FlagTypes' /\ LootInv'
    BY <1>1, <1>2, <2>1 DEF ListTypes, WorkerTypes, FlagTypes, LootInv
  <2>. QED
    BY <1>3, <2>2, <2>3 DEF PoolInv
<1>8. CASE ChooseWorker(p)
  <2>1. /\ UNCHANGED <<head, tail, next, stale>>
        /\ poster' = [poster EXCEPT ![p] = Idle] \/ \E w \in Workers : Step(p, "bump", None, w)
        /\ pc' = pc \/ \E w \in Workers : pc' = [pc EXCEPT ![w] = "pop"]
    BY <1>8 DEF ChooseWorker, queues, lists, flags
  <2>2. CallTypes' /\ CallInv'
    BY <1>1, <2>1, IdleTypes, StepTypes DEF TaskOrNone
  <2>3. /\ pc' \in [Workers -> WorkerPcs]
        /\ \A v \in Workers : pc'[v] \in {"copy", "commit"} => pc'[v] = pc[v]
    BY <1>1, <2>1 DEF WorkerTypes, WorkerPcs
  <2>4. ListTypes' /\ WorkerTypes' /\ FlagTypes' /\ LootInv'
    BY <1>1, <1>2, <2>1, <2>3 DEF ListTypes, WorkerTypes, FlagTypes, LootInv
  <2>. QED
    BY <1>3, <2>2, <2>4 DEF PoolInv
<1>. QED
  BY <1>4, <1>5, <1>6, <1>7, <1>8 DEF PosterStep

LEMMA BeginTypes ==
  ASSUME PoolInv, NEW p \in Posters,
         \/ \E x \in Tasks : PushGlobal(p, x) \/ \E w \in Workers : Post(p, x, w)
         \/ \E w \in Workers : Stop(p, w) \/ Shrink(p, w)
  PROVE  PoolInv'
<1>1. /\ ListTypes /\ WsqTypes /\ TaskTypes /\ WorkerTypes /\ FlagTypes /\ CallTypes /\ LootInv /\ CallInv
      /\ p \in Callers /\ Pool \in Lists
  BY DEF PoolInv, Callers, Lists
<1>2. UNCHANGED <<top, bottom, slot, state, pc, cur, sleeping, stale, loot>>
  BY DEF PushGlobal, Post, Stop, Shrink, queues, wsqs, tasks, flags, thieving
<1>3. WsqTypes' /\ WorkerTypes' /\ LootInv'
  BY <1>1, <1>2 DEF WsqTypes, WorkerTypes, LootInv
<1>4. ASSUME NEW x \in Tasks, PushGlobal(p, x) PROVE PoolInv'
  <2>1. /\ queued' = [queued EXCEPT ![x] = TRUE] /\ Enqueue(Pool, x) /\ Step(p, "spin", None, None)
        /\ UNCHANGED <<bound, stop, reject>>
    BY <1>4 DEF PushGlobal, Overflow, tasks, flags
  <2>2. ListTypes' /\ CallTypes' /\ CallInv'
    BY <1>1, <2>1, EnqueueTypes, StepTypes DEF TaskOrNone
  <2>3. TaskTypes' /\ FlagTypes'
    BY <1>1, <1>2, <2>1 DEF TaskTypes, FlagTypes
  <2>. QED
    BY <1>3, <2>2, <2>3 DEF PoolInv
<1>5. ASSUME NEW x \in Tasks, NEW w \in Workers, Post(p, x, w) PROVE PoolInv'
  <2>1. /\ queued' = [queued EXCEPT ![x] = TRUE] /\ bound' = [bound EXCEPT ![x] = w]
        /\ next' = [next EXCEPT ![x] = None] /\ Step(p, "append", x, w) /\ UNCHANGED <<head, tail, stop, reject>>
    BY <1>5 DEF Post, flags
  <2>2. ListTypes' /\ TaskTypes' /\ FlagTypes'
    BY <1>1, <1>2, <2>1 DEF ListTypes, TaskTypes, FlagTypes, TaskOrNone
  <2>3. CallTypes' /\ CallInv'
    BY <1>1, <2>1, StepTypes DEF TaskOrNone
  <2>. QED
    BY <1>3, <2>2, <2>3 DEF PoolInv
<1>6. ASSUME NEW w \in Workers, Stop(p, w) \/ Shrink(p, w) PROVE PoolInv'
  <2>1. /\ UNCHANGED <<head, tail, next, queued, bound>>
        /\ stop' = stop \/ stop' = [stop EXCEPT ![w] = TRUE]
        /\ reject' = reject \/ reject' = [reject EXCEPT ![w] = TRUE]
        /\ Step(p, "bump", None, w) \/ poster' = poster
    BY <1>6 DEF Stop, Shrink, queues, lists, tasks
  <2>2. ListTypes' /\ TaskTypes' /\ FlagTypes'
    BY <1>1, <1>2, <2>1 DEF ListTypes, TaskTypes, FlagTypes
  <2>3. CallTypes' /\ CallInv'
    <3>1. CASE Step(p, "bump", None, w)
      BY <1>1, <3>1, StepTypes DEF TaskOrNone
    <3>2. CASE poster' = poster
      BY <1>1, <3>2 DEF CallTypes, CallInv
    <3>. QED
      BY <2>1, <3>1, <3>2
  <2>. QED
    BY <1>3, <2>2, <2>3 DEF PoolInv
<1>. QED
  BY <1>4, <1>5, <1>6

\* The state stays of its type whatever the thieves' batches do to the queues.
LEMMA PoolStart == Init => PoolInv
<1>. SUFFICES ASSUME Init PROVE PoolInv
  OBVIOUS
<1>1. ListTypes /\ WsqTypes /\ TaskTypes
  BY DEF Init, ListTypes, WsqTypes, TaskTypes, TaskOrNone
<1>2. WorkerTypes /\ FlagTypes
  BY DEF Init, WorkerTypes, FlagTypes, TaskOrNone, WorkerPcs
<1>3. CallTypes /\ CallInv
  BY DEF Init, CallTypes, CallInv, Idle, TaskOrNone
<1>4. LootInv
  <2>1. NoLoot \in Loots
    BY DEF NoLoot, Loots
  <2>2. \A w \in Workers : pc[w] \in {"pop", "absent"}
    BY DEF Init
  <2>. QED
    BY <2>1, <2>2 DEF Init, LootInv
<1>. QED
  BY <1>1, <1>2, <1>3, <1>4 DEF PoolInv

LEMMA PoolStep == PoolInv /\ [Next]_vars => PoolInv'
<1>. SUFFICES ASSUME PoolInv, [Next]_vars PROVE PoolInv'
  OBVIOUS
<1>1. ASSUME NEW w \in Workers, WorkerStep(w) PROVE PoolInv'
  BY <1>1, TakerTypes, MoverTypes, GlobalTypes, LeaverTypes, ScanTypes, CopyTypes, CommitTypes DEF WorkerStep
<1>2. CASE UNCHANGED vars
  BY <1>2 DEF vars, queues, lists, wsqs, tasks, flags, thieving, PoolInv, ListTypes, WsqTypes, TaskTypes,
              WorkerTypes, FlagTypes, CallTypes, LootInv, CallInv
<1>. QED
  BY <1>1, <1>2, SpawnTypes, CallerTypes, BeginTypes DEF Next

\* The types of the state, and what a thief and a call know, in every reachable state.
THEOREM PoolInvariance == Spec => [](TypeOK /\ LootInv /\ CallInv)
<1>1. PoolInv => TypeOK /\ LootInv /\ CallInv
  BY Parts DEF PoolInv
<1>. QED
  BY <1>1, PoolStart, PoolStep, PTL DEF Spec

-----------------------------------------------------------------------------
(* The sleep                                                               *)

\* A worker whose state stays as it is, and that loses no waker, keeps its place.
LEMMA Kept ==
  ASSUME NEW v \in Workers, SleepAt(v), pc'[v] = pc[v], head'[v] = head[v], sleeping'[v] = sleeping[v],
         stop'[v] = stop[v], stale'[v] = stale[v],
         \A q \in Callers : poster[q].to = v /\ poster[q].step \in {"bump", "wake"} => poster'[q] = poster[q]
  PROVE  SleepAt(v)'
<1>1. Reason(v)' <=> Reason(v)
  BY DEF Reason
<1>2. (\E q \in Callers : Bumps(q, v)) => (\E q \in Callers : Bumps(q, v)')
  BY DEF Bumps
<1>3. Coming(v) => Coming(v)'
  BY DEF Coming
<1>. QED
  BY <1>1, <1>2, <1>3 DEF SleepAt

\* A worker that is not on its way to sleep needs nobody.
LEMMA Up ==
  ASSUME NEW w \in Workers, pc'[w] \notin Announced
  PROVE  SleepAt(w)'
BY DEF SleepAt, Announced

\* One worker steps, the others and their wakers are left alone.
LEMMA OneMoves ==
  ASSUME SleepInv, NEW w \in Workers, SleepAt(w)', poster' = poster, stop' = stop,
         \A v \in Workers : v # w => /\ pc'[v] = pc[v] /\ head'[v] = head[v]
                                     /\ sleeping'[v] = sleeping[v] /\ stale'[v] = stale[v]
  PROVE  SleepInv'
<1>1. ASSUME NEW v \in Workers, v # w PROVE SleepAt(v)'
  BY <1>1, Kept DEF SleepInv
<1>. QED
  BY <1>1 DEF SleepInv

\* Only the list in question gets another head.
LEMMA OtherHeads ==
  ASSUME ListTypes, NEW l \in Lists, Dequeue(l) \/ \E x : Enqueue(l, x), NEW v \in Lists, v # l
  PROVE  head'[v] = head[v]
BY DEF ListTypes, Dequeue, Enqueue

\* No worker sleeps through what is posted before it loads the word.
LEMMA SleepWorker ==
  ASSUME PoolInv, SleepInv, NEW w \in Workers, WorkerStep(w)
  PROVE  SleepInv'
<1>1. /\ ListTypes /\ WorkerTypes /\ FlagTypes /\ TaskTypes /\ WsqTypes /\ SleepAt(w) /\ pc \in [Workers -> WorkerPcs]
      /\ w \in Lists /\ Pool \in Lists /\ \A v \in Workers : v \in Lists /\ v # Pool
  BY SchedulerAssumption DEF PoolInv, SleepInv, WorkerTypes, Lists
<1>2. CASE Lock(w)
  <2>1. /\ pc' = [pc EXCEPT ![w] = "check"] /\ sleeping' = [sleeping EXCEPT ![w] = TRUE]
        /\ UNCHANGED <<head, poster, stop, stale>>
    BY <1>2 DEF Lock, Goto, queues, lists
  <2>2. SleepAt(w)'
    BY <1>1, <2>1 DEF SleepAt, FlagTypes
  <2>. QED
    BY <1>1, <2>1, <2>2, OneMoves DEF FlagTypes
<1>3. CASE FindNothing(w)
  <2>1. /\ pc[w] = "check" /\ pc' = [pc EXCEPT ![w] = "load"] /\ UNCHANGED <<head, poster, sleeping, stop, stale>>
    BY <1>3 DEF FindNothing, Goto, Here, queues, lists, flags
  <2>2. ~Reason(w)'
    BY <1>3, <2>1 DEF FindNothing, HasReason, Reason
  <2>3. SleepAt(w)'
    BY <1>1, <2>1, <2>2 DEF SleepAt, Announced
  <2>. QED
    BY <1>1, <2>1, <2>3, OneMoves
<1>4. CASE LoadWord(w)
  <2>1. /\ pc[w] = "load" /\ pc' = [pc EXCEPT ![w] = "wait"] /\ UNCHANGED <<head, poster, sleeping, stop, stale>>
    BY <1>4 DEF LoadWord, Goto, Here, queues, lists, flags
  <2>2. ~Reason(w)'
    BY <1>1, <2>1 DEF SleepAt, Reason
  <2>3. SleepAt(w)'
    BY <1>1, <2>1, <2>2 DEF SleepAt, Announced
  <2>. QED
    BY <1>1, <2>1, <2>3, OneMoves
<1>5. CASE Wait(w)
  <2>1. /\ pc[w] = "wait" /\ stale' = [stale EXCEPT ![w] = FALSE] /\ UNCHANGED <<head, poster, sleeping, stop>>
        /\ \/ pc' = [pc EXCEPT ![w] = "relock"]
           \/ ~stale[w] /\ pc' = [pc EXCEPT ![w] = "asleep"]
    BY <1>5 DEF Wait, Goto, Here, queues, lists
  <2>2. (\E q \in Callers : Bumps(q, w)) => Coming(w)'
    BY <2>1 DEF Bumps, Coming
  <2>3. Reason(w)' <=> Reason(w)
    BY <2>1 DEF Reason
  <2>4. SleepAt(w)'
    BY <1>1, <2>1, <2>2, <2>3 DEF SleepAt, Announced
  <2>5. \A v \in Workers : v # w => pc'[v] = pc[v] /\ stale'[v] = stale[v]
    BY <1>1, <2>1 DEF FlagTypes
  <2>. QED
    BY <2>1, <2>4, <2>5, OneMoves
<1>6. CASE Relock(w)
  <2>1. /\ pc[w] = "relock" /\ pc' = [pc EXCEPT ![w] = "check"] /\ UNCHANGED <<head, poster, sleeping, stop, stale>>
    BY <1>6 DEF Relock, Goto, Here, queues, lists, flags
  <2>2. SleepAt(w)'
    BY <1>1, <2>1 DEF SleepAt, Announced
  <2>. QED
    BY <1>1, <2>1, <2>2, OneMoves
<1>7. ASSUME NEW from, NEW x, Take(w, from, x)
      PROVE  pc'[w] \notin Announced /\ \A v \in Workers : v # w => pc'[v] = pc[v]
  <2>1. pc' = [pc EXCEPT ![w] = "run"] \/ pc' = [pc EXCEPT ![w] = "pop"]
    BY <1>7 DEF Take, Goto
  <2>. QED
    BY <1>1, <2>1 DEF Announced
<1>8. CASE Pop(w)
  <2>1. /\ Take(w, "pop", head[w]) /\ Dequeue(w) /\ UNCHANGED <<poster, sleeping, stop, stale>>
    BY <1>8 DEF Pop, flags
  <2>2. \A v \in Workers : v # w => head'[v] = head[v]
    BY <1>1, <2>1, OtherHeads
  <2>. QED
    BY <1>7, <2>1, <2>2, Up, OneMoves
<1>9. CASE StayAwake(w)
  <2>1. /\ sleeping' = [sleeping EXCEPT ![w] = FALSE] /\ UNCHANGED <<poster, stop, stale>>
        /\ \/ Take(w, "check", head[w]) /\ Dequeue(w)
           \/ head' = head /\ (pc' = [pc EXCEPT ![w] = "stopped"] \/ pc' = [pc EXCEPT ![w] = "awake"])
    BY <1>9 DEF StayAwake, Goto, lists
  <2>2. pc'[w] \notin Announced /\ \A v \in Workers : v # w => pc'[v] = pc[v] /\ head'[v] = head[v]
    <3>1. CASE Take(w, "check", head[w]) /\ Dequeue(w)
      <4>1. \A v \in Workers : v # w => head'[v] = head[v]
        BY <1>1, <3>1, OtherHeads
      <4>. QED
        BY <1>7, <3>1, <4>1
    <3>2. CASE head' = head /\ (pc' = [pc EXCEPT ![w] = "stopped"] \/ pc' = [pc EXCEPT ![w] = "awake"])
      BY <1>1, <3>2 DEF Announced
    <3>. QED
      BY <2>1, <3>1, <3>2
  <2>3. \A v \in Workers : v # w => sleeping'[v] = sleeping[v]
    BY <1>1, <2>1 DEF FlagTypes
  <2>. QED
    BY <2>1, <2>2, <2>3, Up, OneMoves
<1>10. CASE Own(w) \/ Commit(w)
  <2>1. UNCHANGED <<head, poster, sleeping, stop, stale>> /\ \E from, x : Take(w, from, x)
    BY <1>10 DEF Own, Commit, lists, flags
  <2>2. pc'[w] \notin Announced /\ \A v \in Workers : v # w => pc'[v] = pc[v]
    BY <1>7, <2>1
  <2>. QED
    BY <2>1, <2>2, Up, OneMoves
<1>11. CASE SliceYield(w)
  <2>1. /\ pc' = [pc EXCEPT ![w] = "pop"] /\ UNCHANGED <<poster, sleeping, stop, stale>>
        /\ head' = head \/ Enqueue(w, cur[w])
    BY <1>11 DEF SliceYield, Leave, Goto, flags, lists
  <2>2. \A v \in Workers : v # w => head'[v] = head[v]
    BY <1>1, <2>1, OtherHeads
  <2>3. pc'[w] \notin Announced /\ \A v \in Workers : v # w => pc'[v] = pc[v]
    BY <1>1, <2>1 DEF Announced
  <2>. QED
    BY <2>1, <2>2, <2>3, Up, OneMoves
<1>12. CASE TakeGlobal(w)
  <2>1. /\ pc[w] = "pop" /\ pc' = pc /\ Dequeue(Pool) /\ UNCHANGED <<poster, sleeping, stop, stale>>
    BY <1>12 DEF TakeGlobal, Here, flags
  <2>2. \A v \in Workers : head'[v] = head[v]
    BY <1>1, <2>1, OtherHeads
  <2>. QED
    BY <2>1, <2>2, Up, OneMoves DEF Announced
<1>13. CASE \E v \in Workers : Scan(w, v)
  <2>1. /\ UNCHANGED <<head, poster, sleeping, stop, stale>>
        /\ \/ pc[w] = "scan" /\ pc' = pc
           \/ pc' = [pc EXCEPT ![w] = "copy"]
    BY <1>13 DEF Scan, Goto, Here, queues, lists, flags
  <2>2. pc'[w] \notin Announced /\ \A v \in Workers : v # w => pc'[v] = pc[v]
    BY <1>1, <2>1 DEF Announced
  <2>. QED
    BY <2>1, <2>2, Up, OneMoves
<1>14. CASE \/ NothingToTake(w) \/ Steal(w) \/ Copy(w) \/ CommitFails(w) \/ ScanDone(w)
            \/ Decide(w) \/ Finish(w) \/ Suspend(w)
  <2>1. UNCHANGED <<head, poster, sleeping, stop, stale>>
    <3>1. CASE NothingToTake(w) \/ Steal(w) \/ Copy(w) \/ CommitFails(w)
      BY <3>1 DEF NothingToTake, Steal, Copy, CommitFails, queues, lists, flags
    <3>2. CASE ScanDone(w) \/ Decide(w) \/ Finish(w) \/ Suspend(w)
      BY <3>2 DEF ScanDone, Decide, Finish, Suspend, queues, lists, flags
    <3>. QED
      BY <1>14, <3>1, <3>2
  <2>2. \E to : to \notin Announced /\ pc' = [pc EXCEPT ![w] = to]
    <3>1. CASE NothingToTake(w) \/ Steal(w) \/ Copy(w) \/ CommitFails(w)
      BY <3>1 DEF NothingToTake, Steal, Copy, CommitFails, Goto, Announced
    <3>2. CASE ScanDone(w) \/ Decide(w) \/ Finish(w) \/ Suspend(w)
      BY <3>2 DEF ScanDone, Decide, Finish, Suspend, Leave, Goto, Announced
    <3>. QED
      BY <1>14, <3>1, <3>2
  <2>3. pc'[w] \notin Announced /\ \A v \in Workers : v # w => pc'[v] = pc[v]
    BY <1>1, <2>2 DEF Announced
  <2>. QED
    BY <2>1, <2>3, Up, OneMoves
<1>. QED
  BY <1>2, <1>3, <1>4, <1>5, <1>6, <1>8, <1>9, <1>10, <1>11, <1>12, <1>13, <1>14 DEF WorkerStep

\* A call that is no waker becomes one or none; no worker but those that start is moved.
LEMMA CallMoves ==
  ASSUME PoolInv, SleepInv, NEW p \in Callers, poster[p].step \notin {"bump", "wake"},
         \A q \in Callers : q # p => poster'[q] = poster[q],
         pc' = pc \/ \E w \in Workers : pc' = [pc EXCEPT ![w] = "pop"],
         \A v \in Workers : head'[v] = head[v], UNCHANGED <<sleeping, stop, stale>>
  PROVE  SleepInv'
<1>1. ASSUME NEW v \in Workers PROVE SleepAt(v)'
  <2>1. CASE pc'[v] = pc[v]
    BY <2>1, Kept DEF SleepInv
  <2>2. CASE pc'[v] # pc[v]
    <3>1. pc'[v] = "pop"
      BY <2>2 DEF PoolInv, WorkerTypes
    <3>. QED
      BY <3>1, Up DEF Announced
  <2>. QED
    BY <2>1, <2>2
<1>. QED
  BY <1>1 DEF SleepInv

\* Whoever gives a worker a reason to be up wakes it, if it is on its way to sleep.
LEMMA SleepCaller ==
  ASSUME PoolInv, SleepInv, NEW p \in Callers,
         \/ PosterStep(p)
         \/ p \in Posters /\ \E x \in Tasks : PushGlobal(p, x) \/ \E w \in Workers : Post(p, x, w)
         \/ p \in Posters /\ \E w \in Workers : Stop(p, w) \/ Shrink(p, w)
  PROVE  SleepInv'
<1>1. /\ ListTypes /\ WorkerTypes /\ FlagTypes /\ CallTypes /\ CallInv /\ \A w \in Workers : SleepAt(w)
      /\ Pool \in Lists /\ \A v \in Workers : v \in Lists /\ v # Pool
  BY SchedulerAssumption DEF PoolInv, SleepInv, Lists
<1>2. ASSUME NEW v \in Workers, pc'[v] = pc[v], head'[v] = head[v], sleeping'[v] = sleeping[v],
             stop'[v] = stop[v], stale'[v] = stale[v],
             poster[p].step \notin {"bump", "wake"} \/ poster[p].to # v,
             \A q \in Callers : q # p => poster'[q] = poster[q]
      PROVE  SleepAt(v)'
  BY <1>1, <1>2, Kept
<1>3. ASSUME NEW v \in Workers, poster'[p].step = "bump", poster'[p].to = v,
             pc'[v] = pc[v], sleeping'[v] = sleeping[v], pc[v] # "load"
      PROVE  SleepAt(v)'
  <2>1. Bumps(p, v)' /\ Coming(v)'
    BY <1>3 DEF Bumps, Coming
  <2>. QED
    BY <1>1, <1>3, <2>1 DEF SleepAt
<1>4. CASE PostAppend(p)
  <2>1. PICK x \in Tasks, w \in Workers : x = poster[p].task /\ w = poster[p].to
    BY <1>1, <1>4 DEF PostAppend, CallInv
  <2>2. /\ poster[p].step = "append" /\ ~Locked(w) /\ Enqueue(w, x)
        /\ \/ sleeping[w] /\ poster' = [poster EXCEPT ![p] = [step |-> "bump", task |-> None, to |-> w]]
           \/ ~sleeping[w] /\ poster' = [poster EXCEPT ![p] = Idle]
        /\ UNCHANGED <<pc, sleeping, stop, stale>>
    BY <1>4, <2>1 DEF PostAppend, Step, flags
  <2>3. \A q \in Callers : q # p => poster'[q] = poster[q]
    BY <1>1, <2>2 DEF CallTypes
  <2>4. ASSUME NEW v \in Workers, v # w PROVE SleepAt(v)'
    <3>1. head'[v] = head[v]
      BY <1>1, <2>2, <2>4, OtherHeads
    <3>. QED
      BY <1>2, <2>2, <2>3, <3>1
  <2>5. SleepAt(w)'
    <3>1. CASE sleeping[w]
      <4>1. poster'[p].step = "bump" /\ poster'[p].to = w
        BY <1>1, <2>2, <3>1 DEF CallTypes
      <4>. QED
        BY <1>3, <2>2, <4>1 DEF Locked
    <3>2. CASE ~sleeping[w]
      BY <1>1, <2>2, <3>2, Up DEF SleepAt
    <3>. QED
      BY <3>1, <3>2
  <2>. QED
    BY <2>4, <2>5 DEF SleepInv
<1>5. CASE Bump(p)
  <2>1. /\ poster[p].step = "bump" /\ stale' = [stale EXCEPT ![poster[p].to] = (pc[poster[p].to] = "wait")]
        /\ poster' = [poster EXCEPT ![p].step = "wake"] /\ UNCHANGED <<head, pc, sleeping, stop>>
    BY <1>5 DEF Bump, queues, lists
  <2>2. /\ \A q \in Callers : q # p => poster'[q] = poster[q]
        /\ poster'[p].step = "wake" /\ poster'[p].to = poster[p].to
    BY <1>1, <2>1 DEF CallTypes
  <2>3. ASSUME NEW v \in Workers, v # poster[p].to PROVE SleepAt(v)'
    <3>1. stale'[v] = stale[v]
      BY <1>1, <2>1, <2>3 DEF FlagTypes
    <3>. QED
      BY <1>2, <2>1, <2>2, <2>3, <3>1
  <2>4. ASSUME NEW v \in Workers, v = poster[p].to PROVE SleepAt(v)'
    <3>1. Coming(v)'
      BY <2>2, <2>4 DEF Coming
    <3>2. stale'[v] = (pc[v] = "wait") /\ (Reason(v)' <=> Reason(v))
      BY <1>1, <2>1, <2>4 DEF Reason, FlagTypes
    <3>. QED
      BY <1>1, <2>1, <3>1, <3>2 DEF SleepAt
  <2>. QED
    BY <2>3, <2>4 DEF SleepInv
<1>6. CASE Wake(p)
  <2>1. /\ poster[p].step = "wake" /\ poster' = [poster EXCEPT ![p] = Idle]
        /\ UNCHANGED <<head, sleeping, stop, stale>>
        /\ \/ pc[poster[p].to] = "asleep" /\ pc' = [pc EXCEPT ![poster[p].to] = "relock"]
           \/ pc[poster[p].to] # "asleep" /\ pc' = pc
    BY <1>6 DEF Wake, queues, lists, flags
  <2>2. \A q \in Callers : q # p => poster'[q] = poster[q]
    BY <1>1, <2>1 DEF CallTypes
  <2>3. ASSUME NEW v \in Workers, v # poster[p].to PROVE SleepAt(v)'
    <3>1. pc'[v] = pc[v]
      BY <1>1, <2>1, <2>3 DEF WorkerTypes
    <3>. QED
      BY <1>2, <2>1, <2>2, <2>3, <3>1
  <2>4. ASSUME NEW v \in Workers, v = poster[p].to PROVE SleepAt(v)'
    <3>1. CASE pc[v] = "asleep"
      <4>1. pc'[v] = "relock"
        BY <1>1, <2>1, <2>4, <3>1 DEF WorkerTypes
      <4>. QED
        BY <1>1, <2>1, <3>1, <4>1 DEF SleepAt, Announced
    <3>2. CASE pc[v] # "asleep"
      <4>1. pc' = pc /\ (Reason(v)' <=> Reason(v))
        BY <2>1, <2>4, <3>2 DEF Reason
      <4>2. (\E q \in Callers : Bumps(q, v)) => (\E q \in Callers : Bumps(q, v)')
        <5>1. ~Bumps(p, v)
          BY <2>1 DEF Bumps
        <5>. QED
          BY <2>2, <5>1 DEF Bumps
      <4>. QED
        BY <1>1, <2>1, <3>2, <4>1, <4>2 DEF SleepAt
    <3>. QED
      BY <3>1, <3>2
  <2>. QED
    BY <2>3, <2>4 DEF SleepInv
<1>7. CASE SeeSpinner(p) \/ ChooseWorker(p)
  <2>1. /\ poster[p].step \in {"spin", "choose"} /\ UNCHANGED <<head, sleeping, stop, stale>>
        /\ pc' = pc \/ \E w \in Workers : pc' = [pc EXCEPT ![w] = "pop"]
    BY <1>7 DEF SeeSpinner, ChooseWorker, queues, lists, flags
  <2>2. SeeSpinner(p) => \E r : poster' = [poster EXCEPT ![p] = r]
    BY DEF SeeSpinner
  <2>3. ChooseWorker(p) => \E r : poster' = [poster EXCEPT ![p] = r]
    BY DEF ChooseWorker, Step
  <2>4. \A q \in Callers : q # p => poster'[q] = poster[q]
    BY <1>1, <1>7, <2>2, <2>3 DEF CallTypes
  <2>. QED
    BY <2>1, <2>4, CallMoves
<1>8. ASSUME NEW x \in Tasks, PushGlobal(p, x) \/ \E w \in Workers : Post(p, x, w) PROVE SleepInv'
  <2>1. /\ poster[p] = Idle /\ UNCHANGED <<pc, sleeping, stop, stale>>
        /\ head' = head \/ Enqueue(Pool, x)
    BY <1>8 DEF PushGlobal, Overflow, Post, Call, flags
  <2>2. \E r : poster' = [poster EXCEPT ![p] = r]
    BY <1>8 DEF PushGlobal, Overflow, Post, Step
  <2>3. poster[p].step = "idle" /\ \A q \in Callers : q # p => poster'[q] = poster[q]
    BY <1>1, <2>1, <2>2 DEF CallTypes, Idle
  <2>4. \A v \in Workers : head'[v] = head[v]
    BY <1>1, <2>1, OtherHeads
  <2>. QED
    BY <2>1, <2>3, <2>4, CallMoves
<1>9. ASSUME NEW w \in Workers, Stop(p, w) \/ Shrink(p, w) PROVE SleepInv'
  <2>1. /\ poster[p].step = "idle" /\ UNCHANGED <<head, pc, sleeping, stale>>
        /\ stop' = stop \/ stop' = [stop EXCEPT ![w] = TRUE]
    BY <1>9 DEF Stop, Shrink, Call, Idle, queues, lists
  <2>2. /\ Stop(p, w) => /\ ~Locked(w)
                         /\ \/ sleeping[w] /\ Step(p, "bump", None, w)
                            \/ ~sleeping[w] /\ poster' = poster
        /\ Shrink(p, w) => Step(p, "bump", None, w) /\ stop' = stop
    BY DEF Stop, Shrink
  <2>3. /\ \A q \in Callers : q # p => poster'[q] = poster[q]
        /\ Step(p, "bump", None, w) => poster'[p].step = "bump" /\ poster'[p].to = w
    BY <1>1, <1>9, <2>2 DEF Step, CallTypes
  <2>4. ASSUME NEW v \in Workers, v # w PROVE SleepAt(v)'
    <3>1. stop'[v] = stop[v]
      BY <1>1, <2>1, <2>4 DEF FlagTypes
    <3>. QED
      BY <1>2, <2>1, <2>3, <3>1
  <2>5. SleepAt(w)'
    <3>1. CASE stop' = stop
      BY <1>2, <2>1, <2>3, <3>1
    <3>2. CASE stop' # stop
      <4>1. Stop(p, w)
        BY <1>9, <2>2, <3>2
      <4>2. CASE sleeping[w]
        BY <1>3, <2>1, <2>2, <2>3, <4>1, <4>2 DEF Locked
      <4>3. CASE ~sleeping[w]
        BY <1>1, <2>1, <4>3, Up DEF SleepAt
      <4>. QED
        BY <4>2, <4>3
    <3>. QED
      BY <3>1, <3>2
  <2>. QED
    BY <2>4, <2>5 DEF SleepInv
<1>. QED
  BY <1>4, <1>5, <1>6, <1>7, <1>8, <1>9 DEF PosterStep

\* A coroutine that a worker spawns goes to its WSQ or to the global queue.
LEMMA SleepSpawn ==
  ASSUME PoolInv, SleepInv, NEW w \in Workers, NEW x \in Tasks, Spawn(w, x)
  PROVE  SleepInv'
<1>1. /\ ListTypes /\ CallTypes /\ w \in Callers /\ Pool \in Lists /\ \A v \in Workers : v \in Lists /\ v # Pool
  BY SchedulerAssumption DEF PoolInv, Lists, Callers
<1>2. /\ poster[w] = Idle /\ UNCHANGED <<pc, sleeping, stop, stale>>
      /\ head' = head \/ Enqueue(Pool, x)
      /\ poster' = poster \/ \E r : poster' = [poster EXCEPT ![w] = r]
  BY DEF Spawn, Here, Overflow, Step, lists, flags
<1>3. \A v \in Workers : head'[v] = head[v]
  BY <1>1, <1>2, OtherHeads
<1>4. poster[w].step = "idle" /\ \A q \in Callers : q # w => poster'[q] = poster[q]
  BY <1>1, <1>2 DEF CallTypes, Idle
<1>. QED
  BY <1>1, <1>2, <1>3, <1>4, CallMoves

\* No worker sleeps on a coroutine posted to it, nor on its stop.
THEOREM NobodyStranded == Spec => []NoStrandedPost
<1>1. Init => SleepInv
  <2>. SUFFICES ASSUME Init PROVE SleepInv
    OBVIOUS
  <2>1. \A w \in Workers : pc[w] \in {"pop", "absent"}
    BY DEF Init
  <2>. QED
    BY <2>1 DEF SleepInv, SleepAt, Announced
<1>2. PoolInv /\ SleepInv /\ [Next]_vars => SleepInv'
  <2>. SUFFICES ASSUME PoolInv, SleepInv, [Next]_vars PROVE SleepInv'
    OBVIOUS
  <2>1. CASE UNCHANGED vars
    <3>1. UNCHANGED <<pc, head, poster, sleeping, stop, stale>>
      BY <2>1 DEF vars, queues, lists, flags
    <3>. QED
      BY <3>1, Kept DEF SleepInv
  <2>2. Posters \subseteq Callers
    BY DEF Callers
  <2>. QED
    BY <2>1, <2>2, SleepWorker, SleepCaller, SleepSpawn DEF Next
<1>3. SleepInv => NoStrandedPost
  BY DEF SleepInv, SleepAt, Reason, NoStrandedPost
<1>. QED
  BY <1>1, <1>2, <1>3, PoolStart, PoolStep, PTL DEF Spec

=============================================================================
