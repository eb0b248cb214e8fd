--------------------------- MODULE CoroutineProofs ---------------------------
(***************************************************************************)
(* A coroutine that has not finished is never forgotten, and its swap      *)
(* buffer is in one hand at a time: for any threads, any numbers of        *)
(* operations and of idle stacks taken, and any programs, those too whose  *)
(* coroutine gets into two queues or under two threads.                    *)
(***************************************************************************)
EXTENDS Coroutine, TLAPS

Nearing == {"look", "swapin", "copyin", "cas", "on"}
After == {"back", "slice", "migrate"}
Awaits == {"awaiting", "awaited"}

Typed == /\ state \in {"ready", "running", "suspended", "swapping", "dead"}
         /\ swap \in {"normal", "out", "swapped", "in"} /\ frames \in {"intact", "gone"}
         /\ slice \in BOOLEAN /\ queued \in BOOLEAN /\ woke \in BOOLEAN
         /\ ready \in [Threads -> Nat] /\ pool \in Nat
         /\ migrate \in Threads \union {None} /\ home \in Threads \union {None}
         /\ at \in [Threads -> {"loop"} \union Nearing \union After]
         /\ op \in {"code", "waiting", "done"} \union Awaits \union Threads
         /\ entry \in Threads \union {None} /\ waiting \in Threads \union {None}
         /\ task \in {"none", "pending", "done"}
         /\ \A m \in posts : m.to \in Threads
         /\ sysmon \in {"idle", "saw", "scan", "scanned", "fit", "claimed", "copy", "restore"}

\* What stands for what: queued for an entry, a dead coroutine for one that has finished, a task
\* for the coroutine that awaits it, sysmon's scan and waiting_sched for one in a butex.
Marks ==
    /\ queued => pool > 0 \/ \E t \in Threads : ready[t] > 0
    /\ state = "dead" => op = "done"
    /\ task # "none" => op \in Awaits
    /\ task = "pending" => entry # None
    /\ op = "waiting" => waiting # None
    /\ sysmon \in {"scan", "scanned"} => op = "waiting"

\* Something outside of thread t is still going to bring the coroutine back.
Coming(t) == task = "pending" \/ posts # {} \/ queued \/ \E u \in Threads \ {t} : at[u] \in Nearing

\* The same, with the thread that it has left and that will queue it again.
Brought ==
    \/ queued \/ posts # {} \/ task = "pending"
    \/ op = "waiting" /\ entry # None /\ ~woke
    \/ \E t \in Threads : \/ at[t] \in {"back", "slice"} /\ slice
                          \/ at[t] \in After /\ migrate # None

\* One that waits and has not been woken is in the butex; one that is about to yield for the
\* blocking pool will come back; and one that has not finished is with a thread, or is brought to one.
Linked ==
    /\ op = "waiting" /\ ~woke => entry # None
    /\ op = "awaiting" => \E t \in Threads : at[t] = "on" /\ Coming(t)
    /\ op = "done" \/ (\E t \in Threads : at[t] \in Nearing) \/ Brought

CoInv == Typed /\ Marks /\ Linked

-----------------------------------------------------------------------------
(* Steps                                                                   *)

\* The names of threads are no names of places.
LEMMA Names ==
  /\ None \notin Threads /\ IO \in Threads \ Workers /\ Workers \subseteq Threads
  /\ \A t \in Threads : t \notin {"code", "waiting", "awaiting", "awaited", "done"}
BY CoroutineAssumption DEF Threads

\* A thread that goes from one place to another is the only one that moves.
LEMMA Going ==
  ASSUME Typed, NEW T \in Threads, NEW from, NEW to \in {"loop"} \union Nearing \union After, Goto(T, from, to)
  PROVE  /\ at[T] = from /\ at'[T] = to /\ at' \in [Threads -> {"loop"} \union Nearing \union After]
         /\ \A u \in Threads \ {T} : at'[u] = at[u]
BY DEF Typed, Goto

\* A post leaves an entry, its own or one that was there.
LEMMA Posting1 ==
  ASSUME Typed, Marks, NEW t \in Threads, Post(t)
  PROVE  /\ queued' = TRUE /\ ready' \in [Threads -> Nat] /\ pool' \in Nat
         /\ pool' > 0 \/ \E u \in Threads : ready'[u] > 0
<1>1. CASE queued /\ UNCHANGED queues
  BY <1>1 DEF Typed, Marks, queues
<1>2. CASE ~queued /\ queued' = TRUE /\ ready' = [ready EXCEPT ![t] = @ + 1] /\ UNCHANGED pool
  <2>1. ready' \in [Threads -> Nat] /\ ready'[t] > 0 /\ pool' \in Nat
    BY <1>2 DEF Typed
  <2>. QED
    BY <1>2, <2>1
<1>. QED
  BY <1>1, <1>2 DEF Post

\* A thread takes an entry and has the coroutine.
LEMMA PopStep ==
  ASSUME CoInv, NEW T \in Threads, Pop(T)
  PROVE  CoInv'
<1>. USE DEF CoInv
<1>1. /\ UNCHANGED <<state, swap, frames, slice, migrate, home, op, entry, woke, waiting, task, posts, sysmon>>
      /\ ~queued' /\ at[T] = "loop" /\ at'[T] = Resuming /\ \A u \in Threads \ {T} : at'[u] = at[u]
  BY DEF Pop, stack, moves, waits, Going, Goto, Typed, Resuming
<1>2. Resuming = "look" \/ op = "done"
  BY DEF Resuming, Marks
<1>3. Typed'
  <2>1. at' \in [Threads -> {"loop"} \union Nearing \union After] /\ queued' \in BOOLEAN
    BY <1>1 DEF Pop, Goto, Typed, Resuming, Nearing, After
  <2>2. ready' \in [Threads -> Nat] /\ pool' \in Nat
    BY DEF Pop, Typed
  <2>. QED
    BY <1>1, <2>1, <2>2 DEF Typed
<1>4. Marks'
  BY <1>1 DEF Marks
<1>5. Linked'
  <2>1. CASE op = "done"
    BY <1>1, <2>1 DEF Linked
  <2>2. CASE op # "done"
    <3>1. at'[T] \in Nearing
      BY <1>1, <1>2, <2>2 DEF Nearing
    <3>2. \A t \in Threads : at[t] = "on" => t # T /\ at'[t] = "on"
      BY <1>1
    <3>. QED
      BY <1>1, <3>1, <3>2 DEF Linked, Coming
  <2>. QED
    BY <2>1, <2>2
<1>. QED
  BY <1>3, <1>4, <1>5

\* On its way into the stack a thread keeps hold of the coroutine.
LEMMA ApproachStep ==
  ASSUME CoInv, NEW T \in Threads, Look(T) \/ SwapIn(T) \/ CopyIn(T) \/ Claim(T)
  PROVE  CoInv'
<1>. USE DEF CoInv
<1>1. /\ UNCHANGED <<queued, ready, pool, slice, migrate, home, op, entry, woke, waiting, task, posts, sysmon>>
      /\ at[T] \in Nearing \ {"on"} /\ at'[T] \in Nearing /\ \A u \in Threads \ {T} : at'[u] = at[u]
      /\ at' \in [Threads -> {"loop"} \union Nearing \union After]
  BY DEF Look, SwapIn, CopyIn, Claim, queues, moves, waits, Goto, Typed, Nearing
<1>2. /\ state' \in {state, "running"} /\ swap' \in {swap, "in", "normal"} /\ frames' \in {frames, "intact"}
  BY DEF Look, SwapIn, CopyIn, Claim, stack
<1>3. Typed'
  BY <1>1, <1>2 DEF Typed
<1>4. Marks'
  BY <1>1, <1>2 DEF Marks
<1>5. Linked'
  <2>1. \A t \in Threads : at[t] = "on" => t # T /\ at'[t] = "on"
    BY <1>1
  <2>2. \A t \in Threads : at[t] = "on" /\ Coming(t) => Coming(t)'
    BY <1>1, <2>1 DEF Coming
  <2>. QED
    BY <1>1, <2>1, <2>2 DEF Linked
<1>. QED
  BY <1>3, <1>4, <1>5

\* Behind the coroutine a thread hands it on before it lets go of it.
LEMMA HandOnStep ==
  ASSUME CoInv, NEW T \in Threads, Back(T) \/ SliceBack(T) \/ Migrate(T)
  PROVE  CoInv'
<1>. USE DEF CoInv
<1>1. /\ UNCHANGED <<swap, frames, home, op, entry, woke, waiting, task, posts, sysmon>>
      /\ at[T] \in After /\ at'[T] \in {"slice", "migrate", "loop"} /\ \A u \in Threads \ {T} : at'[u] = at[u]
      /\ at' \in [Threads -> {"loop"} \union Nearing \union After]
      /\ (state' = "dead" => state = "dead") /\ state' \in {state, "suspended"}
  BY DEF Back, SliceBack, Migrate, stack, moves, waits, Goto, Typed, After
<1>2. /\ slice' \in BOOLEAN /\ migrate' \in {migrate, None}
      /\ UNCHANGED queues \/ (queued' = TRUE /\ ready' \in [Threads -> Nat] /\ pool' \in Nat
                              /\ (pool' > 0 \/ \E u \in Threads : ready'[u] > 0))
  <2>1. CASE Back(T)
    BY <2>1 DEF Back, moves, Typed
  <2>2. CASE SliceBack(T)
    BY <2>2, Posting1 DEF SliceBack, Typed
  <2>3. CASE Migrate(T)
    <3>1. migrate' = None /\ slice' \in BOOLEAN
      BY <2>3 DEF Migrate, Typed
    <3>2. CASE migrate = None /\ UNCHANGED queues
      BY <3>1, <3>2
    <3>3. CASE queued' = TRUE /\ pool' = pool + 1 /\ UNCHANGED ready
      BY <3>1, <3>3 DEF Typed
    <3>4. CASE migrate \in Threads /\ Post(migrate)
      BY <3>1, <3>4, Posting1
    <3>. QED
      BY <2>3, <3>2, <3>3, <3>4, Names DEF Migrate
  <2>. QED
    BY <2>1, <2>2, <2>3
<1>3. Typed'
  <2>1. queued' \in BOOLEAN /\ ready' \in [Threads -> Nat] /\ pool' \in Nat
    BY <1>2 DEF Typed, queues
  <2>. QED
    BY <1>1, <1>2, <2>1 DEF Typed
<1>4. Marks'
  BY <1>1, <1>2 DEF Marks, queues
<1>5. queued => queued'
  BY <1>2 DEF queues
<1>6. \A u \in Threads : at[u] \in Nearing => at'[u] = at[u]
  BY <1>1 DEF Nearing, After
<1>7. \A t \in Threads : Coming(t) => Coming(t)'
  BY <1>1, <1>5, <1>6 DEF Coming
<1>8. Brought => Brought' \/ op = "done"
  <2>1. CASE Back(T)
    BY <1>1, <1>5, <2>1 DEF Back, moves, Goto, Brought, After
  <2>2. CASE SliceBack(T)
    <3>1. CASE slice /\ state # "dead" /\ migrate = None
      BY <2>2, <3>1, Posting1, Names DEF SliceBack, Brought
    <3>2. CASE state = "dead"
      BY <3>2 DEF Marks
    <3>3. CASE migrate # None
      <4>1. at[T] \in After /\ at'[T] = "migrate" /\ migrate' = migrate
        BY <1>1, <2>2 DEF SliceBack, Goto, Typed
      <4>. QED
        BY <3>3, <4>1 DEF Brought, After
    <3>4. CASE ~slice
      <4>1. migrate' = migrate /\ at'[T] = "migrate"
        BY <2>2 DEF SliceBack, Goto, Typed
      <4>. QED
        BY <1>1, <1>5, <3>4, <4>1 DEF Brought, After
    <3>. QED
      BY <3>1, <3>2, <3>3, <3>4
  <2>3. CASE Migrate(T)
    <3>1. CASE migrate # None
      <4>1. queued'
        BY <2>3, <3>1, Posting1, Names DEF Migrate, Typed
      <4>. QED
        BY <4>1 DEF Brought
    <3>2. CASE migrate = None
      <4>1. slice' = slice /\ at[T] = "migrate"
        BY <2>3 DEF Migrate, Goto
      <4>. QED
        BY <1>1, <1>5, <3>2, <4>1 DEF Brought
    <3>. QED
      BY <3>1, <3>2
  <2>. QED
    BY <2>1, <2>2, <2>3
<1>9. Linked'
  BY <1>1, <1>6, <1>7, <1>8 DEF Linked, Nearing
<1>. QED
  BY <1>3, <1>4, <1>9

\* A coroutine that goes on where it is.
LEMMA StayStep ==
  ASSUME CoInv, NEW T \in Threads,
         WaitStart(T) \/ WaitDone(T) \/ AwaitStart(T) \/ AwaitRead(T) \/ EndReturn(T)
  PROVE  CoInv'
<1>. USE DEF CoInv, On
<1>1. /\ UNCHANGED <<state, swap, frames, slice, queued, ready, pool, migrate, home, at, sysmon>>
      /\ at[T] = "on" /\ op # "done" /\ op' \in {"code", "waiting", "awaiting"} /\ op # op'
  BY Names DEF WaitStart, WaitDone, AwaitStart, AwaitRead, EndReturn, stack, queues, moves
<1>2. sysmon \in {"scan", "scanned"} => FALSE
  BY <1>1, Names DEF WaitStart, WaitDone, AwaitStart, AwaitRead, EndReturn, RegistryFree, Marks
<1>3. Typed'
  <2>1. CASE WaitStart(T)
    <3>1. woke' \in BOOLEAN /\ entry' \in Threads /\ waiting' \in Threads /\ UNCHANGED <<task, posts>> /\ op' = "waiting"
      BY <2>1 DEF WaitStart
    <3>. QED
      BY <1>1, <3>1 DEF Typed
  <2>2. CASE WaitDone(T)
    BY <1>1, <2>2 DEF WaitDone, Typed
  <2>3. CASE AwaitStart(T)
    BY <1>1, <2>3 DEF AwaitStart, Typed, Awaits
  <2>4. CASE AwaitRead(T)
    <3>1. \A m \in posts' : m.to \in Threads
      BY <2>4 DEF AwaitRead, Posting, Typed, Marks
    <3>. QED
      BY <1>1, <2>4, <3>1 DEF AwaitRead, Typed
  <2>5. CASE EndReturn(T)
    BY <1>1, <2>5 DEF EndReturn, waits, Typed
  <2>. QED
    BY <2>1, <2>2, <2>3, <2>4, <2>5
<1>4. Marks'
  <2>1. state # "dead"
    BY <1>1 DEF Marks
  <2>2. /\ task' # "none" => op' \in Awaits
        /\ task' = "pending" => entry' # None
        /\ op' = "waiting" => waiting' # None
    BY Names DEF WaitStart, WaitDone, AwaitStart, AwaitRead, EndReturn, waits, Marks, Awaits
  <2>. QED
    BY <1>1, <1>2, <2>1, <2>2 DEF Marks
<1>5. Linked'
  <2>1. op' = "waiting" /\ ~woke' => entry' # None
    BY Names DEF WaitStart, WaitDone, AwaitStart, AwaitRead, EndReturn
  <2>2. op' = "awaiting" => task' = "pending"
    BY DEF WaitStart, WaitDone, AwaitStart, AwaitRead, EndReturn
  <2>. QED
    BY <1>1, <2>1, <2>2 DEF Linked, Coming, Nearing
<1>. QED
  BY <1>3, <1>4, <1>5

\* A coroutine that leaves its thread leaves word before.
LEMMA LeaveStep ==
  ASSUME CoInv, NEW T \in Threads,
         WaitYield(T) \/ AwaitYield(T) \/ Begin(T) \/ End(T) \/ Slice(T) \/ Finish(T)
  PROVE  CoInv'
<1>. USE DEF CoInv, On
<1>1. /\ UNCHANGED <<swap, frames, queued, ready, pool, entry, woke, waiting, task, posts, sysmon>>
      /\ at[T] = "on" /\ at'[T] = "back" /\ \A u \in Threads \ {T} : at'[u] = at[u]
      /\ at' \in [Threads -> {"loop"} \union Nearing \union After] /\ op # "done"
      /\ state' = state \/ (state' = "dead" /\ op' = "done")
  BY Names DEF WaitYield, AwaitYield, Begin, End, Slice, Finish, Yield, stack, queues, waits, Goto, Typed, After
<1>2. /\ slice' \in BOOLEAN /\ migrate' \in Threads \union {None} /\ home' \in Threads \union {None}
      /\ \/ op' = op /\ op \in {"waiting", "code"}
         \/ op = "awaiting" /\ op' = "awaited"
         \/ op = "code" /\ op' \in Threads \union {"done"}
  BY Names DEF WaitYield, AwaitYield, Begin, End, Slice, Finish, Yield, moves, Typed
<1>3. Typed'
  BY <1>1, <1>2 DEF Typed, Awaits
<1>4. Marks'
  BY <1>1, <1>2, Names DEF Marks, Awaits
<1>5. op' = "done" \/ (\E t \in Threads : at'[t] \in Nearing) \/ Brought'
  <2>1. CASE WaitYield(T)
    BY <1>1, <2>1 DEF WaitYield, Linked, Brought
  <2>2. CASE AwaitYield(T)
    <3>1. PICK t \in Threads : at[t] = "on" /\ Coming(t)
      BY <2>2 DEF AwaitYield, Linked
    <3>2. CASE t # T
      BY <1>1, <3>1, <3>2 DEF Nearing
    <3>3. CASE t = T
      BY <1>1, <3>1, <3>3 DEF Coming, Brought
    <3>. QED
      BY <3>2, <3>3
  <2>3. CASE Begin(T) \/ End(T)
    <3>1. migrate' # None
      BY <2>3, Names DEF Begin, End, Yield, Typed
    <3>. QED
      BY <1>1, <3>1 DEF Brought, After
  <2>4. CASE Slice(T)
    BY <1>1, <2>4 DEF Slice, Brought
  <2>5. CASE Finish(T)
    BY <2>5 DEF Finish
  <2>. QED
    BY <2>1, <2>2, <2>3, <2>4, <2>5
<1>6. Linked'
  BY <1>1, <1>2, <1>5, Names DEF Linked
<1>. QED
  BY <1>3, <1>4, <1>6

\* Wakers, the blocking pool and sysmon bring it nearer or leave it where it is.
LEMMA OthersStep ==
  ASSUME CoInv,
         \/ Wake \/ TaskDone \/ (\E m \in posts : DeliverPost(m))
         \/ StuckLook \/ Stuck \/ SeeHog \/ ForceMigrate
  PROVE  CoInv'
<1>. USE DEF CoInv
<1>0. UNCHANGED <<state, swap, frames, slice, home, at, op, waiting>>
  BY DEF Wake, TaskDone, DeliverPost, StuckLook, Stuck, StuckQueued, Rescue, SeeHog, ForceMigrate, stack, moves, waits
<1>1. ASSUME Typed', Marks',
             (queued => queued') /\ (posts = {} \/ posts' # {} \/ queued') /\ (task = "pending" => task' = "pending" \/ posts' # {}),
             op' = "waiting" /\ ~woke' => entry' # None,
             (entry' = entry /\ woke' = woke) \/ posts' # {},
             migrate' = migrate \/ migrate = None
      PROVE  CoInv'
  <2>1. \A t \in Threads : Coming(t) => Coming(t)'
    BY <1>0, <1>1 DEF Coming
  <2>2. Brought => Brought'
    BY <1>0, <1>1 DEF Brought
  <2>. QED
    BY <1>0, <1>1, <2>1, <2>2 DEF Linked
<1>2. CASE Wake \/ TaskDone
  <2>1. /\ UNCHANGED <<queued, ready, pool, migrate, sysmon>> /\ posts' # {} /\ entry # None
        /\ posts' = posts \union {[by |-> IF Wake THEN "waker" ELSE "pool", to |-> entry, no |-> ops]}
    BY <1>2 DEF Wake, TaskDone, Posting, queues, moves, Marks, Awaits
  <2>2. \A m \in posts' : m.to \in Threads
    BY <2>1 DEF Typed
  <2>3. woke' \in BOOLEAN /\ entry' \in Threads \union {None} /\ task' \in {"none", "pending", "done"}
    BY <1>2 DEF Wake, TaskDone, Typed
  <2>4. Typed'
    BY <1>0, <2>1, <2>2, <2>3 DEF Typed
  <2>5. Marks'
    BY <1>0, <1>2, <2>1 DEF Wake, TaskDone, Marks, Awaits
  <2>6. op' = "waiting" /\ ~woke' => entry' # None
    BY <1>0, <1>2 DEF Wake, TaskDone, Marks, Awaits
  <2>. QED
    BY <1>1, <2>1, <2>4, <2>5, <2>6
<1>3. ASSUME NEW m \in posts, DeliverPost(m) PROVE CoInv'
  <2>1. /\ UNCHANGED <<migrate, entry, woke, task, sysmon>> /\ posts' = posts \ {m} /\ queued' = TRUE
        /\ ready' \in [Threads -> Nat] /\ pool' \in Nat /\ (pool' > 0 \/ \E u \in Threads : ready'[u] > 0)
    BY <1>3, Posting1 DEF DeliverPost, moves, Typed
  <2>2. Typed'
    BY <1>0, <2>1 DEF Typed
  <2>3. Marks'
    BY <1>0, <2>1 DEF Marks
  <2>. QED
    BY <1>0, <1>1, <2>1, <2>2, <2>3 DEF Linked
<1>4. CASE Rescue
  <2>1. waiting \in Threads /\ op = "waiting"
    BY <1>4 DEF Rescue, Marks, Typed
  <2>2. /\ UNCHANGED <<migrate, entry, woke, task, posts>> /\ sysmon' = "idle"
        /\ UNCHANGED queues \/ (queued' = TRUE /\ ready' \in [Threads -> Nat] /\ pool' \in Nat
                                /\ (pool' > 0 \/ \E u \in Threads : ready'[u] > 0))
    BY <1>4, <2>1, Posting1 DEF Rescue, moves, waits
  <2>3. Typed'
    <3>1. queued' \in BOOLEAN /\ ready' \in [Threads -> Nat] /\ pool' \in Nat
      BY <2>2 DEF Typed, queues
    <3>. QED
      BY <1>0, <2>2, <3>1 DEF Typed
  <2>4. Marks'
    BY <1>0, <2>2 DEF Marks, queues
  <2>. QED
    BY <1>0, <1>1, <2>2, <2>3, <2>4 DEF Linked, queues
<1>5. CASE StuckLook \/ StuckQueued \/ SeeHog \/ ForceMigrate
  <2>1. /\ UNCHANGED <<queued, ready, pool, entry, woke, task, posts>>
        /\ migrate' \in Threads \union {None} /\ (migrate' = migrate \/ migrate = None)
        /\ sysmon' \in {"idle", "saw", "scan", "scanned"} /\ (sysmon' \in {"scan", "scanned"} => op = "waiting")
    BY <1>5, Names DEF StuckLook, StuckQueued, SeeHog, ForceMigrate, queues, moves, waits, Marks, Typed
  <2>2. Typed'
    BY <1>0, <2>1 DEF Typed
  <2>3. Marks'
    BY <1>0, <2>1 DEF Marks
  <2>. QED
    BY <1>0, <1>1, <2>1, <2>2, <2>3 DEF Linked
<1>. QED
  BY <1>2, <1>3, <1>4, <1>5 DEF Stuck

\* The reaper takes the stack and gives it back; a coroutine at rest stays where it is.
LEMMA ReapStep ==
  ASSUME CoInv, Reap
  PROVE  CoInv'
<1>. USE DEF CoInv
<1>1. /\ UNCHANGED <<slice, queued, ready, pool, migrate, home, at, op, entry, woke, waiting, task, posts>>
      /\ state' \in {state, "swapping", "suspended"}
      /\ swap' \in {swap, "out", "swapped"} /\ frames' \in {frames, "gone"}
      /\ sysmon' \in {"idle", "fit", "claimed", "copy", "restore"}
  BY DEF Reap, ReapLook, ReapClaim, ReapMark, ReapCopy, ReapRestore, stack, queues, moves, waits
<1>2. Typed'
  BY <1>1 DEF Typed
<1>3. Marks'
  BY <1>1 DEF Marks
<1>4. Linked'
  BY <1>1 DEF Linked, Coming, Brought
<1>. QED
  BY <1>2, <1>3, <1>4

-----------------------------------------------------------------------------
(* No coroutine is forgotten                                               *)

LEMMA CoBegins == Init => CoInv
<1>. SUFFICES ASSUME Init PROVE CoInv
  OBVIOUS
<1>1. PICK t \in Threads : ready = [u \in Threads |-> IF u = t THEN 1 ELSE 0]
  BY DEF Init
<1>2. Typed
  BY <1>1 DEF Init, Typed
<1>3. Marks
  BY <1>1 DEF Init, Marks
<1>4. Linked
  BY DEF Init, Linked, Brought
<1>. QED
  BY <1>2, <1>3, <1>4 DEF CoInv

\* Entries, marks and links hold for every program, and so for the types of the state.
THEOREM CoInvariance == Spec => []CoInv
<1>1. Init => CoInv
  BY CoBegins
<1>2. CoInv /\ [Next]_vars => CoInv'
  <2>. SUFFICES ASSUME CoInv, [Next]_vars PROVE CoInv'
    OBVIOUS
  <2>1. CASE UNCHANGED vars
    BY <2>1 DEF vars, stack, queues, moves, waits, CoInv, Typed, Marks, Linked, Coming, Brought
  <2>2. ASSUME NEW T \in Threads, Loop(T) PROVE CoInv'
    BY <2>2, PopStep, ApproachStep, HandOnStep DEF Loop
  <2>3. ASSUME NEW T \in Threads, Run(T) \/ WaitStart(T) \/ AwaitStart(T) \/ Begin(T) \/ Slice(T) PROVE CoInv'
    BY <2>3, StayStep, LeaveStep DEF Run
  <2>. QED
    BY <2>1, <2>2, <2>3, OthersStep, ReapStep DEF Next
<1>. QED
  BY <1>1, <1>2, PTL DEF Spec

\* A coroutine that has not finished is with a thread, in a queue, about to be posted, or waits for a
\* waker who still has its entry or a task still to be run: whatever its program, its threads, the
\* wakers and sysmon do (lm_butex.c:212-247, lm_scheduler.c:367-371 and 593-614, lm_sysmon.c:133-193).
THEOREM NobodyForgotten == Spec => []NotForgotten
<1>1. CoInv => NotForgotten
  BY DEF CoInv, Marks, Linked, Brought, NotForgotten, Nearing, After
<1>. QED
  BY <1>1, CoInvariance, PTL

-----------------------------------------------------------------------------
(* The swap buffer                                                         *)

\* The buffer is the reaper's while it copies out, one thread's while it copies in, and has the frames
\* whenever the stack has not (lm_co.c:318-357 and 640-735): no two resumes copy in at once, and no
\* resume copies in what is not yet there.
THEOREM BufferHasOneOwner == Spec => []BufferOwned
<1>. DEFINE copying == {t \in Threads : at[t] = "copyin"}
            BInv == Typed /\ BufferOwned
<1>1. Init => BufferOwned
  BY DEF Init, BufferOwned
<1>2. Typed /\ Typed' /\ BufferOwned /\ [Next]_vars => BufferOwned'
  <2>. SUFFICES ASSUME Typed, Typed', BufferOwned, [Next]_vars PROVE BufferOwned'
    OBVIOUS
  <2>0. ASSUME UNCHANGED <<swap, frames>>, sysmon' = "copy" <=> sysmon = "copy", copying' = copying PROVE BufferOwned'
    BY <2>0 DEF BufferOwned
  <2>1. ASSUME NEW T \in Threads, SwapIn(T) PROVE BufferOwned'
    <3>1. CASE swap = "normal"
      <4>1. copying' = copying /\ UNCHANGED <<swap, frames, sysmon>>
        BY <2>1, <3>1 DEF SwapIn, Goto, Typed
      <4>. QED
        BY <2>0, <4>1
    <3>2. CASE swap = "swapped"
      <4>1. /\ swap' = "in" /\ UNCHANGED <<frames, sysmon>> /\ copying = {}
            /\ at' = [at EXCEPT ![T] = "copyin"]
        BY <2>1, <3>2 DEF SwapIn, Goto, BufferOwned
      <4>2. copying' = {T}
        BY <4>1 DEF Typed
      <4>. QED
        BY <3>2, <4>1, <4>2 DEF BufferOwned
    <3>. QED
      BY <2>1, <3>1, <3>2 DEF SwapIn
  <2>2. ASSUME NEW T \in Threads, CopyIn(T) PROVE BufferOwned'
    <3>1. /\ T \in copying /\ swap' = "normal" /\ frames' = "intact" /\ UNCHANGED sysmon
          /\ at' = [at EXCEPT ![T] = "cas"]
      BY <2>2 DEF CopyIn, Goto
    <3>2. copying = {T} /\ swap = "in"
      BY <3>1 DEF BufferOwned
    <3>3. copying' = {}
      BY <3>1, <3>2 DEF Typed
    <3>. QED
      BY <3>1, <3>2, <3>3 DEF BufferOwned
  <2>3. ASSUME NEW T \in Threads, Pop(T) \/ Look(T) \/ Claim(T) \/ Back(T) \/ SliceBack(T) \/ Migrate(T) PROVE BufferOwned'
    <3>1. /\ UNCHANGED <<swap, frames, sysmon>> /\ at[T] # "copyin" /\ at'[T] # "copyin"
          /\ \A u \in Threads \ {T} : at'[u] = at[u]
      BY <2>3 DEF Pop, Look, Claim, Back, SliceBack, Migrate, Resuming, stack, Goto, Typed
    <3>2. copying' = copying
      BY <3>1
    <3>. QED
      BY <2>0, <3>1, <3>2
  <2>4. ASSUME NEW T \in Threads, Run(T) \/ WaitStart(T) \/ AwaitStart(T) \/ Begin(T) \/ Slice(T) PROVE BufferOwned'
    <3>1. UNCHANGED <<swap, frames, sysmon>> /\ (UNCHANGED at \/ Goto(T, "on", "back"))
      BY <2>4 DEF Run, WaitYield, WaitDone, AwaitYield, AwaitRead, End, EndReturn, Finish, WaitStart, AwaitStart,
                  Begin, Slice, Yield, stack
    <3>2. copying' = copying
      BY <3>1 DEF Goto, Typed
    <3>. QED
      BY <2>0, <3>1, <3>2
  <2>5. CASE \/ Wake \/ TaskDone \/ (\E m \in posts : DeliverPost(m)) \/ StuckLook \/ Stuck \/ SeeHog
             \/ ForceMigrate \/ ReapLook \/ ReapClaim \/ ReapRestore \/ UNCHANGED vars
    <3>1. UNCHANGED <<swap, frames, at>> /\ (sysmon' = "copy" <=> sysmon = "copy")
      BY <2>5 DEF Wake, TaskDone, DeliverPost, StuckLook, Stuck, StuckQueued, Rescue, SeeHog, ForceMigrate, ReapLook,
                  ReapClaim, ReapRestore, vars, stack
    <3>. QED
      BY <2>0, <3>1
  <2>6. CASE ReapMark
    BY <2>0, <2>6 DEF ReapMark, BufferOwned
  <2>7. CASE ReapCopy
    BY <2>7 DEF ReapCopy, BufferOwned
  <2>. QED
    BY <2>1, <2>2, <2>3, <2>4, <2>5, <2>6, <2>7 DEF Next, Loop, Reap
<1>3. CoInv => Typed
  BY DEF CoInv
<1>. QED
  BY <1>1, <1>2, <1>3, CoInvariance, PTL DEF Spec
=============================================================================
