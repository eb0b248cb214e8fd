----------------------------- MODULE Coroutine -----------------------------
(***************************************************************************)
(* The life of one coroutine (lm_co.c, vm_co.c): the threads that resume   *)
(* it, what it does between two yields, and whoever acts on it while it is *)
(* suspended: the waker of a butex, the blocking pool, sysmon with its     *)
(* forced migration, its rescue and its reaper of idle stacks.             *)
(*                                                                         *)
(* A post is one step (between the CAS of queued and the append nobody     *)
(* else can queue the coroutine), the queues are counts of its entries,    *)
(* the WSQ and the global queue are one queue of the compute pool.         *)
(***************************************************************************)
EXTENDS Naturals, FiniteSets

CONSTANTS IO,         \* the thread of an IO scheduler
          Workers,    \* the threads of the compute pool
          None,
          Programs,   \* what coroutines do: [vm: BOOLEAN, ops: subset of Ops]
          MaxOps,     \* bound: waits, awaits, computeBegins and slices of the coroutine
          MaxSwaps    \* bound: idle stacks taken by the reaper

Ops == {"wait",      \* lm_butex_wait
        "await",     \* lm_co_await_blocking
        "compute",   \* lm_compute_begin, lm_compute_end
        "slice",     \* uses up its reductions
        "hog"}       \* runs for so long that sysmon notices

Threads == Workers \union {IO}

ASSUME CoroutineAssumption ==
    /\ IO \notin Workers /\ None \notin Threads /\ None # "copy"
    /\ {"copy", "code", "waiting", "awaiting", "awaited", "done"} \intersect Threads = {}
    /\ \A p \in Programs : p.vm \in BOOLEAN /\ p.ops \subseteq Ops
    /\ MaxOps \in Nat /\ MaxSwaps \in Nat

VARIABLES program,              \* a member of Programs
          state, swap,          \* co->state, co->swap_state
          stealable, slice,     \* co->stealable, co->slice_yield
          frames,               \* its C stack is "intact" or "gone" to the swap buffer
          data,                 \* thread with its VM stack data, "copy" in mig_copy
          queued,               \* co->queued
          ready, pool,          \* its entries in the threads' queues, in the pool's
          migrate, home,        \* co->migrate_sched, co->home_sched
          at,                   \* where each thread is in its loop
          op,                   \* what the coroutine does when it runs next; a thread
                                \* while it is on its way home to it
          entry, woke,          \* its butex entry: thread it was made on; e->woke
          task,                 \* its task in the blocking pool: pending, done
          waiting,              \* co->waiting_sched while it waits on a butex
          posts,                \* wakeups on their way: by whom, to which thread, of which op
          sysmon,               \* step of the sysmon thread
          ops, swaps            \* count up to MaxOps and MaxSwaps

queues == <<queued, ready, pool>>
stack == <<frames, data, swap, stealable>>
moves == <<migrate, home, slice>>
waits == <<entry, woke, waiting, task, posts>>
vars == <<program, state, stack, queues, moves, at, op, waits, sysmon, ops, swaps>>

Does(what) == what \in program.ops

Init == /\ program \in Programs
        /\ state = "ready" /\ swap = "normal" /\ stealable = TRUE /\ slice = FALSE
        /\ frames = "intact" /\ data = None
        /\ queued = TRUE /\ \E t \in Threads : ready = [u \in Threads |-> IF u = t THEN 1 ELSE 0]
        /\ pool = 0 /\ migrate = None /\ home = None
        /\ at = [t \in Threads |-> "loop"]
        /\ op = "code" /\ entry = None /\ woke = FALSE /\ waiting = None /\ task = "none" /\ posts = {}
        /\ sysmon = "idle" /\ ops = 0 /\ swaps = 0

Goto(t, from, to) == at[t] = from /\ at' = [at EXCEPT ![t] = to]

\* Slip: lm_scheduler_post does not look at queued.
PostUnclaimed(t) == queued' = TRUE /\ ready' = [ready EXCEPT ![t] = @ + 1] /\ UNCHANGED pool

\* lm_scheduler_post: the CAS of queued lets one post through.
Post(t) == \/ queued /\ UNCHANGED queues
           \/ /\ ~queued /\ queued' = TRUE
              /\ ready' = [ready EXCEPT ![t] = @ + 1]
              /\ UNCHANGED pool

-----------------------------------------------------------------------------
(* The loop of a thread: lm_scheduler_drain_ready, compute_worker_run and  *)
(* lm_co_resume, which returns at once when the coroutine is dead.         *)

Resuming == IF state = "dead" THEN "slice" ELSE "look"

Pop(t) ==
    /\ Goto(t, "loop", Resuming)
    /\ \/ ready[t] > 0 /\ ready' = [ready EXCEPT ![t] = @ - 1] /\ UNCHANGED pool
       \/ t \in Workers /\ pool > 0 /\ pool' = pool - 1 /\ UNCHANGED ready
    /\ queued' = FALSE
    /\ UNCHANGED <<program, state, stack, moves, op, waits, sysmon, ops, swaps>>

Look(t) ==
    /\ Goto(t, "look", IF swap \in {"swapped", "out"} THEN "swapin" ELSE "cas")
    /\ UNCHANGED <<program, state, stack, queues, moves, op, waits, sysmon, ops, swaps>>

\* Slip: co_swap_in does not wait for a swap-out under way.
SwapInAtOnce(t) ==
    /\ \/ swap = "normal" /\ Goto(t, "swapin", "cas") /\ UNCHANGED swap
       \/ swap \in {"swapped", "out"} /\ Goto(t, "swapin", "copyin") /\ swap' = "in"
    /\ UNCHANGED <<program, state, frames, data, stealable, queues, moves, op, waits, sysmon, ops, swaps>>

\* co_swap_in waits for a swap-out under way, and claims the buffer.
SwapIn(t) ==
    /\ \/ swap = "normal" /\ Goto(t, "swapin", "cas") /\ UNCHANGED swap
       \/ swap = "swapped" /\ Goto(t, "swapin", "copyin") /\ swap' = "in"
    /\ UNCHANGED <<program, state, frames, data, stealable, queues, moves, op, waits, sysmon, ops, swaps>>

CopyIn(t) ==
    /\ Goto(t, "copyin", "cas")
    /\ frames' = "intact" /\ stealable' = TRUE /\ swap' = "normal"
    /\ UNCHANGED <<program, state, data, queues, moves, op, waits, sysmon, ops, swaps>>

\* The CAS of lm_co_resume decides between a resume and the reaper; a coroutine
\* that is neither at rest nor with the reaper is entered all the same.
\* vm_co_resume_hook brings the VM data of a migrated coroutine to this thread.
Claim(t) ==
    /\ \/ state = "swapping" /\ Goto(t, "cas", "look") /\ UNCHANGED <<state, data>>
       \/ /\ state # "swapping" /\ Goto(t, "cas", "on")
          /\ state' = IF state \in {"ready", "suspended"} THEN "running" ELSE state
          /\ data' = IF data \in {None, "copy"} THEN t ELSE data
    /\ UNCHANGED <<program, frames, swap, stealable, queues, moves, op, waits, sysmon, ops, swaps>>

\* The coroutine has left the thread; only now does its state say so.
Back(t) ==
    /\ Goto(t, "back", "slice")
    /\ state' = IF state = "running" THEN "suspended" ELSE state
    /\ UNCHANGED <<program, stack, queues, moves, op, waits, sysmon, ops, swaps>>

\* "Requeue or migrate, never both."
SliceBack(t) ==
    /\ Goto(t, "slice", "migrate")
    /\ slice' = FALSE
    /\ \/ slice /\ state # "dead" /\ migrate = None /\ Post(t)
       \/ ~(slice /\ state # "dead" /\ migrate = None) /\ UNCHANGED queues
    /\ UNCHANGED <<program, state, stack, migrate, home, op, waits, sysmon, ops, swaps>>

\* lm_scheduler_handle_migrate: to the pool's queue without a look at queued, or
\* directly to the target.
Migrate(t) ==
    /\ Goto(t, "migrate", "loop")
    /\ migrate' = None
    /\ \/ migrate = None /\ UNCHANGED queues
       \/ /\ migrate \in Workers /\ stealable
          /\ queued' = TRUE /\ pool' = pool + 1 /\ UNCHANGED ready
       \/ /\ migrate = IO \/ (migrate \in Workers /\ ~stealable)
          /\ Post(migrate)
    /\ UNCHANGED <<program, state, stack, home, slice, op, waits, sysmon, ops, swaps>>

-----------------------------------------------------------------------------
(* The coroutine, on thread t.                                             *)

\* lm_co_yield with vm_co_yield_hook: the VM data of a coroutine that migrates to
\* "to" is copied, and only a copy makes it stealable.
Yield(t, to) ==
    /\ Goto(t, "on", "back")
    /\ migrate' = to
    /\ \/ /\ program.vm
          /\ stealable' = (to # None)
          /\ data' = IF to # None THEN "copy" ELSE data
       \/ ~program.vm /\ UNCHANGED <<stealable, data>>
    /\ UNCHANGED <<program, state, frames, swap, queues, sysmon, swaps>>

Counted == ops < MaxOps /\ ops' = ops + 1

On(t, what) == at[t] = "on" /\ op = what

\* Slip: the entry names the I/O scheduler, wherever the coroutine is.
WaitStartAtIO(t) ==
    /\ On(t, "code") /\ Does("wait") /\ Counted
    /\ op' = "waiting" /\ entry' = IO /\ woke' = FALSE /\ waiting' = t
    /\ UNCHANGED <<program, state, stack, queues, moves, at, task, posts, sysmon, swaps>>

\* lm_butex_wait joins the bucket, with the scheduler of the thread it is on.
WaitStart(t) ==
    /\ On(t, "code") /\ Does("wait") /\ Counted
    /\ op' = "waiting" /\ entry' = t /\ woke' = FALSE /\ waiting' = t
    /\ UNCHANGED <<program, state, stack, queues, moves, at, task, posts, sysmon, swaps>>

\* Its loop: yield until the waker has set woke.
WaitYield(t) ==
    /\ On(t, "waiting") /\ ~woke
    /\ Yield(t, migrate)
    /\ UNCHANGED <<home, slice, op, waits, ops>>

\* sysmon holds the lock of the registry while it scans for stuck and for idle coroutines.
RegistryFree == sysmon \in {"idle", "saw"}

\* It leaves the butex with that lock.
WaitDone(t) ==
    /\ On(t, "waiting") /\ woke /\ RegistryFree
    /\ op' = "code" /\ waiting' = None
    /\ UNCHANGED <<program, state, stack, queues, moves, at, entry, woke, task, posts, sysmon,
                   ops, swaps>>

\* lm_co_await_blocking: submit, yield once, read the result.
AwaitStart(t) ==
    /\ On(t, "code") /\ Does("await") /\ task = "none" /\ Counted
    /\ op' = "awaiting" /\ task' = "pending" /\ entry' = t
    /\ UNCHANGED <<program, state, stack, queues, moves, at, woke, waiting, posts, sysmon, swaps>>

AwaitYield(t) ==
    /\ On(t, "awaiting")
    /\ op' = "awaited"
    /\ Yield(t, migrate)
    /\ UNCHANGED <<home, slice, waits, ops>>

\* A wakeup on its way, of the operation that ops counts now.
Posting(by, to) == posts \union {[by |-> by, to |-> to, no |-> ops]}

\* A task that is not done yet posts all the same, some time.
AwaitRead(t) ==
    /\ On(t, "awaited")
    /\ op' = "code" /\ task' = "none"
    /\ posts' = IF task = "pending" THEN Posting("pool", entry) ELSE posts
    /\ UNCHANGED <<program, state, stack, queues, moves, at, entry, woke, waiting, sysmon, ops, swaps>>

\* lm_compute_begin marks its home and a worker, and yields.
Begin(t) ==
    /\ On(t, "code") /\ Does("compute") /\ home = None /\ Counted
    /\ home' = t
    /\ \E w \in Workers : Yield(t, w)
    /\ UNCHANGED <<slice, op, waits>>

\* lm_compute_end marks its home and yields ...
End(t) ==
    /\ On(t, "code") /\ home # None
    /\ op' = home /\ home' = None
    /\ Yield(t, home)
    /\ UNCHANGED <<slice, waits, ops>>

\* ... and returns on the thread that has resumed it.
EndReturn(t) ==
    /\ at[t] = "on" /\ op \in Threads
    /\ op' = "code"
    /\ UNCHANGED <<program, state, stack, queues, moves, at, waits, sysmon, ops, swaps>>

\* LM_BUMP_REDS: the reductions are used up.
Slice(t) ==
    /\ On(t, "code") /\ Does("slice") /\ Counted
    /\ slice' = TRUE
    /\ Yield(t, migrate)
    /\ UNCHANGED <<home, op, waits>>

\* co_trampoline: the entry returns.
Finish(t) ==
    /\ On(t, "code") /\ home = None
    /\ state' = "dead" /\ op' = "done"
    /\ Goto(t, "on", "back")
    /\ UNCHANGED <<program, stack, queues, moves, waits, sysmon, ops, swaps>>

-----------------------------------------------------------------------------
(* The others.                                                             *)

\* lm_butex_wake: unlink the entry, set woke, post to the thread it was made on.
Wake ==
    /\ op = "waiting" /\ entry # None
    /\ entry' = None /\ woke' = TRUE
    /\ posts' = Posting("waker", entry)
    /\ UNCHANGED <<program, state, stack, queues, moves, at, op, waiting, task, sysmon, ops, swaps>>

\* Slip: the pool posts the coroutine before the task is done.
TaskPostedEarly ==
    /\ task = "pending" /\ entry # None
    /\ entry' = None
    /\ posts' = Posting("pool", entry)
    /\ UNCHANGED <<program, state, stack, queues, moves, at, op, woke, waiting, task, sysmon, ops, swaps>>

\* A thread of the blocking pool runs the task, and blocking_await_done posts.
TaskDone ==
    /\ task = "pending"
    /\ task' = "done" /\ entry' = None
    /\ posts' = Posting("pool", entry)
    /\ UNCHANGED <<program, state, stack, queues, moves, at, op, woke, waiting, sysmon, ops, swaps>>

\* Slip: the delivery is lost.
LosePost(m) ==
    /\ m \in posts /\ posts' = posts \ {m}
    /\ UNCHANGED <<program, state, stack, queues, moves, at, op, entry, woke, waiting, task, sysmon, ops, swaps>>

DeliverPost(m) ==
    /\ m \in posts /\ posts' = posts \ {m}
    /\ Post(m.to)
    /\ UNCHANGED <<program, state, stack, moves, at, op, entry, woke, waiting, task, sysmon, ops, swaps>>

\* stuck_scan_co reads the state of one that waits on a butex (it takes two scans in a
\* row to post; here one does) ...
StuckLook ==
    /\ sysmon = "idle" /\ op = "waiting" /\ state = "suspended"
    /\ sysmon' = "scan"
    /\ UNCHANGED <<program, state, stack, queues, moves, at, op, waits, ops, swaps>>

\* ... whether it is queued ...
StuckQueued ==
    /\ sysmon = "scan" /\ sysmon' = IF queued THEN "idle" ELSE "scanned"
    /\ UNCHANGED <<program, state, stack, queues, moves, at, op, waits, ops, swaps>>

\* ... and posts it to waiting_sched when its entry has left the butex.
Rescue ==
    /\ sysmon = "scanned" /\ sysmon' = "idle"
    /\ \/ entry = None /\ Post(waiting)
       \/ entry # None /\ UNCHANGED queues
    /\ UNCHANGED <<program, state, stack, moves, at, op, waits, ops, swaps>>

\* sysmon_scan_once reads s->current of an IO scheduler that does not tick ...
SeeHog ==
    /\ sysmon = "idle" /\ Does("hog")
    /\ at[IO] \in {"look", "swapin", "copyin", "cas", "on", "back"}
    /\ sysmon' = "saw"
    /\ UNCHANGED <<program, state, stack, queues, moves, at, op, waits, ops, swaps>>

\* ... and lm_co_try_set_migrate_sched sends it to a worker.
ForceMigrate ==
    /\ sysmon = "saw" /\ sysmon' = "idle"
    /\ \/ migrate = None /\ migrate' \in Workers
       \/ migrate # None /\ UNCHANGED migrate
    /\ UNCHANGED <<program, state, stack, queues, home, slice, at, op, waits, ops, swaps>>

\* co_swap_out: its conditions, read one after the other ...
ReapLook ==
    /\ sysmon = "idle" /\ swaps < MaxSwaps
    /\ state = "suspended" /\ migrate = None /\ stealable /\ swap = "normal" /\ data # "copy"
    /\ sysmon' = "fit"
    /\ UNCHANGED <<program, state, stack, queues, moves, at, op, waits, ops, swaps>>

\* ... the CAS of the state ...
ReapClaim ==
    /\ \/ sysmon = "fit" /\ state = "suspended" /\ state' = "swapping" /\ sysmon' = "claimed"
       \/ sysmon = "fit" /\ state # "suspended" /\ sysmon' = "idle" /\ UNCHANGED state
    /\ UNCHANGED <<program, stack, queues, moves, at, op, waits, ops, swaps>>

\* ... the CAS of the swap state ...
ReapMark ==
    /\ sysmon = "claimed"
    /\ \/ swap = "normal" /\ swap' = "out" /\ sysmon' = "copy" /\ UNCHANGED state
       \/ swap # "normal" /\ state' = "suspended" /\ sysmon' = "idle" /\ UNCHANGED swap
    /\ UNCHANGED <<program, frames, data, stealable, queues, moves, at, op, waits, ops, swaps>>

\* ... the frames go to a buffer, their pages back to the kernel ...
ReapCopy ==
    /\ sysmon = "copy" /\ sysmon' = "restore"
    /\ frames' = "gone" /\ stealable' = FALSE /\ swap' = "swapped"
    /\ UNCHANGED <<program, state, data, queues, moves, at, op, waits, ops, swaps>>

\* ... and the coroutine may be resumed again.
ReapRestore ==
    /\ sysmon = "restore" /\ sysmon' = "idle"
    /\ state' = "suspended" /\ swaps' = swaps + 1
    /\ UNCHANGED <<program, stack, queues, moves, at, op, waits, ops>>

-----------------------------------------------------------------------------
Loop(t) == \/ Pop(t) \/ Look(t) \/ SwapIn(t) \/ CopyIn(t) \/ Claim(t)
           \/ Back(t) \/ SliceBack(t) \/ Migrate(t)

\* What the coroutine does without asking for more work.
Run(t) == WaitYield(t) \/ WaitDone(t) \/ AwaitYield(t) \/ AwaitRead(t)
          \/ End(t) \/ EndReturn(t) \/ Finish(t)

Stuck == StuckQueued \/ Rescue

Reap == ReapLook \/ ReapClaim \/ ReapMark \/ ReapCopy \/ ReapRestore

Next == \/ \E t \in Threads : \/ Loop(t) \/ Run(t)
                              \/ WaitStart(t) \/ AwaitStart(t) \/ Begin(t) \/ Slice(t)
        \/ Wake \/ TaskDone \/ (\E m \in posts : DeliverPost(m))
        \/ StuckLook \/ Stuck \/ SeeHog \/ ForceMigrate \/ Reap

Spec == Init /\ [][Next]_vars

\* Threads run, a coroutine returns from what it computes, the wakers and the blocking
\* pool deliver, and sysmon ends a scan that it has begun.  Somebody wakes a butex only if he likes.
Fairness == /\ \A t \in Threads : WF_vars(Loop(t)) /\ WF_vars(Run(t))
            /\ WF_vars(TaskDone) /\ WF_vars(\E m \in posts : DeliverPost(m))
            /\ WF_vars(Stuck) /\ WF_vars(ReapClaim \/ ReapMark \/ ReapCopy \/ ReapRestore)

FairSpec == Spec /\ Fairness

-----------------------------------------------------------------------------
TypeOK == /\ program \in Programs
          /\ state \in {"ready", "running", "suspended", "swapping", "dead"}
          /\ swap \in {"normal", "out", "swapped", "in"}
          /\ stealable \in BOOLEAN /\ slice \in BOOLEAN /\ queued \in BOOLEAN
          /\ frames \in {"intact", "gone"} /\ data \in Threads \union {None, "copy"}
          /\ ready \in [Threads -> Nat] /\ pool \in Nat
          /\ migrate \in Threads \union {None} /\ home \in Threads \union {None}
          /\ at \in [Threads -> {"loop", "look", "swapin", "copyin", "cas", "on", "back",
                                 "slice", "migrate"}]
          /\ op \in {"code", "waiting", "awaiting", "awaited", "done"} \union Threads
          /\ waiting \in Threads \union {None}
          /\ sysmon \in {"idle", "saw", "scan", "scanned", "fit", "claimed", "copy", "restore"}

Users == {t \in Threads : at[t] = "on"}

\* One thread at a time is on the coroutine's stack, and none is while the reaper
\* has it: "any other state" of lm_co_resume is "unreachable in theory".
OneUser == /\ Cardinality(Users) <= 1
           /\ state = "swapping" => Users = {}

\* "Any interleaving is safe" (lm_co.c:730-733): a thread that runs the coroutine finds
\* its C frames where they were.
FramesHere == Users # {} => frames = "intact"

\* "Only this thread may resume it" (vm_co.c:129-134): the VM stack data of a coroutine
\* that runs is in the stack pool of the thread it runs on.
DataHere == \A t \in Users : program.vm => data = t

\* The swap buffer is in the hands of one at a time, the reaper that fills it or one
\* thread that copies it back; and while the frames are gone it has them, so that
\* whoever looks before he enters the stack brings them back.
BufferOwned ==
    LET copying == {t \in Threads : at[t] = "copyin"} IN
        /\ frames = "gone" => swap \in {"swapped", "in"}
        /\ \A t, u \in copying : t = u
        /\ swap = "in" <=> copying # {}
        /\ swap = "out" <=> sysmon = "copy"

\* co->next is one link: the coroutine has at most one entry in all the queues.
InOneQueue ==
    LET inQueues == {t \in Threads : ready[t] > 0} IN
        /\ Cardinality(inQueues) + pool <= 1
        /\ \A t \in Threads : ready[t] <= 1

\* lm_co_await_blocking reads the result of a task that is done.
ResultReady == \A t \in Users : op = "awaited" => task = "done"

\* A coroutine that has not finished is with a thread, in a queue, about to be posted, or
\* waits for a waker who still has its entry or a task still to be run: a wakeup, a
\* migration or a slice that is over may be late, or come twice, but is never lost.
NotForgotten ==
    \/ op = "done" \/ (\E t \in Threads : at[t] # "loop")
    \/ pool > 0 \/ (\E t \in Threads : ready[t] > 0)
    \/ posts # {} \/ task = "pending"
    \/ op = "waiting" /\ entry # None /\ ~woke

\* A coroutine that has been woken leaves lm_butex_wait, and one whose task is done
\* reads the result.
WokenRuns == /\ (op = "waiting" /\ woke) ~> (op # "waiting")
             /\ (op = "awaited" /\ task = "done") ~> (op # "awaited")
=============================================================================
