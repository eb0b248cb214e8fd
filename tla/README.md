# Verification of the lumyr runtime

lumyr is a programming language: a compiler front end and a bytecode VM (`src/src`), and a
runtime (`src/kit/runtime`) with coroutines, a multi-threaded scheduler, synchronisation,
timers, I/O and a garbage collector. This directory models the parts of the runtime where several
threads act on the same data, the exceptions of the compiled code, and the dictionary: TLA+
modules, the configurations TLC checks them with, and proofs TLAPS checks.

## 1. The system

File names without a directory are under `src/kit/runtime/src`.

| Component | State | Operations | Correct when |
|---|---|---|---|
| Synchronisation, `lm_sync.c` | one 32-bit word for each mutex, semaphore, rwlock, countdown, once | lock, trylock, unlock; wait, trywait, post; rdlock, wrlock and their unlocks; done, wait; call | nobody inside who should wait; no sleeper forgotten |
| Butex, `lm_butex.c` | table of buckets of waiter entries, each with a reference count | wait, wake, wake_all | compare and sleep are atomic to a wake; an entry lives while it is held |
| Work-stealing queue, `lm_wsq.c` | indices `top` and `bottom`, a ring of slots | push, pop, extract_tail_half (owner); steal_batch (thieves) | a task put in is taken out once |
| Scheduler and compute pool, `lm_scheduler.c`, `lm_compute.c` | per scheduler a mutex queue, a WSQ, a LIFO slot, `sleepWord`; one global queue; the registry of schedulers | post, post_local, post_lifo, pop_blocking, drain_ready, steal, stop, shrink, grow, computeBegin and End | a coroutine in one queue, run by one worker; what is posted runs |
| Coroutines, `lm_co.c`, `src/src/ir/vm_co.c` | `state`, `swap_state`, `queued`, `migrate_sched`, `home_sched`, `stealable`; the C stack; the thread-bound stacks of the VM | spawn, resume, yield, migrate, swap out and in, destroy | one thread on a stack, and the stack is what the coroutine left |
| Blocking pool, `lm_blocking_pool.c`, lookups of `lm_socket.c` | a task list, the list of running tasks, counts of threads and idle threads | submit, run, call back, await, leave when idle | a task has a thread to run it; an answer wakes the wait that asked; nothing freed is used |
| sysmon, `lm_sysmon.c` | what it saw in the last round | force migration, rescue a stuck coroutine, reap idle stacks | what it does to a coroutine is safe at any moment |
| Timers, `lm_timer.c` | a pool of versioned slots, buckets, a heap, `nearest`, `nsignals` | add, cancel, the thread's loop, start, stop | each timer fires or is cancelled, once, in time |
| Condition variable, `lm_cond.c` | one word | wait, signal, broadcast | as Butex |
| Reactor and sockets, `lm_reactor.c`, `lm_socket.c` | the kernel's poller, a wake pipe, the pool of connections with their generations, the wait contexts of timers | wait for a descriptor, event, timeout, close, run, stop, wake up | a wait that has ended wakes its coroutine; contexts are freed once; the reactor does not sleep on work |
| Collector, `gc_runtime.c` | heap, marks and ages, the remembered set, registered threads, `g_gc_stw`, `g_gc_marking` | allocate, write barrier, stop the world, mark in steps, sweep minor and major | what is reachable is kept, what is garbage goes |
| Exceptions, `src/src/ir/vm_except.c`, `src/src/ir/ir_compile.c` | stacks of try handlers and finally returns, the pending return, the error | throw, catch, finally, return, break, continue, defer | the program does what its source says |
| Dictionary, `lm_map.c` | buckets of chains or red-black trees, `cap`, `len` | set, get, del, keys, iterate, copy, clear | it is a dictionary |
| Threads, `lm_thread.c` | table of slots under `g_lock` | start, set result, join | a join gets its thread's result |
| Other libraries, front end, the rest of the VM | values, containers, syntax trees, bytecode | sequential | (unit tests serve them better) |

How they interact. A thread of the I/O kind runs the reactor and calls `lm_scheduler_drain_ready`
after each round; a thread of the compute pool loops in `compute_worker_run` around
`lm_scheduler_pop_blocking`. Both call `lm_co_resume`; the coroutine comes back by
`lm_co_yield`. Before it yields it has left word somewhere who shall post it again: an entry in the
butex table, a task in the blocking pool, `migrate_sched` (computeBegin, computeEnd),
`slice_yield` (its reductions are used up), or a timer. Whoever wakes it calls
`lm_scheduler_post` on the scheduler it was on. A worker without work sleeps on its own
`sleepWord` by `lm_butex_wait`, as does everything in `lm_sync.c`. sysmon looks at all of them
from outside and takes no lock they hold.

What is hard. The waker is often quicker than the waiter's yield; the flags of a coroutine
(`queued`, `state`, `swap_state`, `migrate_sched`) are separate atomics, read and written in
sequence by several threads; sleeping is decided from several sources no one lock covers;
the WSQ works without locks; slots, entries, connections and descriptor numbers are reused while
someone still knows their former life; the collector marks while the program moves references;
an error leaves frames that have handlers, finallys and defers of their own. `PROJECT.json` lists these hazards
at their lines, with the properties that watch each and the reason where none does yet.

## 2. Modules

An action is one atomic access, or one critical section of the code. Memory is sequentially
consistent: the code's fences and acquire/release pairs give that on multi-copy atomic
machines (x86, ARMv8) at the places modelled; weaker reorderings are outside the models.

**Futex, LmMutex, LmSem, LmRwlock, LmCountdown, LmOnce, SyncFamily, MutexSpec** (`lm_sync.c`).
`Futex` has the state of a primitive: its `word`, the agents asleep on it, for each agent the
operation it performs next (`pc`) and the value it has read (`seen`). The five modules give the
operations of the code, one action for each access to the word. `SyncFamily` puts them side by
side; a behaviour is that of one of them (`kind`). `MutexSpec` is what a mutex promises.

**Butex** (`lm_butex.c`). The words of one bucket, the entries in it, `refcnt` and
`woke`/`notified` of each, threads that park, coroutines that yield, wakers with the entries
they have picked. A critical section is one step. The callers of this repository wake one waiter or
all of them; the order of the chain is left out, so whom a waker of one picks is open.
`ImplementsFutex` relates it to `Futex`: the atomic wait and wake on which the models
of `lm_sync.c` rest are what this code does. The interrupted sleep of a thread and the resume
of a coroutine by somebody else are `Spurious`.

**WSQ** (`lm_wsq.c`, with `wsq_push_or_overflow` and `overflow_take_to_wsq` of `lm_scheduler.c`). `top`, `bottom` and the
slots; the owner's and the thieves' programs, one access to an index a step. A thief reads `top`, `bottom` and up to `MaxBatch` slots one by
one, then compares and swaps `top`, and tries again `Tries` times, as the code does. `pc` names the owner's next access: `pop` has claimed a slot by
moving `bottom` at `popread`, fights for the last task at `popcas`, and puts `bottom` right at
`popreset` or `popempty`. Sizes that go below zero count as the code's casts to `size_t` make them count: the queue is
full for a push, and has room for a batch from the global queue. `handed` is history: how often each task has been given away, and on which way (the first of a
batch, the rest of it, the owner's CAS, a pop without one, moved to the global queue, dropped).

**Scheduler** (`lm_scheduler.c`, `lm_compute.c`). Workers in `pop_blocking` (`pc` follows its numbered
comment: own queues, global queue, steal, lock, check, load, wait), posters, the global queue,
thieves under `g_scheds_mutex` with `g_nspinning`, growth, stop and shrink. The mutex queues are `head`, `tail` and the `next` of
the coroutines, so that a coroutine in two of them splices them as it would in the code. A WSQ is `top`, `bottom` and slots. A steal reads the
indices (`Scan`), copies slot after slot (`Copy`) and commits or fails at its CAS (`Commit`, `CommitFails`); between these steps the victim pushes and
pops. Push and pop are one step each here; WSQ has them by their accesses, and the full queue. The value of
`sleepWord` is abstracted to `stale`: has it been bumped since the worker loaded it. `bound`: a coroutine that has run
on a worker is woken on it.

**Coroutine** (`lm_co.c`, `vm_co.c`, with the waits of `lm_butex.c`, the await of
`lm_blocking_pool.c`, `lm_compute_begin`/`_end` and `lm_sysmon.c`). One coroutine and all who act
on it: threads in the loop pop, look at `swap_state`, swap in, claim by CAS, run, come back,
requeue a slice, migrate. sysmon rescues a stuck coroutine after the reads of `stuck_scan_co`, one by one; the reaper claims a stack, copies and gives it back without
asking who stands between his look and his CAS. `data` says where the VM stack data are; `frames` whether the C stack is
there. What the coroutine does is a `Program`, the set of operations it uses.

**Timer, TimerSpec** (`lm_timer.c`). Slots with `version` (sequence, state), the free list, buckets,
the heap, the thread's loop with its sample of `nsignals`, adds in their five steps, cancel, a
callback that adds and cancels, stop. Lists are sets: in which order a list has its tasks decides nothing,
since the heap hands out an earliest one and a bucket goes to it as a whole. The thread parks without asking where the adds are. `heard` is history: the ids whose
`fetch_add` came before the thread went to sleep, or whose add wakes it. `TimerSpec` is the promise of `lm_timer.h`: armed, then fired
or cancelled, not before the deadline.

**Reactor** (`lm_reactor.c`, `lm_socket.c`, `drain_ready`). The IO thread: one action for a round's
parts (poll, handle a batch, drain up to the budget) and one for what a coroutine does between two yields,
since both run on that thread; the timer thread's callback, the threads that wake or stop, and the kernel
(data, a descriptor's number closed and given out again) interleave by access. `word` is a connection's
`rg`/`wg`: nil, waiting, or an event kept. A generation is only compared with snapshots, so a snapshot is
`fresh` or stale for good. `FdWaitCtx` is freed by the waiter or by the callback.

**BlockingPool** (`lm_blocking_pool.c`, the lookup of `lm_socket.c`). `queue`, `g_running`, the counts `n` and
`idle` with their accesses outside the mutex, `sleepWord`; a worker's place `at` follows `pool_worker` from
the wait through pop, run and callback to the exit; an await has a context its coroutine frees, a lookup one
with three references and a state answer and timeout compete for.

**Heap** (`gc_runtime.c`). Objects with one reference, their marks and ages, threads with roots that pass
safepoints or stay in native blocks, a collection from stop over count, scan, marking in steps, second stop and
scan to the sweep. It is the contract of the collector's interface: any registered thread may start a
collection at any operation.

**Unwind** (`ir_compile.c`, `vm_except.c`, the end of `vm_exec_loop`). A compiler for small programs with the
instructions the code emits, a machine with the VM's stacks, one action an instruction, and the meaning of
a program as a recursive function over its source, to which the outcome is compared.

**Map** (`lm_map.c`). One `ValueMap`: buckets as chains or as trees of entries with colours and parents; set,
del, copy and clear are actions, the conversions, rotations and fixups operators. A key is its hash and its rank
under `key_compare`. `dict` is what the user means.

**MC...** modules give the constants values. **SyncProofs**, **ButexProofs**, **WSQProofs**, **SchedulerProofs**,
**CoroutineProofs**, **ServiceProofs** (of the blocking pool and the timer thread), **ReactorProofs** and **HeapProofs** hold the proofs.

## 3. What the checks show

Passing runs (`PROJECT.json` names the properties of each, and for each property a slip of the
code, kept in the module as an operator marked "Slip", under which TLC finds it violated):

| Run | Instance | Shows |
|---|---|---|
| `sync` | 3 agents, 1 permit and 1 more, 2 workers | exclusion, no stranded sleeper, waiters get on, mutex refinement |
| `butex` | 1 thread, 1 coroutine, 2 wakers (one wakes 1, one all), 2 words, 2 waits each, 1 change a word; 98,592 states | reference counts are exact, an entry in the bucket is untold, whom a waker unlinked returns, the code implements `Futex` |
| `wsq` | 5 tasks, 4 slots, 2 thieves, batches of 2, 2 tries; 1,128,967 states | what goes through `top` goes once, the owner gives nothing twice, the first of a batch has not been popped, what is lost was taken for a popped task |
| `scheduler` | 1 worker that may become 2, 1 poster, 2 coroutines, steals of one, 2 calls, 1 slice, any stop and shrink; 548,749 states | no worker sleeps on a post or on its stop; what is posted to a worker that does not leave is taken, a stopped worker leaves |
| `coroutine` | an I/O thread, 2 workers, 3 operations, 2 swap-outs; 33,354 states | one user of the stack, the swap buffer in one hand, one queue entry, results are there, nobody is forgotten, woken coroutines run |
| `timer` | 1 client and callbacks, 2 slots, 2 buckets, 2 adds, time to 2 | a task in one place, the thread does not sleep past a timer it could hear of, such timers fire, refinement of `TimerSpec`, stop ends the thread |
| `reactor` | 2 coroutines, 1 descriptor number, 2 connections, budget 1, 2 waits, 1 call from outside; 406,229 states | an ended wait wakes, registrations stand while somebody waits and are gone when nobody does, contexts freed once, no sleep on work |
| `pool` | 2 coroutines, 2 workers of at most 2 and at least 1, 2 tasks; 610,850 states | tasks are in the books until answered, an answer wakes its own wait, nothing freed is used, no task is left by a pool that still has a thread |
| `unwind` | 10,608 programs, 2 rounds of each loop; 159,486 states | the compiled program leaves the marks the source means; no handler outlives its frame |
| `heap` | 2 threads, 2 objects, promotion at age 2, 3 collections; 627,503 states up to symmetry | nothing reachable is freed, garbage goes in a major collection |
| `map` | 7 keys, 2 values, capacity 4, 8, 16, trees from 4 to below 3 entries; 42,065 states | the map is the dictionary its user means; trees are red-black |

Why the bounds are enough. A stranded sleeper needs a holder, a sleeper and a third agent that
takes the mark away: three agents. Two words in a bucket let a wake pass over another word's entry,
two waits let an agent come back while its former entry is still held. Five tasks through
four slots meet a full queue, the handing over of half of it, and wrapped indices; a batch of two is the smallest from which a
pop can take a task the CAS does not see, and two thieves fight each other and the owner. Two coroutines and two workers let each be stolen, posted and run again.
Two slots and two adds let a slot be recycled while its old id is known.
One descriptor number with two connections is the case that hurts: the number is closed and another
connection gets it. Two waits let a timer of the first meet the second, and a budget of 1 makes every second
coroutine one the budget leaves over. Two tasks and two workers let one worker go home while the other is
waited for. Two objects are a marked and an unmarked one, three collections let marks and ages of two survive
into a third. Programs nest a try in a try, a loop in a try and a try in a loop, and call a function that
returns or throws out of up to two tries. Six entries of one bucket meet every case of insertion, and of removal with a red
and a black sibling; the thresholds of the code (16, 64, 8, 6) are only larger.

Violated claims. One run expects a violation, `map_integers`, `HasWhatWasSet`: the keys are multiples of 64, whose hashes end in
zeros and have an order of their own. `tree_insert` and `treeify_bin` descend by hash and attach by
`key_compare`, so that entries are lost; `map_del_impl` descends by `key_compare` alone, so that keys with a
tree's hash order are not deleted. With the code's thresholds the 26th such key is the first to do harm.

More configurations, not among the runs, each give a shortest behaviour that contradicts a claim of the code. The first name is that of a `.cfg` file; where another property or
another constant follows, it takes the place of the file's.

| Configuration, property | Claim | What happens |
|---|---|---|
| `MCWSQBatch`, `NoDuplicate` | `lm_wsq.h:12`: the queue loses and repeats nothing | a thief's batch contains a task the owner has popped without CAS; the CAS on `top` succeeds |
| the same, `TakenFits` | `lm_scheduler.c:208`: room is reserved, the push must succeed | after such a batch `top` is ahead of `bottom`; the room is too large, the push fails unseen, the task is gone |
| `MCSchedulerTwice`, `OneRunner` | `lm_scheduler.c:339`: two threads on one stack must not be | the same batch in the pool: two workers run one coroutine |
| `MCSchedulerGlobal`, `NoStrandedGlobal` | `lm_scheduler.c:615`: the recheck covers every source | `sleepWord` is bumped between recheck and load: asleep with global work |
| `MCSchedulerExit`, `ExitDrained` | `lm_scheduler.c:678`: a worker leaves after draining its queues | a post lands between the last look and the exit |
| `MCCoroutineStale`, `OneUser` | `lm_co.c:398`: other states are unreachable | an entry made before the yield outlives the wait; two threads on one stack |
| the same with `Programs <- HogAndSlice`, `InOneQueue` | `lm_scheduler.c:585`: requeue and migration exclude each other | sysmon sets the migration between the two looks |
| the same with `Programs <- HogAndSlice`, `DataHere` | `vm_co.c:132`: data not copied stay with their thread, which alone resumes | sysmon sets the migration after the hook has not copied |
| `MCCoroutineSwap`, `FramesHere` | `lm_co.c:730`: any interleaving of swap-out is safe | a resume has decided on an old `swap_state` |
| `MCTimer`, `SleepsInTime` | `lm_timer.c:283`: no window for a lost wakeup | comparison before publication, count after the park: a timer is late |
| `MCReactor` with `Fds <- LowAndHigh`, `NoDanglingAtAll` | `lm_reactor.c:315`: no registration is left dangling | a number above the table's size has no owner and keeps its registration |
| `MCReactor`, `OwnTimeout` | `lm_socket.c:211`: the generation tells an old timer | it is looked at before the swap: an old timer ends a new wait |
| `MCBlockingPoolMin`, `OneStays` | `lm_blocking_pool.h:10`: one thread is always resident | two threads both read a count of 2 and go home on a task that has counted on one |
| `MCBlockingPool`, `LookupKeepsScheduler` | `lm_socket.c:435`: the scheduler outlives the post | the answer's wakeup looks for the reactor after its post, when the coroutine has let go |
| `MCUnwindSkip`, `FinallyRuns` | `basic_syntax_test2.lm:199`: finally is always run | a try with only a finally is dropped on the way to a catch further out |
| the same, `NoDeadHandler` | `vm_except.c:119`: no handler outlives its frame | it does on a return delayed by an inner finally |
| `MCHeap`, `NothingReachableFreed` | `gc_runtime.c:269`: a thread waits for the world to go on | it leaves its native block between the count and the scan |

What the passing runs and their properties therefore leave out, by name. No guard of the models is there for it; each is a choice of programs, of callers or of what a
property speaks of.

- `wsq` has the code's batches, and so the duplicates of `MCWSQBatch`. Its properties are what remains true with them:
  `LostForAnother` does not say that nothing is lost.
- Two coroutines in `scheduler`, of which a steal never takes more than one. `NobodyStranded` is proved for any batch; `PostedRuns` is not claimed for batches,
  since a coroutine that is handed out twice (`MCSchedulerTwice`) may stand in two lists by its one `next` and take others out of them.
- `PostedRuns` does not speak of what is posted to a worker that leaves; of that see `MCSchedulerExit`. Callers stop and shrink whom they like. It says
  that again and again all has been taken: calls are bounded, so that this comes to saying that each post is taken in the end.
  Work in the global queue is in neither property: see `MCSchedulerGlobal`.
- `SafePrograms`, in `coroutine`: no program both waits on a butex and computes or awaits, and none both has slices and runs so long that sysmon
  migrates it. In such programs `OneUser`, `InOneQueue` and `ResultReady` fail (`MCCoroutineStale`). `NotForgotten` and `BufferOwned` are proved for every program.
  `FramesHere` and `DataHere` are claimed of no program: `MCCoroutineSwap` violates the first with a coroutine that only uses up its slices.
- `heard`, in `timer`: a timer that was counted after the thread had parked, by an add that had compared before, is late; `SleepsToHeard` and `HeardTimersFire`
  are about all the others.
- `NoDanglingRegistration`, in `reactor`: about numbers with a place in the table of owners. The run has no others; the theorem allows them to be in use, and `MCReactor` with
  `Fds <- LowAndHigh` and without fairness checks it with one in 5.7 million states. Of the others see `NoDanglingAtAll`.
  That an old timer ends a new wait is allowed by `EndedWaitWakes`, which asks that whoever ends a wait wakes it; see `OwnTimeout`.
- `TakenIfAnyStays`, in `pool`: a task may be left behind by a pool all of whose threads have gone home, as in `MCBlockingPoolMin`.
  `NothingFreedUsed` speaks of the scheduler of awaits and the contexts of lookups; for the scheduler of lookups see `LookupKeepsScheduler`.
- `SafeProgram`, in `unwind`: an error, a return or a break leaves no combination of tries that the code is known to
  treat otherwise than the source means; `MCUnwindSkip` runs over all programs.
- `~slipped`, in the properties of `heap`: nobody began to run between the count and the scan. `NothingReachableFreed` is
  `KeepsReachable` without it.
- The keys of `map`: where two hashes differ, they order the keys as `key_compare` does. Strings that collide under
  djb2, which are easy to come by, fulfil it.

Fairness. Threads run: every thread of the runtime is an OS thread and the kernel schedules it, so
a step that stays possible is taken (weak fairness on each thread's steps). `spin_wait` gives up after
`g_spin` reads, hence strong fairness on the steps of the mutex that `Spin` can postpone. A coroutine
gives its worker back, because its reductions run out. In `reactor` the loop, the wake pipe's writer, callbacks and the way back from a wait are
fair; a coroutine's slice ends, strongly, because its reductions are counted. In `pool` the threads run, blocking
calls end, and idle threads come to their timeout. Nobody is made to call
anything: no fairness on lock, wait, post, wake, add or change, except the workers of a countdown, who
count down. A semaphore's or lock's holder lets go.

`CHECK_DEADLOCK FALSE` stands in the runs whose programs end: bounded calls, a stopped thread, a dead
coroutine. `sync`, `wsq`, `heap` and `map` are checked for deadlock.

## 4. What is proved

`SyncProofs` proves the safety of `SyncFamily` for every finite set of agents, every number of permits
and workers: `TypeCorrect`, `Exclusion`, `NoLostWakeup` and `Refinement`, from `Invariance`.

Assumption: `SyncAssumption` in `SyncFamily` (agents are finitely many and fewer than the writer
bit of the rwlock, the semaphore's initial count is within its bound, workers are agents).

Argument. Each property alone is not inductive. The invariant `Inv` has a part for each primitive, which
adds to type and property:

- *all*: only agents inside `lm_butex_wait` are sleepers (`SleepersAsleep`);
- *mutex*: the word is 0 exactly while nobody holds it; a sleeper implies that the word is 2 with a
  holder, or somebody awake in the slow loop, or a wake under way;
- *semaphore*: who is about to take has read a positive count; the count is no larger than the number of
  agents that come for a permit, as long as somebody sleeps;
- *rwlock*: the word is the number of readers inside, plus the writer bit exactly while one writes;
  who sleeps has a holder or a wake before him;
- *countdown*: the word is the number of workers that have not counted; who has passed saw it 0;
- *once*: the word says whether somebody runs the initialiser or has run it, and it is one agent.

Each primitive has a lemma for its initial state and one for its step, with a case for every action; the
cardinality lemmas say how the size of a set of agents changes when one moves. `Refinement` maps holders to
`MutexSpec` and shows for every step that it is acquire, release or stutter.

`ButexProofs` proves, for any threads, coroutines, wakers and words of a bucket: `NobodyToldInBucket`, `RefsCounted`
and `FutexRefinement`, from `ButexInvariance`. Assumption: `ButexAssumption` (waiters and wakers are different agents, there is
a word). `ButexInv` adds to the type: a waiter inside has the entry of its present wait (`WaiterInv`); what is in the bucket is
of a waiter who waits, untold, and picked by nobody (`BucketInv`); a waker's picked entries are no other waker's,
and it has told exactly the one it is at (`WakerInv`); a count is one for a waiter inside plus one for a waker
(`RefsInv`). The property alone is not inductive: that a release frees nothing that is used follows only from who holds
what. `FutexRefinement` maps the sleepers to the entries in the bucket and those whose waker has them in hand, and shows
every step of a waiter or waker to be a step or a stutter of `Futex`. `UnlinkedNotForgotten` is the safety part of `UnlinkedReturns`: a
waiter whose entry has left the bucket is in the hands of a waker that has yet to tell it, or has been told and is awake, posted, or
at the waker that is about to notify it. With `SyncProofs` this joins `lm_sync.c` to the
code below it: what the primitives are proved on is what the table is proved to do.

`HeapProofs` proves `NothingLost` and `NothingHoarded` for any threads, objects, age and number of collections.
Assumption: `HeapAssumption` (`Nil` is no object, ages are positive). `SafeInv` says, besides types: while marking, a black object refers to
marked ones only (`Tricolor`, which the write barrier is for); from the count to the sweep nobody runs (`Stopped`);
at the sweep roots are marked; marks exist only in a collection that marks. For garbage the induction needs a set: while a
collection lasts, some set contains every root and everything marked, is closed under references, and has none of the
garbage in it (`GarbageInvariance`); objects allocated meanwhile join it.

`SchedulerProofs` proves `NobodyStranded`, that is `NoStrandedPost`, for any workers, coroutines, posters, batch and sizes, whoever is stopped or shrunk, from `SchedulerAssumption` (`None` is no coroutine and no worker, a batch is positive). Since a steal may hand a coroutine out twice, nothing is
assumed about where a coroutine is, nor that a list is whole: `SleepInv` is about `head`, `sleeping`, the word and the wakers alone. It follows a worker from its lock
to its sleep: it is announced all the way, it has no reason to be up when it loads the word, and a reason that comes
later has bumped the word, or has a poster who is about to, before `lm_butex_wait` looks. `PoolInvariance` is the types, what a thief knows of its batch
(`LootInv`) and a call of its worker (`CallInv`), which the steps need.

`ServiceProofs` proves `NeverOffTheBooks`, `WokenOnce` and `NothingFreed` of BlockingPool for any coroutines, tasks, workers and
bounds, from `PoolAssumption`. `PoolInv`: a task is in the queue once, or with one thread, or over (`TaskInv`); a wait is claimed by its
state before anybody posts its coroutine, and who posts knows the present wait (`WaitInv`, `AwaitInv`); the references of a lookup are one
for its answer, one for its coroutine and one for its timer, as far as these are under way (`LookupInv`); `g_running` counts the
tasks that threads have in hand (`BookInv`). That an answer wakes its own wait is not inductive: it holds because nobody posts who has not
won the wait's state, and the coroutine cannot begin another wait before it has been posted.

`ServiceProofs` also proves `TaskInOnePlace`, `HeardInTime` and `TimerRefines` of Timer for any slots, clients, buckets, times and
numbers of adds, from `TimerAssumption`. `LifeInv` says what an id, the life it names and
the call that made it know of each other: an id in hand, returned, fired or cancelled is of a life that has begun, and of
the present life only if the task's state agrees. `PlaceInv` ties the state of a task to the place it is in, one list or one caller's
hands. Both are needed for the refinement: that no id fires twice, or fires once cancelled, holds because a slot's `seq`
moves on exactly when its task leaves the last place. `HeardInTime` is `SleepsToHeard`. It has no condition on when adds run: an add that
is slept past is one that counted itself after the park without a wake, and its id is not `heard`. `SleepInv` follows an add past the thread: while
`nsignals` stands at the thread's sample, a bucket already emptied holds only tasks whose add has yet to signal (`Signalled`), and `nearest` is the
earliest deadline in the heap, whose minimum exists by well-foundedness of the naturals, or an add has lowered it and is about to
signal (`Nearest`); so a parked thread's timeout is early enough, or somebody is about to wake it (`Parked`). `NoSleepThroughStop`, the safety part of `StopEnds`: if the thread
sleeps when told to stop, `lm_timer_thread_stop` has yet to wake it.

`WSQProofs` proves `TopTakesOnce`, `OwnerGivesOnce` and `FirstIsFree` of WSQ for any tasks, thieves, capacity, batch, tries and number of
steals, from `WSQAssumption` and nothing else: batches over popped tasks, an extraction from an old `top` and a `top` ahead of `bottom` are all in. `QInv`
says that the indices from `top` to `End` are no more than a round (`OtherSlot`: then their slots differ) and hold tasks written for them that the
owner has not given away (`LiveInv`); that what went through `top` lies below it (`TopInv`); and that a thief whose CAS would succeed now has read the tasks
of its indices, the owner's or not, but that the first of them is not the owner's (`ReachInv`): to pop the task at `top` the owner must move `top`.
It follows that with single steals nothing is handed out twice, and that of a batch the rest may be; `MCWSQBatch` has that behaviour.

`CoroutineProofs` proves `NotForgotten` and `BufferOwned` of Coroutine for any threads, numbers of operations and swap-outs, and any programs, from
`CoroutineAssumption` alone: also for the programs whose coroutine gets into two queues or under two threads. `CoInv`: marks have what they stand for (`Marks`: `queued` an
entry, `waiting_sched` a wait); and the coroutine leaves its thread only after it has left word, or is on its way to a thread (`Linked`, `Brought`).
`NobodyForgotten` is the safety part of `WokenRuns`. `BufferHasOneOwner` follows the buffer from the reaper to a resume: no two copy in at once, and nobody copies in what is not there yet.

`ReactorProofs` proves `EndedWaitWakes`, `FreedOnce`, `NoDanglingRegistration` and the action property `RegistrationKept` of Reactor
for any coroutines, descriptors, budget, waits and calls, and that the loop does not poll without limit on work (`NoSleepOnWork`, the
safety part of `NeverSleepsOnWork`). Assumption: `Room`, one connection for each coroutine, since `lm_reactor_get_connection`
(`lm_reactor.c:284`) hands out one in use when none is free. Numbers may be any, at or above the table's size too; `NothingDangles` is about those
in the table, whatever is done with the others, whose registrations may stay (`NoDanglingAtAll`). `WaitInv`: a free connection is nobody's (`ConnInv`); a word that says somebody waits is of the wait he is in (`WordInv`); the table
of owners names whoever registered (`OwnerInv`); a context is freed by the last of waiter and callback (`TimerInv`); a byte is in the pipe, or
owed, when the loop goes to sleep on work (`PollInv`).

Only model-checked: every liveness property (`WaitersGetOn`, `UnlinkedReturns`, `PostedRuns`, `WokenRuns`,
`HeardTimersFire`, `StopEnds`, `NeverSleepsOnWork`, `TakenIfAnyStays`), since the provers do not treat fairness and ENABLED. For all but `HeardTimersFire` and
`TakenIfAnyStays` a theorem states a safety part, that what must happen is in somebody's hands; of `TakenIfAnyStays` there is none, because a
task may be slept on until the sleeper's ten seconds are over. `LostForAnother` of WSQ, whose induction needs the history of slots that were written twice. `OneUser`, `InOneQueue` and `ResultReady` of Coroutine:
they hold of some programs only, and a theorem under such a condition would say little of the code. Also Map (`RedBlack`, `ActsAsDictionary`) and Unwind (`RunsAsWritten`,
`HandlersAlive`), whose operators are recursive and whose properties need induction over trees and programs. Nothing can be
proved of what the code does not keep, the properties of the configurations in section 3 that are violated.
Type invariants of these modules are stated in them and not among the runs.

## 5. What is left out

- `lm_timer_thread_start` after a stop; `nearest_snapshot`, which only bounds the poll of the reactor.
- `lm_futex_wait` ended by a signal, in Timer; failing allocations everywhere.
- Reference counts of schedulers and reactors, destruction of schedulers and coroutines.
- `post_lifo` and its quota in `drain_ready` (the budget is in Reactor); several coroutines on one thread's VM stacks.
- In Heap: the fallback collection that stops the world throughout, the poll limit after which the collector goes on with
  threads running, free lists, the markers of each kind of value, `g_lock` of the thread table. In builds of the VM nothing registers its
  roots and frames, and automatic collection does not start; Heap is about the interface's contract.
- In Unwind: generators, errors of the runtime inside native calls, more than one clause of a try.
- In Map: how hashes and comparisons are computed, keys `key_eq` does not know (null, arrays), the write flag, which makes a
  second writer an error and does not stop readers.
- The condition variable and the thread table.
- The other sequential parts: values, containers, parsers, most of code generation and of the VM's instructions. They are
  functions over large data, with nothing to interleave. Vendored code, tools and programs in lm.

## 6. Plan

The order follows the weight of what can go wrong: what every wait stands on, then what runs coroutines,
then what surrounds them.

1. Done: Futex, the primitives and their proofs; Butex and its proofs, the refinement of Futex among them; WSQ; Scheduler;
   Coroutine; Timer; Reactor; BlockingPool; Unwind; Heap; Map; the proofs of WSQ, Scheduler, Coroutine, Reactor, BlockingPool, Timer and Heap, for what holds of the code as it is.
2. Next modules:
   - `VMStacks`: several coroutines that share the VM stacks of a thread (`vm_co.c`, `stack_manager.c`);
   - `ThreadTable`: slots under `g_lock` against growth, the root scan and safepoints (`lm_thread.c`);
   - `Cond` (`lm_cond.c`) on Futex, with the loop its users write around it;
   - `Lifetime`: reference counts of schedulers in migrations, sysmon's snapshot, destroy;
   - the LIFO slot and its quota in Scheduler.
3. Abstract specifications: a scheduler as a bag of ready coroutines, in which batches may put one coroutine twice, that Scheduler and WSQ together
   implement; a coroutine as a sequential process that Coroutine implements.
4. Theorems: `LostForAnother`; the lemmas of Map's rotations that need no induction over the tree.
