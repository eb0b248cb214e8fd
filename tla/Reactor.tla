------------------------------ MODULE Reactor ------------------------------
(***************************************************************************)
(* The IO thread of a service: the loop of lm_reactor.c, the coroutines    *)
(* that its scheduler's drain_ready resumes, and their waits for           *)
(* descriptors (lm_socket.c), which an event, a timeout and a close        *)
(* compete to end.                                                         *)
(*                                                                         *)
(* Coroutines and event handlers run on the one IO thread, so what they do *)
(* between two yields is one step; the timer thread and the threads that   *)
(* wake coroutines or stop the loop interleave with them access by access. *)
(* A wait is for one direction: rg and wg are one word here.               *)
(***************************************************************************)
EXTENDS Naturals, Sequences, FiniteSets, SequencesExt

CONSTANTS Coroutines, None,
          Fds,          \* descriptor numbers
          Capacity,     \* conn_capacity; a connection is an index below it
          Budget,       \* LM_SCHED_DRAIN_BUDGET
          MaxWaits,     \* bound: waits registered in a behaviour
          MaxCalls      \* bound: wakes and stops by other threads

ASSUME ReactorAssumption ==
    /\ None \notin Coroutines \union Nat /\ Fds \subseteq Nat
    /\ {"nil", "ready", "timeout", "closed"} \intersect (Coroutines \union {None}) = {}
    /\ Capacity \in Nat /\ Budget \in Nat \ {0} /\ MaxWaits \in Nat /\ MaxCalls \in Nat

Conns == 0 .. Capacity - 1
Waits == 1 .. MaxWaits

VARIABLES loop, budget,      \* lm_reactor_run; what drain_ready may still resume
          batch,             \* connections whose events epoll_wait has returned
          ready,             \* the scheduler's mutex queue; its members are queued
          pc, cur,           \* a coroutine's place; the one the IO thread runs
          target,            \* the descriptor a coroutine found not ready
          wait, conn,        \* the wait it is in, one of Waits, and its connection
          pipe,              \* a byte is in the wake pipe
          stop,              \* stop_flag
          other, calls,      \* what another thread has done and still has to do
          free,              \* free_conns, a stack
          word, fresh, who, fd,   \* of a connection; fresh: see Staled
          fdMap,             \* registered owner of a descriptor
          open, data, reg, edge,   \* the kernel's view of a descriptor
          timer,             \* a wait's FdWaitCtx and its timer
          waits              \* counts up to MaxWaits

main == <<loop, budget, batch>>
cos == <<pc, cur, target, wait, conn>>
outside == <<stop, other, calls>>
conns == <<free, word, fresh, who, fd, fdMap>>
kernel == <<open, data, reg, edge>>
timing == <<timer, waits>>
vars == <<main, ready, cos, pipe, outside, conns, kernel, timing>>

NoCtx == [st |-> "none", conn |-> None, co |-> None, fresh |-> FALSE, frees |-> 0]
Freed(t) == [st |-> "over", conn |-> None, co |-> None, fresh |-> FALSE, frees |-> t.frees + 1]

\* fd_generation is only compared for equality with the snapshots taken when a wait
\* began, wait_gen and FdWaitCtx.gen: a snapshot is fresh or it is stale for good.
\* What every bump of connection k's generation does to the timers' snapshots:
Staled(k) == [w \in Waits |-> IF timer[w].conn = k THEN [timer[w] EXCEPT !.fresh = FALSE] ELSE timer[w]]

Init == /\ loop = "top" /\ budget = 0 /\ batch = {}
        /\ ready = SetToSeq(Coroutines)      \* all have been spawned
        /\ pc = [c \in Coroutines |-> "runs"] /\ cur = None
        /\ target = [c \in Coroutines |-> None] /\ wait = [c \in Coroutines |-> None]
        /\ conn = [c \in Coroutines |-> None]
        /\ pipe = FALSE /\ stop = FALSE /\ other = "idle" /\ calls = 0
        /\ free = [i \in 1 .. Capacity |-> i - 1]
        /\ word = [k \in Conns |-> "nil"] /\ fresh = [k \in Conns |-> FALSE]
        /\ who = [k \in Conns |-> None]
        /\ fd = [k \in Conns |-> None]
        /\ fdMap = [f \in Fds |-> None]
        /\ open = [f \in Fds |-> TRUE] /\ data = [f \in Fds |-> FALSE]
        /\ reg = [f \in Fds |-> None] /\ edge = [f \in Fds |-> FALSE]
        /\ timer = [w \in Waits |-> NoCtx] /\ waits = 0

\* lm_scheduler_post, to which post_local sends a coroutine that waits for a
\* descriptor and is pinned: the CAS on queued keeps it in the queue once.
Posted(q, c) == IF Contains(q, c) THEN q ELSE Append(q, c)

-----------------------------------------------------------------------------
(* lm_reactor_run and lm_scheduler_drain_ready                             *)

Top == /\ loop = "top"
       /\ loop' = IF stop THEN "stopped" ELSE "drain"
       /\ budget' = Budget
       /\ UNCHANGED <<batch, ready, cos, pipe, outside, conns, kernel, timing>>

\* Slip: a coroutine that keeps yielding is resumed without end.
ResumeUnbounded ==
    /\ loop = "drain" /\ cur = None /\ ready # <<>>
    /\ cur' = Head(ready) /\ ready' = Tail(ready)
    /\ UNCHANGED <<main, pc, target, wait, conn, pipe, outside, conns, kernel, timing>>

\* lm_co_resume refuses one that is dead.
Resume == /\ loop = "drain" /\ cur = None /\ budget > 0 /\ ready # <<>>
          /\ cur' = (IF pc[Head(ready)] = "dead" THEN None ELSE Head(ready)) /\ ready' = Tail(ready)
          /\ budget' = budget - 1
          /\ UNCHANGED <<loop, batch, pc, target, wait, conn, pipe, outside, conns, kernel, timing>>

\* Nothing is left, or the budget is: then the loop wakes itself up.
Drained == /\ loop = "drain" /\ cur = None /\ (budget = 0 \/ ready = <<>>)
           /\ loop' = "poll"
           /\ pipe' = (pipe \/ (budget = 0 /\ ready # <<>>))
           /\ budget' = 0
           /\ UNCHANGED <<batch, ready, cos, outside, conns, kernel, timing>>

\* process_events: what is pending is taken at once, each edge reported once; the
\* handler of the wake pipe empties it.
Poll == /\ loop = "poll" /\ (pipe \/ \E f \in Fds : edge[f])
        /\ batch' = {reg[f] : f \in {g \in Fds : edge[g]}}
        /\ edge' = [f \in Fds |-> FALSE] /\ pipe' = FALSE
        /\ loop' = "events"
        /\ UNCHANGED <<budget, ready, cos, outside, conns, open, data, reg, timing>>

\* The timeout computed from the nearest timer, or one second.
PollTimesOut == /\ loop = "poll" /\ ~pipe /\ \A f \in Fds : ~edge[f]
                /\ loop' = "top"
                /\ UNCHANGED <<budget, batch, ready, cos, pipe, outside, conns, kernel, timing>>

\* fd_wait_fire_ready for a connection of the batch.
Fire(k) ==
    /\ loop = "events" /\ k \in batch
    /\ batch' = batch \ {k}
    /\ IF word[k] = who[k]
       THEN /\ word' = [word EXCEPT ![k] = "ready"]
            /\ ready' = IF fresh[k] THEN Posted(ready, who[k]) ELSE ready
       ELSE UNCHANGED <<word, ready>>
    /\ UNCHANGED <<loop, budget, cos, pipe, outside, free, fresh, who, fd, fdMap,
                    kernel, timing>>

Dispatched == /\ loop = "events" /\ batch = {}
              /\ loop' = "top"
              /\ UNCHANGED <<budget, batch, ready, cos, pipe, outside, conns, kernel, timing>>

-----------------------------------------------------------------------------
(* What the coroutine does that the IO thread runs                         *)

Yield(c) == cur = c /\ cur' = None

\* A read: done, or EAGAIN and the coroutine is to wait.
Read(c, f) ==
    /\ cur = c /\ pc[c] = "runs" /\ open[f]
    /\ IF data[f] THEN data' = [data EXCEPT ![f] = FALSE] /\ UNCHANGED <<pc, target>>
       ELSE /\ waits < MaxWaits
            /\ pc' = [pc EXCEPT ![c] = "waits"] /\ target' = [target EXCEPT ![c] = f]
            /\ UNCHANGED data
    /\ UNCHANGED <<main, ready, cur, wait, conn, pipe, outside, conns, open, reg, edge, timing>>

\* Its time slice is used up: drain_ready puts it at the end of the queue.
SliceYield(c) ==
    /\ Yield(c) /\ pc[c] = "runs" /\ ready' = Posted(ready, c)
    /\ UNCHANGED <<main, pc, target, wait, conn, pipe, outside, conns, kernel, timing>>

Finish(c) ==
    /\ Yield(c) /\ pc[c] = "runs" /\ pc' = [pc EXCEPT ![c] = "dead"]
    /\ UNCHANGED <<main, ready, target, wait, conn, pipe, outside, conns, kernel, timing>>

\* lm_reactor_get_connection: when none is free, the one the number points at.
Chosen(f) == IF free # <<>> THEN Head(free) ELSE IF f < Capacity THEN f ELSE None

\* epoll refuses a descriptor that is closed or registered already.
CanAdd(f) == open[f] /\ reg[f] = None

\* co_wait_fd_timeout as far as the yield, with or without a timer.
Register(c, timed) ==
    LET f == target[c]
        k == Chosen(f)
        w == waits + 1
    IN  /\ Yield(c) /\ pc[c] = "waits" /\ k # None /\ CanAdd(f) /\ waits < MaxWaits
        /\ free' = IF free # <<>> THEN Tail(free) ELSE free
        /\ fd' = [fd EXCEPT ![k] = f] /\ who' = [who EXCEPT ![k] = c]
        /\ fresh' = [fresh EXCEPT ![k] = TRUE] /\ word' = [word EXCEPT ![k] = c]
        /\ fdMap' = IF f < Capacity THEN [fdMap EXCEPT ![f] = k] ELSE fdMap
        /\ reg' = [reg EXCEPT ![f] = k] /\ edge' = [edge EXCEPT ![f] = data[f]]
        /\ waits' = w /\ wait' = [wait EXCEPT ![c] = w] /\ conn' = [conn EXCEPT ![c] = k]
        /\ target' = [target EXCEPT ![c] = None]
        /\ timer' = [Staled(k) EXCEPT ![w] = IF ~timed THEN NoCtx
                ELSE [st |-> "armed", conn |-> k, co |-> c, fresh |-> TRUE, frees |-> 0]]
        /\ pc' = [pc EXCEPT ![c] = "parked"]
        /\ UNCHANGED <<main, ready, pipe, outside, open, data>>

\* The wait fails: no connection, or one that is given back at once.
RegisterFails(c) ==
    LET k == Chosen(target[c]) IN
        /\ cur = c /\ pc[c] = "waits" /\ (k = None \/ ~CanAdd(target[c]))
        /\ IF k = None THEN UNCHANGED <<conns, timer>>
           ELSE /\ free' = IF free # <<>> THEN free ELSE <<k>>
                /\ fd' = [fd EXCEPT ![k] = None] /\ who' = [who EXCEPT ![k] = c]
                /\ fresh' = [fresh EXCEPT ![k] = FALSE] /\ timer' = Staled(k)
                /\ word' = [word EXCEPT ![k] = "nil"]
                /\ fdMap' = [f \in Fds |-> IF f = target[c] /\ fdMap[f] = k THEN None ELSE fdMap[f]]
        /\ pc' = [pc EXCEPT ![c] = "runs"]
        /\ target' = [target EXCEPT ![c] = None]
        /\ UNCHANGED <<main, ready, cur, wait, conn, pipe, outside, kernel, waits>>

\* Resumed although nobody has ended its wait, it yields again.
Spurious(c) ==
    /\ Yield(c) /\ pc[c] = "parked" /\ word[conn[c]] = c
    /\ UNCHANGED <<main, ready, pc, target, wait, conn, pipe, outside, conns, kernel, timing>>

\* Slip: the answer of lm_timer_cancel is ignored.
CancelledBlindly(t) == [t EXCEPT !.st = IF @ = "armed" THEN "over" ELSE @, !.frees = @ + 1]

\* lm_timer_cancel answers 0 only for a timer that has not started: then its context
\* is the coroutine's to free.
Cancelled(t) == IF t.st = "armed" THEN Freed(t) ELSE t

\* Slip: the owner is not compared.
OwnedByNumber(k) == fd[k] \in Fds /\ fd[k] < Capacity

\* Slip: the connection has been given back before the kernel is asked.
OwnedTooLate(k) == fd[k] = None

\* lm_reactor_del asks the kernel only for a descriptor it still owns.
Owned(k) == fd[k] \in Fds /\ fd[k] < Capacity /\ fdMap[fd[k]] = k

\* The wait is over: registration, timer and connection are given back.
EndWait(c) ==
    LET w == wait[c]
        k == conn[c]
    IN  /\ cur = c /\ pc[c] = "parked" /\ word[k] # c
        /\ reg' = IF Owned(k) THEN [reg EXCEPT ![fd[k]] = None] ELSE reg
        /\ edge' = IF Owned(k) THEN [edge EXCEPT ![fd[k]] = FALSE] ELSE edge
        /\ timer' = [Staled(k) EXCEPT ![w] = Cancelled(@)]
        /\ fdMap' = IF Owned(k) THEN [fdMap EXCEPT ![fd[k]] = None] ELSE fdMap
        /\ fresh' = [fresh EXCEPT ![k] = FALSE] /\ fd' = [fd EXCEPT ![k] = None]
        /\ free' = <<k>> \o free
        /\ pc' = [pc EXCEPT ![c] = "runs"]
        /\ wait' = [wait EXCEPT ![c] = None] /\ conn' = [conn EXCEPT ![c] = None]
        /\ UNCHANGED <<main, ready, cur, target, pipe, outside, word, who,
                       open, data, waits>>

\* What close(2) does to a descriptor.
KernelClose(f) == /\ open' = [open EXCEPT ![f] = FALSE] /\ data' = [data EXCEPT ![f] = FALSE]
                  /\ reg' = [reg EXCEPT ![f] = None] /\ edge' = [edge EXCEPT ![f] = FALSE]

\* lumyr_socket_close on the IO thread: fd_wait_close_notify, then close.
Close(c, f) ==
    LET k == fdMap[f] IN
        /\ cur = c /\ pc[c] = "runs" /\ open[f]
        /\ IF k # None /\ f < Capacity
           THEN /\ fresh' = [fresh EXCEPT ![k] = FALSE] /\ timer' = Staled(k)
                /\ IF word[k] = who[k]
                   THEN /\ word' = [word EXCEPT ![k] = "closed"]
                        /\ ready' = Posted(ready, who[k])
                   ELSE UNCHANGED <<word, ready>>
           ELSE UNCHANGED <<fresh, timer, word, ready>>
        /\ KernelClose(f)
        /\ UNCHANGED <<main, cos, pipe, outside, free, who, fd, fdMap, waits>>

-----------------------------------------------------------------------------
(* fd_wait_timeout_cb on the timer thread, which runs one callback a time  *)

Calling(w) == timer[w].st \in {"running", "checked", "won", "posted"}

Start(w) == /\ timer[w].st = "armed" /\ \A v \in Waits : ~Calling(v)
            /\ timer' = [timer EXCEPT ![w].st = "running"]
            /\ UNCHANGED <<main, ready, cos, pipe, outside, conns, kernel, waits>>

Ended(w) == timer' = [timer EXCEPT ![w] = Freed(@)]

\* The generation is compared,
CheckGen(w) ==
    /\ timer[w].st = "running"
    /\ IF timer[w].fresh THEN timer' = [timer EXCEPT ![w].st = "checked"]
       ELSE Ended(w)
    /\ UNCHANGED <<main, ready, cos, pipe, outside, conns, kernel, waits>>

\* then the word is taken from the waiter, if it is still there,
TakeWord(w) ==
    LET t == timer[w] IN
        /\ t.st = "checked"
        /\ IF word[t.conn] = t.co
           THEN /\ word' = [word EXCEPT ![t.conn] = "timeout"]
                /\ timer' = [timer EXCEPT ![w].st = "won"]
           ELSE Ended(w) /\ UNCHANGED word
        /\ UNCHANGED <<main, ready, cos, pipe, outside, free, fresh, who, fd, fdMap,
                       kernel, waits>>

\* Slip: the winner compares the generation once more before it wakes.
PostIfFresh(w) ==
    /\ timer[w].st = "won"
    /\ ready' = IF timer[w].fresh THEN Posted(ready, timer[w].co) ELSE ready
    /\ timer' = [timer EXCEPT ![w].st = "posted"]
    /\ UNCHANGED <<main, cos, pipe, outside, conns, kernel, waits>>

\* and lm_scheduler_wakeup posts it and writes the pipe.
PostTimedOut(w) ==
    /\ timer[w].st = "won"
    /\ ready' = Posted(ready, timer[w].co)
    /\ timer' = [timer EXCEPT ![w].st = "posted"]
    /\ UNCHANGED <<main, cos, pipe, outside, conns, kernel, waits>>

WriteTimedOut(w) ==
    /\ timer[w].st = "posted" /\ pipe' = TRUE /\ Ended(w)
    /\ UNCHANGED <<main, ready, cos, outside, conns, kernel, waits>>

-----------------------------------------------------------------------------
(* Other threads and the network                                           *)

\* lm_scheduler_wakeup(c) from elsewhere, as coWakeup gives it to programs: also to
\* a coroutine that waits for a descriptor.
Wake(c) == /\ other = "idle" /\ calls < MaxCalls /\ pc[c] = "parked" /\ cur # c
           /\ ready' = Posted(ready, c)
           /\ other' = "woke" /\ calls' = calls + 1
           /\ UNCHANGED <<main, cos, pipe, stop, conns, kernel, timing>>

\* lm_reactor_stop, up to the byte.
Stop == /\ other = "idle" /\ calls < MaxCalls
        /\ stop' = TRUE /\ other' = "woke" /\ calls' = calls + 1
        /\ UNCHANGED <<main, ready, cos, pipe, conns, kernel, timing>>

WritePipe == /\ other = "woke" /\ other' = "idle" /\ pipe' = TRUE
             /\ UNCHANGED <<main, ready, cos, stop, calls, conns, kernel, timing>>

Arrive(f) == /\ open[f] /\ ~data[f]
             /\ data' = [data EXCEPT ![f] = TRUE]
             /\ edge' = [edge EXCEPT ![f] = reg[f] # None]
             /\ UNCHANGED <<main, ready, cos, pipe, outside, conns, open, reg, timing>>

\* A thread that has no reactor, or another, closes a socket: nobody is told.
CloseElsewhere(f) == /\ open[f] /\ calls < MaxCalls /\ calls' = calls + 1
                     /\ KernelClose(f)
                     /\ UNCHANGED <<main, ready, cos, pipe, stop, other, conns, timing>>

\* A new socket gets the number of a closed one.
Reopen(f) == /\ ~open[f] /\ calls < MaxCalls /\ calls' = calls + 1
             /\ open' = [open EXCEPT ![f] = TRUE]
             /\ UNCHANGED <<main, ready, cos, pipe, stop, other, conns, data, reg, edge, timing>>

-----------------------------------------------------------------------------
Loop == \/ Top \/ Resume \/ Drained \/ Poll \/ Dispatched \/ \E k \in Conns : Fire(k)

Runs(c) == \/ SliceYield(c) \/ Finish(c) \/ RegisterFails(c) \/ Spurious(c) \/ EndWait(c)
           \/ \E f \in Fds : Read(c, f) \/ Close(c, f)
           \/ \E timed \in BOOLEAN : Register(c, timed)

Callback(w) == CheckGen(w) \/ TakeWord(w) \/ PostTimedOut(w) \/ WriteTimedOut(w)

Next == \/ Loop \/ PollTimesOut \/ Stop \/ WritePipe
        \/ \E c \in Coroutines : Runs(c) \/ Wake(c)
        \/ \E w \in Waits : Start(w) \/ Callback(w)
        \/ \E f \in Fds : Arrive(f) \/ CloseElsewhere(f) \/ Reopen(f)

Spec == Init /\ [][Next]_vars

\* Threads that are not blocked go on, and a coroutine that runs comes to a yield,
\* its reductions being counted.  That epoll_wait times out, that timers expire or
\* that bytes arrive is not assumed.
Fairness == /\ WF_vars(Loop) /\ WF_vars(WritePipe)
            /\ \A c \in Coroutines : SF_vars(SliceYield(c) \/ Finish(c)) /\ WF_vars(RegisterFails(c))
                    /\ WF_vars(Spurious(c)) /\ WF_vars(EndWait(c))
                    /\ WF_vars(\E timed \in BOOLEAN : Register(c, timed))
            /\ \A w \in Waits : WF_vars(Callback(w))

FairSpec == Spec /\ Fairness

-----------------------------------------------------------------------------
TypeOK ==
    /\ loop \in {"top", "drain", "poll", "events", "stopped"} /\ budget \in 0 .. Budget
    /\ batch \subseteq Conns /\ ready \in BoundedSeq(Coroutines, Cardinality(Coroutines))
    /\ pc \in [Coroutines -> {"runs", "waits", "parked", "dead"}]
    /\ cur \in Coroutines \union {None} /\ target \in [Coroutines -> Fds \union {None}]
    /\ wait \in [Coroutines -> Waits \union {None}] /\ conn \in [Coroutines -> Conns \union {None}]
    /\ pipe \in BOOLEAN /\ stop \in BOOLEAN /\ other \in {"idle", "woke"} /\ calls \in 0 .. MaxCalls
    /\ free \in BoundedSeq(Conns, Capacity)
    /\ word \in [Conns -> Coroutines \union {"nil", "ready", "timeout", "closed"}]
    /\ fresh \in [Conns -> BOOLEAN] /\ who \in [Conns -> Coroutines \union {None}]
    /\ fd \in [Conns -> Fds \union {None}] /\ fdMap \in [Fds -> Conns \union {None}]
    /\ open \in [Fds -> BOOLEAN] /\ data \in [Fds -> BOOLEAN]
    /\ reg \in [Fds -> Conns \union {None}] /\ edge \in [Fds -> BOOLEAN]
    /\ waits \in 0 .. MaxWaits

Parked(c) == pc[c] = "parked" /\ cur # c

\* A wait that an event, a timeout or a close has ended is not forgotten: its
\* coroutine is queued, or the timer thread that won it is about to queue it (the
\* one winner of the word is the one that wakes).
EndedWaitWakes == \A c \in Coroutines :
    Parked(c) /\ word[conn[c]] # c =>
        Contains(ready, c) \/ \E w \in Waits : timer[w].st = "won" /\ timer[w].co = c

\* Only the end of its own wait or a close takes a registration away: the late
\* clean-up of an earlier waiter never silences the one that has the number now.
RegistrationKept ==
    [][\A f \in Fds : reg[f] # None /\ reg'[f] # reg[f] =>
            ~open'[f] \/ (cur = who[reg[f]] /\ word[reg[f]] # cur /\ conn[cur] = reg[f])]_vars

Dangles(f) == reg[f] # None /\ fd[reg[f]] # f

\* What the kernel reports for a number that the table of owners has room for is the
\* connection of a wait for that number: giving a connection back never leaves a
\* registration behind, whatever numbers beyond the table are in use (lm_reactor.c:363).
NoDanglingRegistration == \A f \in Fds : f < Capacity => ~Dangles(f)

\* "Take the events off first, to avoid a dangling registration" (lm_reactor.c:315): so for
\* every number that lm_reactor_get_connection gives a connection to.
NoDanglingAtAll == \A f \in Fds : ~Dangles(f)

\* The context that a waiter and its timer share is freed by exactly one of them,
\* and never under a callback that runs.
FreedOnce == \A w \in Waits :
    /\ timer[w].st \in {"armed", "running", "checked", "won", "posted"} => timer[w].frees = 0
    /\ timer[w].st = "over" => timer[w].frees = 1

\* A wait ends with a timeout only when its own timer has expired.
OwnTimeout == \A c \in Coroutines :
    Parked(c) /\ word[conn[c]] = "timeout" => timer[wait[c]].st # "armed"

\* The loop comes back to its top again and again unless it sleeps with nothing to do:
\* it never sleeps on a queued coroutine, on an event or on a stop, however these
\* crossed with its way into epoll_wait, and coroutines that keep yielding do not
\* keep it from the events.
NeverSleepsOnWork ==
    []<>(\/ loop \in {"top", "stopped"}
         \/ loop = "poll" /\ ready = <<>> /\ ~stop /\ \A f \in Fds : ~edge[f])
=============================================================================
