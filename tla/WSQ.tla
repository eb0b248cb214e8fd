-------------------------------- MODULE WSQ --------------------------------
(***************************************************************************)
(* The work-stealing queue of lm_wsq.c and the way lm_scheduler.c uses it: *)
(* the owner pushes and pops at the bottom without CAS, thieves take from  *)
(* the top with one CAS for a whole batch, a full queue hands its newest   *)
(* part to the global queue (wsq_push_or_overflow), and a worker fills it  *)
(* from there again (overflow_take_to_wsq).                                *)
(*                                                                         *)
(* One access to top or bottom is one step, in the order of the code; the  *)
(* owner's accesses to slots go with the step next to them, nobody else    *)
(* writes slots.  Memory is sequentially consistent, as the fences of the  *)
(* code make it on multi-copy atomic machines (x86, ARMv8).                *)
(***************************************************************************)
EXTENDS Integers, Sequences

CONSTANTS Tasks,      \* coroutines to run, each pushed at most once
          NoTask,     \* an empty slot
          Thieves,    \* schedulers that steal from this queue
          Capacity,   \* LM_WSQ_CAPACITY
          MaxBatch,   \* LM_WSQ_STEAL_MAX_BATCH
          MaxOut,     \* what is extracted from a full queue at once
          Tries       \* LM_WSQ_STEAL_TRIES

ASSUME WSQAssumption == /\ NoTask \notin Tasks \union Nat
                        /\ Capacity \in Nat \ {0} /\ MaxBatch \in Nat \ {0}
                        /\ MaxOut \in Nat \ {0} /\ Tries \in Nat \ {0}

VARIABLES top, bottom,   \* the indices; a slot is an index modulo Capacity
          slot,          \* buffer
          pc, t,         \* the owner: its next step, its local t
          hand,          \* the owner: the task it pushes
          thief,         \* the thieves: step, tries left, locals t and n, slots read
          place,         \* the index at which each task has been written
          handed         \* how often each task has been given away, in which way

vars == <<top, bottom, slot, pc, t, hand, thief, place, handed>>

\* A thief runs the first of its batch and queues the rest; the owner gets the last task
\* by a CAS and pops the others without; tasks move to the global queue; and one taken
\* from there may be dropped.
Ways == {"first", "rest", "last", "popped", "moved", "dropped"}

At(i) == slot[i % Capacity]

\* The tasks at the indices from lo up to and without hi.
Between(lo, hi) == {At(i) : i \in lo..(hi - 1)}

Once(f, S) == [x \in Tasks |-> IF x \in S THEN f[x] + 1 ELSE f[x]]

HandOut(way, S) == handed' = [handed EXCEPT ![way] = Once(@, S)]

Resting == [step |-> "rest", tries |-> 0, t |-> 0, n |-> 0, out |-> <<>>]

Init == /\ top = 0 /\ bottom = 0
        /\ slot = [i \in 0..(Capacity - 1) |-> NoTask]
        /\ pc = "idle" /\ t = 0 /\ hand = NoTask
        /\ thief = [h \in Thieves |-> Resting]
        /\ place = [x \in Tasks |-> NoTask]
        /\ handed = [w \in Ways |-> [x \in Tasks |-> 0]]

-----------------------------------------------------------------------------
(* lm_wsq_push, through wsq_push_or_overflow or overflow_take_to_wsq.      *)

Fresh(x) == x # hand /\ place[x] = NoTask /\ \A w \in Ways : handed[w][x] = 0

\* The size is cast to size_t: when top is ahead of bottom the queue counts as full.
Full == bottom - top \notin 0..(Capacity - 1)

\* A new task; bottom is the owner's, so its load goes with the one of top.
PushRead(x) ==
    /\ pc = "idle" /\ Fresh(x)
    /\ hand' = x
    /\ pc' = IF Full THEN "full" ELSE "write"
    /\ UNCHANGED <<top, bottom, slot, t, thief, place, handed>>

PushWrite ==
    /\ pc = "write"
    /\ slot' = [slot EXCEPT ![bottom % Capacity] = hand] /\ place' = [place EXCEPT ![hand] = bottom]
    /\ pc' = "publish"
    /\ UNCHANGED <<top, bottom, t, hand, thief, handed>>

PushPublish ==
    /\ pc = "publish"
    /\ bottom' = bottom + 1
    /\ pc' = "idle" /\ hand' = NoTask
    /\ UNCHANGED <<top, slot, t, thief, place, handed>>

\* lm_wsq_extract_tail_half loads top and gives up under 2 tasks.
ExtractRead ==
    /\ pc = "full"
    /\ t' = top
    /\ pc' = IF bottom - top < 2 THEN "last" ELSE "extract"
    /\ UNCHANGED <<top, bottom, slot, hand, thief, place, handed>>

AtMost(max, n) == IF n > max THEN max ELSE n

Half == AtMost(MaxOut, (bottom - t) \div 2)

\* Slip: bottom stays behind the tasks that are extracted.
ExtractKeeping ==
    /\ pc = "extract"
    /\ HandOut("moved", Between(bottom - Half, bottom))
    /\ pc' = "again"
    /\ UNCHANGED <<top, bottom, slot, t, hand, thief, place>>

\* It moves bottom back by half and the newest tasks go to the global queue.
Extract ==
    /\ pc = "extract"
    /\ bottom' = bottom - Half
    /\ HandOut("moved", Between(bottom - Half, bottom))
    /\ pc' = "again"
    /\ UNCHANGED <<top, slot, t, hand, thief, place>>

\* The push is tried again after each half, and once more when there was none.
PushAgain ==
    /\ \/ pc = "again" /\ pc' = IF Full THEN "full" ELSE "write"
       \/ pc = "last" /\ ~Full /\ pc' = "write"
    /\ UNCHANGED <<top, bottom, slot, t, hand, thief, place, handed>>

\* What cannot be pushed goes to the global queue itself.
PushGlobal ==
    /\ pc = "last" /\ Full
    /\ HandOut("moved", {hand})
    /\ pc' = "idle" /\ hand' = NoTask
    /\ UNCHANGED <<top, bottom, slot, t, thief, place>>

\* overflow_take_to_wsq looks for room, in size_t too, and takes a task from the global queue ...
TakeRead(x) ==
    /\ pc = "idle" /\ Fresh(x) /\ bottom - top # Capacity
    /\ hand' = x /\ pc' = "take"
    /\ UNCHANGED <<top, bottom, slot, t, thief, place, handed>>

\* ... whose push it does not look after.
TakePush ==
    /\ pc = "take"
    /\ \/ ~Full /\ pc' = "write" /\ UNCHANGED <<hand, handed>>
       \/ Full /\ pc' = "idle" /\ hand' = NoTask /\ HandOut("dropped", {hand})
    /\ UNCHANGED <<top, bottom, slot, t, thief, place>>

-----------------------------------------------------------------------------
(* lm_wsq_pop.                                                             *)

PopClaim ==
    /\ pc = "idle"
    /\ bottom' = bottom - 1
    /\ pc' = "popread"
    /\ UNCHANGED <<top, slot, t, hand, thief, place, handed>>

\* Slip: the owner takes the last task too without a CAS.
PopTakeLast ==
    /\ pc = "popread" /\ top <= bottom
    /\ HandOut("popped", {At(bottom)})
    /\ pc' = "idle"
    /\ UNCHANGED <<top, bottom, slot, t, hand, thief, place>>

\* More than one task: the newest is the owner's, without a CAS.
PopTake ==
    /\ pc = "popread" /\ top < bottom
    /\ HandOut("popped", {At(bottom)})
    /\ pc' = "idle"
    /\ UNCHANGED <<top, bottom, slot, t, hand, thief, place>>

\* The last one: thieves may be after it too.
PopLast ==
    /\ pc = "popread" /\ top = bottom
    /\ t' = top /\ pc' = "popcas"
    /\ UNCHANGED <<top, bottom, slot, hand, thief, place, handed>>

PopEmpty ==
    /\ pc = "popread" /\ top > bottom
    /\ t' = top /\ pc' = "popempty"
    /\ UNCHANGED <<top, bottom, slot, hand, thief, place, handed>>

PopCas ==
    /\ pc = "popcas"
    /\ \/ top = t /\ top' = t + 1 /\ HandOut("last", {At(t)})
       \/ top # t /\ UNCHANGED <<top, handed>>
    /\ pc' = "popreset"
    /\ UNCHANGED <<bottom, slot, t, hand, thief, place>>

\* bottom goes behind the task fought for, or back to the top of an empty queue.
PopReset ==
    /\ \/ pc = "popreset" /\ bottom' = t + 1
       \/ pc = "popempty" /\ bottom' = t
    /\ pc' = "idle"
    /\ UNCHANGED <<top, slot, t, hand, thief, place, handed>>

-----------------------------------------------------------------------------
(* lm_wsq_steal_batch.                                                     *)

Owner == <<bottom, slot, pc, t, hand, place>>

ThiefGoes(h, new) == thief' = [thief EXCEPT ![h] = new]

StealStart(h) ==
    /\ thief[h].step = "rest"
    /\ ThiefGoes(h, [Resting EXCEPT !.step = "top", !.tries = Tries])
    /\ UNCHANGED <<top, handed, Owner>>

StealTop(h) ==
    /\ thief[h].step = "top"
    /\ ThiefGoes(h, [thief[h] EXCEPT !.step = "bottom", !.t = top, !.out = <<>>])
    /\ UNCHANGED <<top, handed, Owner>>

\* Half of what there is, rounded up, but at most a batch.
BatchSize(len) == AtMost(MaxBatch, (len + 1) \div 2)

StealBottom(h) ==
    /\ thief[h].step = "bottom"
    /\ \/ /\ thief[h].t >= bottom
          /\ ThiefGoes(h, Resting)
       \/ /\ thief[h].t < bottom
          /\ ThiefGoes(h, [thief[h] EXCEPT !.step = "read", !.n = BatchSize(bottom - thief[h].t)])
    /\ UNCHANGED <<top, handed, Owner>>

\* The slots are read one by one before the CAS.
StealRead(h) ==
    /\ thief[h].step = "read"
    /\ LET got == Len(thief[h].out)
       IN  ThiefGoes(h, [thief[h] EXCEPT !.out = Append(@, At(thief[h].t + got)),
                                         !.step = IF got + 1 = thief[h].n THEN "cas" ELSE "read"])
    /\ UNCHANGED <<top, handed, Owner>>

Loot(h, places) == {thief[h].out[k] : k \in places \intersect 1..thief[h].n}

\* sched_steal runs the first and queues the others with the thief.
TakeLoot(h) ==
    handed' = [handed EXCEPT !["first"] = Once(@, Loot(h, {1})),
                             !["rest"] = Once(@, Loot(h, 2..MaxBatch))]

\* Slip: the thief stores top instead of comparing it.
StealUnarbitrated(h) ==
    /\ thief[h].step = "cas"
    /\ top' = thief[h].t + thief[h].n
    /\ TakeLoot(h)
    /\ ThiefGoes(h, Resting)
    /\ UNCHANGED Owner

\* Slip: the thief moves top by one task more than it has read.
StealOneTooFar(h) ==
    /\ thief[h].step = "cas" /\ top = thief[h].t
    /\ top' = thief[h].t + thief[h].n + 1
    /\ TakeLoot(h)
    /\ ThiefGoes(h, Resting)
    /\ UNCHANGED Owner

StealCommit(h) ==
    /\ thief[h].step = "cas" /\ top = thief[h].t
    /\ top' = top + thief[h].n
    /\ TakeLoot(h)
    /\ ThiefGoes(h, Resting)
    /\ UNCHANGED Owner

\* The CAS fails: try again, or give up after the last try.
StealFail(h) ==
    /\ thief[h].step = "cas" /\ top # thief[h].t
    /\ \/ /\ thief[h].tries > 1
          /\ ThiefGoes(h, [Resting EXCEPT !.step = "top", !.tries = thief[h].tries - 1])
       \/ /\ thief[h].tries = 1
          /\ ThiefGoes(h, Resting)
    /\ UNCHANGED <<top, handed, Owner>>

-----------------------------------------------------------------------------
OwnerNext == \/ \E x \in Tasks : PushRead(x)
             \/ PushWrite \/ PushPublish \/ ExtractRead \/ Extract \/ PushAgain \/ PushGlobal
             \/ (\E x \in Tasks : TakeRead(x)) \/ TakePush
             \/ PopClaim \/ PopTake \/ PopLast \/ PopEmpty \/ PopCas \/ PopReset

ThiefNext(h) == \/ StealStart(h) \/ StealTop(h) \/ StealBottom(h) \/ StealRead(h)
                \/ StealCommit(h) \/ StealFail(h)

Next == OwnerNext \/ \E h \in Thieves : ThiefNext(h)

Spec == Init /\ [][Next]_vars

-----------------------------------------------------------------------------
TypeOK == /\ top \in Nat /\ bottom \in Int
          /\ slot \in [0..(Capacity - 1) -> Tasks \union {NoTask}]
          /\ pc \in {"idle", "write", "publish", "full", "extract", "again", "last", "take",
                     "popread", "popcas", "popreset", "popempty"}
          /\ t \in Int /\ hand \in Tasks \union {NoTask}
          /\ \A h \in Thieves : thief[h].n \in 0..MaxBatch
          /\ place \in [Tasks -> Nat \union {NoTask}]
          /\ handed \in [Ways -> [Tasks -> Nat]]

\* The first index without a task: pop has moved bottom in front of a task it
\* does not own yet.
End == IF pc \in {"popread", "popcas", "popreset", "popempty"} THEN bottom + 1 ELSE bottom

InQueue == Between(top, End)

ThroughTop(x) == handed["first"][x] + handed["rest"][x] + handed["last"][x]

ByOwner(x) == handed["last"][x] + handed["popped"][x] + handed["moved"][x]

\* What is taken by moving top is taken once, whoever moves it: two thieves, or a thief
\* and the owner who is after the last task, never get the same task.
TopTakesOnce == \A x \in Tasks : ThroughTop(x) <= 1

\* The owner itself never gives a task away twice: what it has popped, won by its CAS or
\* moved to the global queue it does not come across again, though bottom goes back and
\* forth, the slots are used again, and top may get ahead of bottom.
OwnerGivesOnce == \A x \in Tasks : ByOwner(x) <= 1

\* The task that a thief runs at once, the first of its batch, has not been popped by the
\* owner, whatever has become of the others of the batch.
FirstIsFree == \A x \in Tasks : handed["first"][x] > 0 => handed["popped"][x] = 0

\* What has been pushed is still in the queue or has been given away, unless it has come to
\* the place of a popped task that a thief has then taken for it.
LostForAnother ==
    \A x \in Tasks : place[x] # NoTask /\ x # hand =>
        \/ x \in InQueue
        \/ ThroughTop(x) + ByOwner(x) > 0
        \/ \E y \in Tasks \ {x} : place[y] = place[x] /\ ThroughTop(y) > 0 /\ ByOwner(y) > 0

\* "The algorithm loses nothing and repeats nothing" (lm_wsq.h:12): no coroutine is
\* handed to two schedulers, or twice to one.
NoDuplicate == \A x \in Tasks : handed["first"][x] + handed["rest"][x] + ByOwner(x) <= 1

\* "The room is reserved, it must succeed" (lm_scheduler.c:208): what a worker takes from the
\* global queue gets into its own.
TakenFits == \A x \in Tasks : handed["dropped"][x] = 0
=============================================================================
