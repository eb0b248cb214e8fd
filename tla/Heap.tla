-------------------------------- MODULE Heap --------------------------------
(***************************************************************************)
(* The collector of gc_runtime.c and the threads that use its heap: the    *)
(* cooperative stop of the world, incremental marking with the write       *)
(* barrier, the remembered set, the minor and the major sweep.             *)
(*                                                                         *)
(* An object is an array of one element; its buffers share its fate.  The  *)
(* roots of a thread stand for its operand stack, its frames and the words *)
(* of its C stack.  The sizes that start a collection are left out: any    *)
(* thread may start one at any of its operations, at most Cycles in all.   *)
(* So are the poll limit of gc_wait_all_threads_at_safepoint, behind which *)
(* the collector goes on with threads running, and the free lists of the   *)
(* allocator, whose blocks are immortal (marked 2) until they are used.    *)
(***************************************************************************)
EXTENDS Integers

CONSTANTS Threads, Objs, PromoteAge, Cycles, Nil

ASSUME HeapAssumption == PromoteAge \in Nat \ {0} /\ Cycles \in Nat /\ Nil \notin Objs

\* values of GCObject.marked
White == 0
Black == 1
New   == 3      \* allocated outside a marking: survives the first major sweep
Gray  == 4      \* on g_mark_stack, whose order is left out

VARIABLES used,      \* objects in g_gc_objects
          marked, age, ref,   \* of each object
          inRS,      \* the remembered set
          roots,     \* of each thread
          safe,      \* at_safepoint of each registered thread
          pc,        \* of each thread: see TypeOK
          stw,       \* g_gc_stw
          marking,   \* g_gc_marking
          phase,     \* of the collection in progress; "idle" is g_in_gc = 0
          kind,      \* of that collection: "major" or "minor"
          locked,    \* the collector holds g_gc_mutex over several steps
          cycles,    \* collections started
          slipped,   \* history: a thread began to run between count and scan
          garbage    \* history: unreachable and not New when the collection started

heap == <<used, marked, age, ref, inRS>>
sync == <<safe, pc, stw, slipped>>
gc   == <<marking, phase, kind, locked, cycles, garbage>>
vars == <<heap, roots, sync, gc>>

Registered == {t \in Threads : pc[t] # "none"}

\* gc_mark_ptr_to_stack of every object of S: what is white or new turns gray
Pushed(S) ==
  [o \in Objs |-> IF o \in S /\ marked[o] \in {White, New} THEN Gray ELSE marked[o]]
NothingGray == \A o \in Objs : marked[o] # Gray

\* what the threads hold, and what the remembered objects do
Rooted     == UNION {roots[t] : t \in Registered}
Remembered == {ref[o] : o \in inRS} \ {Nil}

\* S holds whatever its objects refer to
Closed(S) == \A o \in S : ref[o] \in S \cup {Nil}

\* all a thread can still get at
Reachable == {o \in Objs : \A S \in SUBSET Objs : Rooted \subseteq S /\ Closed(S) => o \in S}

\* gc_remembered_set_check: the set once x holds y
Remembering(x, y) ==
  IF age[x] >= PromoteAge /\ y # Nil /\ age[y] < PromoteAge THEN inRS \cup {x} ELSE inRS

Init ==
  /\ used = {}
  /\ marked = [o \in Objs |-> White]
  /\ age = [o \in Objs |-> 0]
  /\ ref = [o \in Objs |-> Nil]
  /\ inRS = {}
  /\ roots = [t \in Threads |-> {}]
  /\ safe = [t \in Threads |-> FALSE]
  /\ pc = [t \in Threads |-> "none"]
  /\ stw = FALSE /\ marking = FALSE
  /\ phase = "idle" /\ kind = "major"
  /\ locked = FALSE
  /\ cycles = 0
  /\ slipped = FALSE
  /\ garbage = {}

-----------------------------------------------------------------------------
(* The threads.  g_gc_stw is looked at by gc_alloc, by the reactor's loop   *)
(* and around native blocks, not by every instruction: a thread runs on    *)
(* until it Arrives.                                                       *)

Runs(t) == pc[t] = "run"

\* the collector has counted, and does not hold the mutex yet
Uncovered == phase \in {"counted", "recounted"}

Register(t) ==
  /\ pc[t] = "none" /\ ~locked
  /\ pc' = [pc EXCEPT ![t] = "run"]
  /\ slipped' = (slipped \/ Uncovered)
  /\ UNCHANGED <<heap, roots, safe, stw, gc>>

Unregister(t) ==
  /\ Runs(t) /\ ~locked
  /\ pc' = [pc EXCEPT ![t] = "none"]
  /\ roots' = [roots EXCEPT ![t] = {}]
  /\ UNCHANGED <<heap, safe, stw, slipped, gc>>

\* gc_alloc behind its look at g_gc_stw; large objects start old
Alloc(t) ==
  /\ Runs(t) /\ ~locked
  /\ \E o \in Objs \ used, large \in BOOLEAN :
       /\ used' = used \cup {o}
       /\ marked' = [marked EXCEPT ![o] = IF marking THEN Black ELSE New]
       /\ age' = [age EXCEPT ![o] = IF large THEN PromoteAge ELSE 0]
       /\ ref' = [ref EXCEPT ![o] = Nil]
       /\ roots' = [roots EXCEPT ![t] = @ \cup {o}]
  /\ UNCHANGED <<inRS, sync, gc>>

\* Slip: the element is stored without the write barrier
StoreUnseen(t) ==
  /\ Runs(t)
  /\ \E x \in roots[t], y \in roots[t] \cup {Nil} :
       /\ ref' = [ref EXCEPT ![x] = y]
       /\ inRS' = Remembering(x, y)
  /\ UNCHANGED <<used, marked, age, roots, sync, gc>>

\* an element is set: write barrier, remembered set, then the store
Store(t) ==
  /\ Runs(t)
  /\ \E x \in roots[t], y \in roots[t] \cup {Nil} :
       /\ marked' = IF marking THEN Pushed({y}) ELSE marked
       /\ inRS' = Remembering(x, y)
       /\ ref' = [ref EXCEPT ![x] = y]
  /\ UNCHANGED <<used, age, roots, sync, gc>>

\* an element is read onto the stack
Load(t) ==
  /\ Runs(t)
  /\ \E x \in roots[t] :
       /\ ref[x] # Nil
       /\ roots' = [roots EXCEPT ![t] = @ \cup {ref[x]}]
  /\ UNCHANGED <<heap, sync, gc>>

Drop(t) ==
  /\ Runs(t)
  /\ \E x \in roots[t] : roots' = [roots EXCEPT ![t] = @ \ {x}]
  /\ UNCHANGED <<heap, sync, gc>>

\* gc_stw_check finds g_gc_stw set, in gc_leave_native_block too
Arrive(t) ==
  /\ pc[t] \in {"run", "native"} /\ stw /\ ~locked
  /\ pc' = [pc EXCEPT ![t] = "spin"]
  /\ safe' = [safe EXCEPT ![t] = TRUE]
  /\ UNCHANGED <<heap, roots, stw, slipped, gc>>

EnterNative(t) ==
  /\ Runs(t) /\ ~locked
  /\ pc' = [pc EXCEPT ![t] = "native"]
  /\ safe' = [safe EXCEPT ![t] = TRUE]
  /\ UNCHANGED <<heap, roots, stw, slipped, gc>>

\* the thread has seen g_gc_stw clear; it still counts as stopped
SeeResumed(t) ==
  /\ pc[t] \in {"spin", "native"} /\ ~stw
  /\ pc' = [pc EXCEPT ![t] = "resumed"]
  /\ UNCHANGED <<heap, roots, safe, stw, slipped, gc>>

\* gc_set_self_at_safepoint(0), under the mutex
Leave(t) ==
  /\ pc[t] = "resumed" /\ ~locked
  /\ pc' = [pc EXCEPT ![t] = "run"]
  /\ safe' = [safe EXCEPT ![t] = FALSE]
  /\ slipped' = (slipped \/ Uncovered)
  /\ UNCHANGED <<heap, roots, stw, gc>>

-----------------------------------------------------------------------------
(* A collection, by the thread whose pc is "collect".                      *)

Collector == CHOOSE t \in Threads : pc[t] = "collect"

\* g_in_gc is taken; the world is asked to stop
Start(t) ==
  /\ phase = "idle" /\ cycles < Cycles
  /\ Runs(t) /\ ~locked
  /\ pc' = [pc EXCEPT ![t] = "collect"]
  /\ safe' = [safe EXCEPT ![t] = TRUE]
  /\ stw' = TRUE
  /\ kind' \in {"major", "minor"}
  /\ phase' = IF kind' = "major" THEN "stopping" ELSE "restopping"
  /\ cycles' = cycles + 1
  /\ garbage' = {o \in used \ Reachable : marked[o] # New}
  /\ UNCHANGED <<heap, roots, slipped, marking, locked>>

\* gc_wait_all_threads_at_safepoint: all counted under the mutex, then let go of it
Counted ==
  /\ phase \in {"stopping", "restopping"} /\ \A t \in Registered : safe[t]
  /\ phase' = IF phase = "stopping" THEN "counted" ELSE "recounted"
  /\ UNCHANGED <<heap, roots, sync, marking, kind, locked, cycles, garbage>>

\* first stop of a major collection: the barrier on, the roots gray, on again
FirstScan ==
  /\ phase = "counted"
  /\ marking' = TRUE
  /\ marked' = Pushed(Rooted)
  /\ stw' = FALSE
  /\ safe' = [safe EXCEPT ![Collector] = FALSE]
  /\ phase' = "marking"
  /\ UNCHANGED <<used, age, ref, inRS, roots, pc, slipped, kind, locked, cycles, garbage>>

\* gc_mark_one of an object of the mark stack: its element turns gray, it black
MarkOne ==
  /\ phase \in {"marking", "final"}
  /\ \E o \in Objs :
       /\ marked[o] = Gray
       /\ marked' = [Pushed({ref[o]}) EXCEPT ![o] = Black]
  /\ UNCHANGED <<used, age, ref, inRS, roots, sync, marking, phase, kind, locked, cycles, garbage>>

\* nothing left to mark: the world is asked to stop again
StopAgain ==
  /\ phase = "marking" /\ NothingGray
  /\ stw' = TRUE
  /\ safe' = [safe EXCEPT ![Collector] = TRUE]
  /\ phase' = "restopping"
  /\ UNCHANGED <<heap, roots, pc, slipped, marking, kind, locked, cycles, garbage>>

\* the roots again; a minor collection scans the remembered set too
LastScan ==
  /\ phase = "recounted"
  /\ locked' = TRUE
  /\ marked' = Pushed(IF kind = "minor" THEN Rooted \cup Remembered ELSE Rooted)
  /\ phase' = "final"
  /\ UNCHANGED <<used, age, ref, inRS, roots, sync, marking, kind, cycles, garbage>>

\* gc_sweep: what is not marked goes, the rest is white again
KeptMajor == {o \in used : marked[o] # White}

\* gc_sweep_minor: young objects not black go; the others age and may promote
Young     == {o \in used : age[o] < PromoteAge}
Survivors == {o \in Young : marked[o] = Black}
KeptMinor == (used \ Young) \cup Survivors

\* what a sweep keeps, with the remembered set as it is after it
Keep(kept, rs) ==
  /\ used' = kept
  /\ inRS' = rs
  /\ age' = [o \in Objs |-> IF o \notin kept THEN 0
                             ELSE IF kind = "minor" /\ o \in Survivors THEN age[o] + 1 ELSE age[o]]
  /\ ref' = [o \in Objs |-> IF o \in kept THEN ref[o] ELSE Nil]

SweepKept ==
  IF kind = "major" THEN Keep(KeptMajor, {})
  ELSE Keep(KeptMinor, inRS \cup {o \in Survivors : age[o] + 1 >= PromoteAge})

\* the world goes on, and g_in_gc is given back
Resume ==
  /\ marking' = FALSE /\ locked' = FALSE /\ stw' = FALSE
  /\ safe' = [safe EXCEPT ![Collector] = FALSE]
  /\ pc' = [pc EXCEPT ![Collector] = "run"]
  /\ phase' = "idle"
  /\ kind' = "major" /\ garbage' = {}
  /\ UNCHANGED <<roots, slipped, cycles>>

\* Slip: the sweep leaves the marks of what it keeps
SweepKeepsMarks ==
  /\ phase = "final" /\ NothingGray
  /\ SweepKept
  /\ UNCHANGED marked
  /\ Resume

Sweep ==
  /\ phase = "final" /\ NothingGray
  /\ SweepKept
  /\ marked' = [o \in Objs |-> White]
  /\ Resume

Next ==
  \/ \E t \in Threads :
       \/ Register(t) \/ Unregister(t) \/ Alloc(t) \/ Store(t) \/ Load(t) \/ Drop(t)
       \/ Arrive(t) \/ EnterNative(t) \/ SeeResumed(t) \/ Leave(t) \/ Start(t)
  \/ Counted \/ FirstScan \/ MarkOne \/ StopAgain \/ LastScan \/ Sweep

Spec == Init /\ [][Next]_vars

-----------------------------------------------------------------------------
(* Properties *)

TypeOK ==
  /\ used \subseteq Objs /\ inRS \subseteq Objs /\ garbage \subseteq used
  /\ marked \in [Objs -> {White, Black, New, Gray}]
  /\ age \in [Objs -> 0..PromoteAge]
  /\ ref \in [Objs -> Objs \cup {Nil}]
  /\ roots \in [Threads -> SUBSET Objs]
  /\ safe \in [Threads -> BOOLEAN]
  /\ pc \in [Threads -> {"none", "run", "spin", "native", "resumed", "collect"}]
  /\ stw \in BOOLEAN /\ marking \in BOOLEAN /\ locked \in BOOLEAN /\ slipped \in BOOLEAN
  /\ kind \in {"major", "minor"} /\ cycles \in Nat
  /\ phase \in {"idle", "stopping", "counted", "marking", "restopping", "recounted", "final"}

\* No object a registered thread can still get at has been freed.
NothingReachableFreed == Reachable \subseteq used

\* As long as no thread began to run between the collector's count and its scan,
\* nothing a thread can still get at is freed: neither by the incremental marking while
\* elements are moved about behind it, nor by a minor collection that knows the
\* old objects' young elements from the remembered set, nor by a promotion
\* (gc_write_barrier_impl, gc_scan_roots_to_stack, gc_sweep, gc_sweep_minor).
KeepsReachable == ~slipped => NothingReachableFreed

\* A major sweep leaves nothing that no thread could get at when the
\* collection began, except what was new since the last sweep: marks do not
\* outlive their collection, and the barrier marks no garbage (gc_sweep,
\* remembered_set_clear).
GarbageGoes ==
  [][Sweep /\ kind = "major" /\ ~slipped => garbage \cap used' = {}]_vars

=============================================================================
