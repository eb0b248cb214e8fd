----------------------------- MODULE HeapProofs -----------------------------
(***************************************************************************)
(* The collector of Heap.tla frees nothing that can be reached and leaves  *)
(* no old garbage, for any threads, any heap, any age of promotion and any *)
(* number of collections.                                                  *)
(***************************************************************************)
EXTENDS Heap, TLAPS

Marked == {o \in Objs : marked[o] \in {Gray, Black}}

\* A black object refers to no object that is not marked: this is what the write
\* barrier is for.
Tricolor == marking \/ phase = "final" =>
    \A o \in Objs : marked[o] = Black => ref[o] \in Marked \cup {Nil}

\* From the count of the stopped threads to the end of the sweep nobody runs.
Stopped == phase \in {"counted", "recounted", "final"} => \A t \in Threads : ~Runs(t)

RootsMarked == phase = "final" => Rooted \subseteq Marked

\* Marks exist only in a collection that marks.
MarksEnd == ~marking /\ phase # "final" => Marked = {}

ThreadInv == /\ \A t \in Threads : /\ pc[t] \in {"none", "run"} => ~safe[t]
                                   /\ pc[t] = "none" => roots[t] = {}
             /\ phase # "idle" => \E t \in Threads : pc[t] = "collect"
             /\ phase = "final" => locked

Safe == Tricolor /\ Stopped /\ RootsMarked /\ NothingReachableFreed

\* The inductive invariant behind KeepsReachable.
SafeInv == /\ TypeOK /\ ThreadInv /\ MarksEnd
           /\ ~slipped => Safe

-----------------------------------------------------------------------------
(* Reachability                                                            *)

\* Everything reachable is in any set that has the roots and is closed, before and
\* after a step.
LEMMA ReachableBelow ==
  ASSUME NEW S \in SUBSET Objs
  PROVE  /\ Rooted \subseteq S /\ (\A o \in S : ref[o] \in S \cup {Nil}) => Reachable \subseteq S
         /\ Rooted' \subseteq S /\ (\A o \in S : ref'[o] \in S \cup {Nil}) => Reachable' \subseteq S
BY DEF Reachable, Closed

\* What is reachable is closed and has the roots.
LEMMA ReachableClosed ==
  ASSUME TypeOK
  PROVE  Rooted \subseteq Reachable /\ Closed(Reachable) /\ Reachable \subseteq Objs
<1>1. Rooted \subseteq Objs
  BY DEF TypeOK, Rooted, Registered
<1>2. Rooted \subseteq Reachable
  BY <1>1 DEF Reachable
<1>3. ASSUME NEW o \in Reachable PROVE ref[o] \in Reachable \cup {Nil}
  <2>1. o \in Objs /\ ref[o] \in Objs \cup {Nil}
    BY DEF Reachable, TypeOK
  <2>2. ASSUME ref[o] # Nil, NEW S \in SUBSET Objs, Rooted \subseteq S, Closed(S) PROVE ref[o] \in S
    <3>1. o \in S
      BY <2>2 DEF Reachable
    <3>. QED
      BY <2>2, <3>1 DEF Closed
  <2>. QED
    BY <2>1, <2>2 DEF Reachable
<1>. QED
  BY <1>2, <1>3 DEF Reachable, Closed

-----------------------------------------------------------------------------
(* The steps                                                               *)

\* The collection starts with everything at rest.
LEMMA HeapInit == Init => SafeInv
<1> SUFFICES ASSUME Init PROVE SafeInv
  OBVIOUS
<1>1. TypeOK
  <2>1. 0 \in 0..PromoteAge
    BY HeapAssumption
  <2>2. age \in [Objs -> 0..PromoteAge] /\ marked \in [Objs -> {White, Black, New, Gray}]
    BY <2>1 DEF Init
  <2>3. roots \in [Threads -> SUBSET Objs] /\ safe \in [Threads -> BOOLEAN]
    BY DEF Init
  <2>. QED
    BY <2>2, <2>3 DEF Init, TypeOK
<1>2. ThreadInv /\ MarksEnd /\ Tricolor /\ Stopped /\ RootsMarked
  BY DEF Init, ThreadInv, Runs, MarksEnd, Marked, Tricolor, Stopped, RootsMarked, White, Black, Gray
<1>3. NothingReachableFreed
  <2>1. Rooted \subseteq {}
    BY DEF Init, Rooted, Registered
  <2>. QED
    BY <2>1, ReachableBelow DEF NothingReachableFreed
<1>. QED
  BY <1>1, <1>2, <1>3 DEF SafeInv, Safe

\* Every step keeps the types.
LEMMA TypeStep == TypeOK /\ [Next]_vars => TypeOK'
<1> SUFFICES ASSUME TypeOK, [Next]_vars PROVE TypeOK'
  OBVIOUS
<1> USE DEF TypeOK
<1>1. ASSUME NEW t \in Threads, Register(t) \/ Unregister(t) PROVE TypeOK'
  BY <1>1 DEF Register, Unregister, heap, sync, gc, Runs
<1>2. ASSUME NEW t \in Threads, Alloc(t) PROVE TypeOK'
  BY <1>2, HeapAssumption DEF Alloc, heap, sync, gc, Runs, White, Black, New, Gray
<1>3. ASSUME NEW t \in Threads, Store(t) PROVE TypeOK'
  BY <1>3 DEF Store, Pushed, Remembering, heap, sync, gc, Runs, White, Black, New, Gray
<1>4. ASSUME NEW t \in Threads, Load(t) \/ Drop(t) PROVE TypeOK'
  BY <1>4 DEF Load, Drop, heap, sync, gc, Runs
<1>5. ASSUME NEW t \in Threads, Arrive(t) \/ EnterNative(t) \/ SeeResumed(t) \/ Leave(t) PROVE TypeOK'
  BY <1>5 DEF Arrive, EnterNative, SeeResumed, Leave, heap, sync, gc, Runs
<1>6. ASSUME NEW t \in Threads, Start(t) PROVE TypeOK'
  BY <1>6 DEF Start, heap, sync, gc, Runs
<1>7. CASE Counted \/ StopAgain
  BY <1>7 DEF Counted, StopAgain, heap, sync, gc
<1>8. CASE FirstScan \/ MarkOne \/ LastScan
  BY <1>8 DEF FirstScan, MarkOne, LastScan, Pushed, heap, sync, gc, White, Black, New, Gray
<1>9. CASE Sweep
  <2>1. used' \subseteq used /\ inRS' \subseteq Objs /\ ref' \in [Objs -> Objs \cup {Nil}]
    BY <1>9 DEF Sweep, SweepKept, Keep, KeptMajor, KeptMinor, Young, Survivors
  <2>2. age' \in [Objs -> 0..PromoteAge]
    <3>1. \A o \in Survivors : age[o] + 1 \in 0..PromoteAge
      BY HeapAssumption DEF Survivors, Young
    <3>. QED
      BY <1>9, <3>1, HeapAssumption DEF Sweep, SweepKept, Keep
  <2>. QED
    BY <1>9, <2>1, <2>2 DEF Sweep, Resume, White
<1>10. CASE UNCHANGED vars
  BY <1>10 DEF vars, heap, sync, gc
<1>. QED
  BY <1>1, <1>2, <1>3, <1>4, <1>5, <1>6, <1>7, <1>8, <1>9, <1>10 DEF Next

\* Only running threads are not at a safepoint, and a sweep holds the mutex.
LEMMA ThreadStep == TypeOK /\ ThreadInv /\ [Next]_vars => ThreadInv'
<1> SUFFICES ASSUME TypeOK, ThreadInv, [Next]_vars PROVE ThreadInv'
  OBVIOUS
<1> USE DEF TypeOK, ThreadInv, Runs
<1>1. ASSUME NEW t \in Threads, Register(t) \/ Unregister(t) PROVE ThreadInv'
  BY <1>1 DEF Register, Unregister, heap, sync, gc
<1>2. ASSUME NEW t \in Threads, Alloc(t) \/ Store(t) \/ Load(t) \/ Drop(t) PROVE ThreadInv'
  BY <1>2 DEF Alloc, Store, Load, Drop, heap, sync, gc
<1>3. ASSUME NEW t \in Threads, Arrive(t) \/ EnterNative(t) \/ SeeResumed(t) \/ Leave(t) PROVE ThreadInv'
  BY <1>3 DEF Arrive, EnterNative, SeeResumed, Leave, heap, sync, gc
<1>4. ASSUME NEW t \in Threads, Start(t) PROVE ThreadInv'
  BY <1>4 DEF Start, heap, sync, gc
<1>5. CASE Counted
  BY <1>5 DEF Counted, sync
<1>6. CASE MarkOne \/ LastScan
  BY <1>6 DEF MarkOne, LastScan, sync
<1>7. CASE FirstScan \/ StopAgain
  <2>1. phase # "idle" => pc[Collector] = "collect"
    BY DEF Collector
  <2>. QED
    BY <1>7, <2>1 DEF FirstScan, StopAgain
<1>8. CASE Sweep
  <2>1. \A t \in Threads : pc'[t] = IF t = Collector THEN "run" ELSE pc[t]
    BY <1>8 DEF Sweep, Resume
  <2>2. \A t \in Threads : safe'[t] = IF t = Collector THEN FALSE ELSE safe[t]
    BY <1>8 DEF Sweep, Resume
  <2>3. phase' = "idle" /\ roots' = roots
    BY <1>8 DEF Sweep, Resume
  <2>. QED
    BY <2>1, <2>2, <2>3
<1>9. CASE UNCHANGED vars
  BY <1>9 DEF vars, heap, sync, gc
<1>. QED
  BY <1>1, <1>2, <1>3, <1>4, <1>5, <1>6, <1>7, <1>8, <1>9 DEF Next

\* Marks are made only while the collection marks, and a sweep takes all of them.
LEMMA MarksStep == TypeOK /\ MarksEnd /\ [Next]_vars => MarksEnd'
<1> SUFFICES ASSUME TypeOK, MarksEnd, [Next]_vars PROVE MarksEnd'
  OBVIOUS
<1> USE DEF TypeOK, MarksEnd, Marked, White, Black, New, Gray
<1>1. ASSUME NEW t \in Threads, Alloc(t) \/ Store(t) PROVE MarksEnd'
  BY <1>1 DEF Alloc, Store, Pushed, heap, sync, gc
<1>2. ASSUME NEW t \in Threads,
             \/ Register(t) \/ Unregister(t) \/ Load(t) \/ Drop(t)
             \/ Arrive(t) \/ EnterNative(t) \/ SeeResumed(t) \/ Leave(t) \/ Start(t)
      PROVE  MarksEnd'
  BY <1>2 DEF Register, Unregister, Load, Drop, Arrive, EnterNative, SeeResumed, Leave, Start, heap, sync, gc
<1>3. CASE Counted \/ FirstScan \/ MarkOne \/ StopAgain \/ LastScan
  BY <1>3 DEF Counted, FirstScan, MarkOne, StopAgain, LastScan, Pushed, heap, sync, gc
<1>4. CASE Sweep
  BY <1>4 DEF Sweep, Resume
<1>5. CASE UNCHANGED vars
  BY <1>5 DEF vars, heap, sync, gc
<1>. QED
  BY <1>1, <1>2, <1>3, <1>4, <1>5 DEF Next

\* What the threads do keeps the black objects from white ones and gives nobody an
\* object that has been freed.
LEMMA ThreadsSafe ==
  ASSUME TypeOK, ThreadInv, MarksEnd, Safe, NEW t \in Threads, ~slipped',
         \/ Register(t) \/ Unregister(t) \/ Alloc(t) \/ Store(t) \/ Load(t) \/ Drop(t)
         \/ Arrive(t) \/ EnterNative(t) \/ SeeResumed(t) \/ Leave(t) \/ Start(t)
  PROVE  Safe'
<1>1. Rooted \subseteq Reachable /\ Reachable \in SUBSET Objs
      /\ \A o \in Reachable : ref[o] \in Reachable \cup {Nil}
  BY ReachableClosed DEF Closed
<1>2. \A u \in Threads : Runs(u) => roots[u] \subseteq Reachable
  BY <1>1 DEF Rooted, Registered, Runs
<1>3. CASE Alloc(t)
  <2>1. PICK o \in Objs \ used :
          /\ used' = used \cup {o} /\ ref' = [ref EXCEPT ![o] = Nil]
          /\ marked' = [marked EXCEPT ![o] = IF marking THEN Black ELSE New]
          /\ roots' = [roots EXCEPT ![t] = @ \cup {o}]
    BY <1>3 DEF Alloc
  <2>2. Runs(t) /\ phase' = phase /\ marking' = marking /\ pc' = pc
    BY <1>3 DEF Alloc, sync, gc
  <2>3. phase \notin {"counted", "recounted", "final"}
    BY <2>2 DEF Safe, Stopped
  <2>4. Tricolor'
    BY <2>1, <2>2, <2>3 DEF Safe, Tricolor, Marked, TypeOK, White, Black, New, Gray
  <2>5. Rooted' \subseteq Reachable \cup {o}
    BY <1>1, <1>2, <2>1, <2>2 DEF Rooted, Registered, TypeOK
  <2>6. \A x \in Reachable \cup {o} : ref'[x] \in (Reachable \cup {o}) \cup {Nil}
    BY <1>1, <2>1 DEF TypeOK
  <2>7. Reachable' \subseteq Reachable \cup {o}
    <3>1. Reachable \cup {o} \in SUBSET Objs
      BY <1>1
    <3>. QED
      BY <2>5, <2>6, <3>1, ReachableBelow
  <2>. QED
    BY <2>1, <2>2, <2>3, <2>4, <2>7 DEF Safe, Stopped, RootsMarked, NothingReachableFreed
<1>4. CASE Store(t)
  <2>1. PICK x \in roots[t], y \in roots[t] \cup {Nil} :
          /\ marked' = IF marking THEN Pushed({y}) ELSE marked
          /\ ref' = [ref EXCEPT ![x] = y]
    BY <1>4 DEF Store
  <2>2. Runs(t) /\ phase' = phase /\ marking' = marking /\ pc' = pc /\ roots' = roots /\ used' = used
    BY <1>4 DEF Store, sync, gc
  <2>3. phase \notin {"counted", "recounted", "final"}
    BY <2>2 DEF Safe, Stopped
  <2>4. x \in Objs /\ y \in Objs \cup {Nil} /\ x \in Reachable /\ y \in Reachable \cup {Nil}
    BY <1>2, <2>1, <2>2 DEF TypeOK
  <2>5. Tricolor'
    BY <2>1, <2>2, <2>3, <2>4 DEF Safe, Tricolor, Marked, Pushed, TypeOK, White, Black, New, Gray
  <2>6. Rooted' \subseteq Reachable
    BY <1>1, <2>2 DEF Rooted, Registered
  <2>7. \A o \in Reachable : ref'[o] \in Reachable \cup {Nil}
    BY <1>1, <2>1, <2>4 DEF TypeOK
  <2>. QED
    BY <1>1, <2>2, <2>3, <2>5, <2>6, <2>7, ReachableBelow DEF Safe, Stopped, RootsMarked, NothingReachableFreed
<1>5. CASE Load(t) \/ Drop(t)
  <2>1. /\ Runs(t) /\ phase' = phase /\ marking' = marking /\ pc' = pc /\ used' = used
        /\ marked' = marked /\ ref' = ref
    BY <1>5 DEF Load, Drop, heap, sync, gc
  <2>2. phase \notin {"counted", "recounted", "final"}
    BY <2>1 DEF Safe, Stopped
  <2>3. Tricolor'
    BY <2>1 DEF Safe, Tricolor, Marked
  <2>4. \A u \in Threads : u # t => roots'[u] = roots[u]
    BY <1>5 DEF Load, Drop, TypeOK
  <2>5. roots'[t] \subseteq Reachable
    BY <1>1, <1>2, <1>5, <2>1 DEF Load, Drop, TypeOK
  <2>6. Rooted' \subseteq Reachable
    BY <1>1, <2>1, <2>4, <2>5 DEF Rooted, Registered
  <2>. QED
    BY <1>1, <2>1, <2>2, <2>3, <2>6, ReachableBelow DEF Safe, Stopped, RootsMarked, NothingReachableFreed
<1>6. CASE Register(t) \/ Unregister(t)
  <2>1. phase' = phase /\ marking' = marking /\ used' = used /\ marked' = marked /\ ref' = ref
    BY <1>6 DEF Register, Unregister, heap, gc
  <2>2. phase \notin {"counted", "recounted", "final"}
    BY <1>6 DEF Register, Unregister, Safe, Stopped, ThreadInv, Uncovered
  <2>3. Tricolor'
    BY <2>1 DEF Safe, Tricolor, Marked
  <2>4. \A u \in Threads : roots'[u] \subseteq roots[u] /\ (pc'[u] # "none" /\ pc[u] = "none" => roots[u] = {})
    BY <1>6 DEF Register, Unregister, ThreadInv, TypeOK
  <2>5. Rooted' \subseteq Reachable
    BY <1>1, <2>4 DEF Rooted, Registered
  <2>. QED
    BY <1>1, <2>1, <2>2, <2>3, <2>5, ReachableBelow DEF Safe, Stopped, RootsMarked, NothingReachableFreed
<1>7. CASE Arrive(t) \/ EnterNative(t) \/ SeeResumed(t) \/ Leave(t) \/ Start(t)
  <2>1. marking' = marking /\ used' = used /\ marked' = marked /\ ref' = ref /\ roots' = roots
    BY <1>7 DEF Arrive, EnterNative, SeeResumed, Leave, Start, heap, gc
  <2>2. Registered' = Registered
    BY <1>7 DEF Arrive, EnterNative, SeeResumed, Leave, Start, Registered, TypeOK, Runs
  <2>3. Stopped' /\ (phase' = "final" => phase = "final")
    BY <1>7 DEF Arrive, EnterNative, SeeResumed, Leave, Start, Safe, Stopped, Runs, TypeOK, gc, Uncovered, ThreadInv
  <2>4. Tricolor' /\ RootsMarked'
    BY <2>1, <2>2, <2>3 DEF Safe, Tricolor, Marked, RootsMarked, Rooted
  <2>5. Rooted' \subseteq Reachable
    BY <1>1, <2>1, <2>2 DEF Rooted
  <2>. QED
    BY <1>1, <2>1, <2>3, <2>4, <2>5, ReachableBelow DEF Safe, NothingReachableFreed
<1>. QED
  BY <1>3, <1>4, <1>5, <1>6, <1>7

\* The collector marks what the threads hold and what marked objects refer to, so that
\* all that is reachable is black when nothing is gray, and the sweep keeps it.
LEMMA CollectorSafe ==
  ASSUME TypeOK, ThreadInv, MarksEnd, Safe, ~slipped',
         Counted \/ FirstScan \/ MarkOne \/ StopAgain \/ LastScan \/ Sweep
  PROVE  Safe'
<1>1. Rooted \subseteq Reachable /\ Reachable \in SUBSET Objs
      /\ \A o \in Reachable : ref[o] \in Reachable \cup {Nil}
  BY ReachableClosed DEF Closed
<1>2. ASSUME Rooted' = Rooted, ref' = ref, used' = used PROVE NothingReachableFreed'
  BY <1>1, <1>2, ReachableBelow DEF Safe, NothingReachableFreed
<1>3. CASE Counted
  <2>1. Stopped'
    BY <1>3 DEF Counted, Stopped, sync, Runs, ThreadInv, Registered
  <2>2. marking' = marking /\ marked' = marked /\ ref' = ref /\ phase' # "final" /\ phase # "final"
    BY <1>3 DEF Counted, heap
  <2>3. Tricolor' /\ RootsMarked'
    BY <2>2 DEF Safe, Tricolor, Marked, RootsMarked
  <2>4. Rooted' = Rooted
    BY <1>3 DEF Counted, sync, Rooted, Registered
  <2>. QED
    BY <1>2, <1>3, <2>1, <2>3, <2>4 DEF Safe, Counted, heap
<1>4. CASE FirstScan \/ StopAgain
  <2>1. Stopped' /\ RootsMarked'
    BY <1>4 DEF FirstScan, StopAgain, Stopped, RootsMarked
  <2>2. Tricolor'
    BY <1>4 DEF FirstScan, StopAgain, heap, Safe, MarksEnd, Tricolor, Marked, Pushed, TypeOK, White, Black, New, Gray
  <2>3. Rooted' = Rooted
    BY <1>4 DEF FirstScan, StopAgain, Rooted, Registered
  <2>. QED
    BY <1>2, <1>4, <2>1, <2>2, <2>3 DEF Safe, FirstScan, StopAgain, heap
<1>5. CASE MarkOne
  <2>1. PICK o \in Objs : marked[o] = Gray /\ marked' = [Pushed({ref[o]}) EXCEPT ![o] = Black]
    BY <1>5 DEF MarkOne
  <2>2. Marked \subseteq Marked' /\ ref[o] \in Marked' \cup {Nil}
    BY <2>1 DEF Marked, Pushed, TypeOK, White, Black, New, Gray
  <2>3. \A x \in Objs : marked'[x] = Black => x = o \/ marked[x] = Black
    BY <2>1 DEF Pushed, TypeOK, White, Black, New, Gray
  <2>4. ref' = ref /\ marking' = marking /\ phase' = phase /\ Rooted' = Rooted /\ used' = used /\ pc' = pc
    BY <1>5 DEF MarkOne, sync, Rooted, Registered
  <2>5. Tricolor' /\ RootsMarked' /\ Stopped'
    BY <2>2, <2>3, <2>4 DEF Safe, Tricolor, RootsMarked, Stopped, Runs
  <2>. QED
    BY <1>2, <2>4, <2>5 DEF Safe
<1>6. CASE LastScan
  <2>1. PICK S : Rooted \subseteq S /\ marked' = Pushed(S)
    BY <1>6 DEF LastScan
  <2>2. ref' = ref /\ phase = "recounted" /\ Rooted' = Rooted /\ used' = used /\ pc' = pc /\ marking' = marking
    BY <1>6 DEF LastScan, sync, Rooted, Registered
  <2>3. Marked \subseteq Marked' /\ \A o \in Objs : marked'[o] = Black => marked[o] = Black
    BY <2>1 DEF Marked, Pushed, TypeOK, White, Black, New, Gray
  <2>4. Rooted \subseteq Marked'
    BY <1>1, <2>1 DEF Marked, Pushed, TypeOK, White, Black, New, Gray
  <2>5. \A o \in Objs : marked[o] = Black => ref[o] \in Marked \cup {Nil}
    BY <2>2 DEF Safe, Tricolor, MarksEnd, Marked
  <2>6. Tricolor' /\ RootsMarked' /\ Stopped'
    BY <2>2, <2>3, <2>4, <2>5 DEF Safe, Tricolor, RootsMarked, Stopped, Runs
  <2>. QED
    BY <1>2, <2>2, <2>6 DEF Safe
<1>7. CASE Sweep
  <2> DEFINE B == {o \in Objs : marked[o] = Black}
  <2>1. Rooted \subseteq B
    BY <1>7 DEF Sweep, Safe, RootsMarked, Marked, NothingGray
  <2>2. \A o \in B : ref[o] \in B \cup {Nil}
    BY <1>7 DEF Sweep, Safe, Tricolor, Marked, NothingGray
  <2>3. Reachable \subseteq B /\ Reachable \subseteq used
    BY <2>1, <2>2, ReachableBelow DEF Safe, NothingReachableFreed
  <2>4. Reachable \subseteq used'
    BY <1>7, <2>3, HeapAssumption DEF Sweep, SweepKept, Keep, KeptMajor, KeptMinor, Young, Survivors, White, Black
  <2>5. \A o \in Reachable : ref'[o] = ref[o]
    BY <1>1, <1>7, <2>4 DEF Sweep, SweepKept, Keep
  <2>6. Rooted' \subseteq Rooted
    BY <1>7 DEF Sweep, Resume, Rooted, Registered, ThreadInv, TypeOK
  <2>7. Reachable' \subseteq Reachable
    BY <1>1, <2>5, <2>6, ReachableBelow
  <2>8. marking' = FALSE /\ phase' = "idle"
    BY <1>7 DEF Sweep, Resume
  <2>. QED
    BY <2>4, <2>7, <2>8 DEF Safe, Tricolor, Stopped, RootsMarked, NothingReachableFreed
<1>. QED
  BY <1>3, <1>4, <1>5, <1>6, <1>7

\* Every step keeps the invariant; once a thread has slipped nothing is claimed.
LEMMA SafeStep == SafeInv /\ [Next]_vars => SafeInv'
<1> SUFFICES ASSUME SafeInv, [Next]_vars PROVE SafeInv'
  OBVIOUS
<1>1. TypeOK' /\ ThreadInv' /\ MarksEnd'
  BY TypeStep, ThreadStep, MarksStep DEF SafeInv
<1>2. ~slipped' => ~slipped
  BY DEF SafeInv, TypeOK, Next, Register, Unregister, Alloc, Store, Load, Drop, Arrive, EnterNative, SeeResumed,
     Leave, Start, Counted, FirstScan, MarkOne, StopAgain, LastScan, Sweep, Resume, vars, sync
<1>3. ASSUME ~slipped', Next PROVE Safe'
  BY <1>2, <1>3, ThreadsSafe, CollectorSafe DEF SafeInv, Next
<1>4. ASSUME ~slipped', UNCHANGED vars PROVE Safe'
  <2>1. Safe
    BY <1>2, <1>4 DEF SafeInv
  <2>2. Rooted' = Rooted /\ UNCHANGED <<pc, phase, marking, marked, ref, used>>
    BY <1>4 DEF vars, heap, sync, gc, Rooted, Registered
  <2>3. Reachable' = Reachable
    BY <2>2 DEF Reachable, Closed
  <2>. QED
    BY <2>1, <2>2, <2>3 DEF Safe, Tricolor, Marked, Stopped, Runs, RootsMarked, NothingReachableFreed
<1>. QED
  BY <1>1, <1>3, <1>4 DEF SafeInv

\* The heap's invariant holds in every state.
THEOREM HeapInvariance == Spec => []SafeInv
BY HeapInit, SafeStep, PTL DEF Spec

\* KeepsReachable: as long as no thread has begun to run between the collector's count
\* and its scan, nothing that a thread can get at has been freed
\* (gc_write_barrier_impl, gc_scan_roots_to_stack, gc_sweep, gc_sweep_minor).
THEOREM NothingLost == Spec => []KeepsReachable
<1>1. SafeInv => KeepsReachable
  BY DEF SafeInv, Safe, KeepsReachable
<1>. QED
  BY <1>1, HeapInvariance, PTL

-----------------------------------------------------------------------------
(* What was garbage when the collection began                              *)

\* T keeps clear of the garbage and has all that can be reached or has been marked.
Separates(T) == /\ Rooted \subseteq T /\ Marked \subseteq T
                /\ \A o \in T : ref[o] \in T \cup {Nil}
                /\ T \cap garbage = {}

\* In a major collection garbage stays white because nothing marked or reachable leads to it.
GarbageInv == /\ phase = "idle" => ~marking /\ garbage = {}
              /\ kind = "major" => /\ \A o \in garbage : marked[o] = White
                                   /\ \E T \in SUBSET Objs : Separates(T)

\* Without garbage to keep clear of there is such a set.
LEMMA NoGarbage == TypeOK /\ garbage = {} => \E T \in SUBSET Objs : Separates(T)
<1> SUFFICES ASSUME TypeOK, garbage = {} PROVE Separates(Objs)
  OBVIOUS
<1>. QED
  BY DEF Separates, Rooted, Registered, Marked, TypeOK

\* The same, after a step.
LEMMA NoGarbageNext == TypeOK' /\ garbage' = {} => \E T \in SUBSET Objs : Separates(T)'
<1> SUFFICES ASSUME TypeOK', garbage' = {} PROVE Separates(Objs)'
  OBVIOUS
<1>. QED
  BY DEF Separates, Rooted, Registered, Marked, TypeOK

\* Threads move about only what they can reach, and the barrier marks only that.
LEMMA GarbageThreads ==
  ASSUME TypeOK, ThreadInv, MarksEnd, GarbageInv, NEW t \in Threads,
         \/ Register(t) \/ Unregister(t) \/ Alloc(t) \/ Store(t) \/ Load(t) \/ Drop(t)
         \/ Arrive(t) \/ EnterNative(t) \/ SeeResumed(t) \/ Leave(t) \/ Start(t)
  PROVE  GarbageInv'
<1> USE DEF TypeOK
<1>1. CASE Start(t)
  <2>1. /\ phase = "idle" /\ phase' # "idle"
        /\ garbage' = {o \in used \ Reachable : marked[o] # New}
        /\ UNCHANGED <<ref, marked, roots, marking>>
    BY <1>1 DEF Start, heap
  <2>2. Marked = {}
    BY <2>1 DEF GarbageInv, MarksEnd
  <2>3. Rooted' = Rooted
    BY <1>1 DEF Start, Rooted, Registered, Runs
  <2> PICK R \in SUBSET Objs : R = Reachable
    BY ReachableClosed
  <2>4. Separates(R)'
    BY <2>1, <2>2, <2>3, ReachableClosed DEF Separates, Closed, Marked
  <2>5. \A o \in garbage' : marked'[o] = White
    BY <2>1, <2>2 DEF Marked
  <2>. QED
    BY <2>1, <2>4, <2>5 DEF GarbageInv
<1>2. ASSUME ~Start(t) PROVE UNCHANGED <<phase, marking, kind, garbage>>
  BY <1>2 DEF Register, Unregister, Alloc, Store, Load, Drop, Arrive, EnterNative, SeeResumed, Leave, gc
<1> SUFFICES ASSUME ~Start(t), kind = "major", NEW T \in SUBSET Objs, Separates(T)
             PROVE  (\A o \in garbage : marked'[o] = White) /\ \E U \in SUBSET Objs : Separates(U)'
  BY <1>1, <1>2 DEF GarbageInv
<1>3. /\ \A u \in Threads : Runs(u) => roots[u] \subseteq T
      /\ \A o \in garbage : marked[o] = White
      /\ garbage' = garbage
  BY <1>2 DEF Separates, Rooted, Registered, Runs, GarbageInv
<1>4. CASE Alloc(t)
  <2>1. PICK o \in Objs \ used :
          /\ ref' = [ref EXCEPT ![o] = Nil]
          /\ marked' = [marked EXCEPT ![o] = IF marking THEN Black ELSE New]
          /\ roots' = [roots EXCEPT ![t] = @ \cup {o}]
    BY <1>4 DEF Alloc
  <2>2. Runs(t) /\ pc' = pc
    BY <1>4 DEF Alloc, sync
  <2>3. Separates(T \cup {o})'
    BY <1>3, <2>1, <2>2 DEF Separates, Rooted, Registered, Marked, White, Black, New, Gray
  <2>. QED
    BY <1>3, <2>1, <2>3
<1>5. CASE Store(t)
  <2>1. PICK x \in roots[t], y \in roots[t] \cup {Nil} :
          /\ marked' = IF marking THEN Pushed({y}) ELSE marked
          /\ ref' = [ref EXCEPT ![x] = y]
    BY <1>5 DEF Store
  <2>2. Runs(t) /\ pc' = pc /\ roots' = roots
    BY <1>5 DEF Store, sync
  <2>3. x \in T /\ y \in T \cup {Nil}
    BY <1>3, <2>1, <2>2
  <2>4. Marked' \subseteq T /\ \A o \in garbage : marked'[o] = White
    BY <1>3, <2>1, <2>3, HeapAssumption DEF Separates, Marked, Pushed, White, Black, New, Gray
  <2>5. Rooted' = Rooted
    BY <2>2 DEF Rooted, Registered
  <2>6. \A o \in T : ref'[o] \in T \cup {Nil}
    BY <2>1, <2>3 DEF Separates
  <2>. QED
    BY <1>3, <2>4, <2>5, <2>6 DEF Separates
<1>6. CASE Register(t) \/ Unregister(t) \/ Load(t) \/ Drop(t)
           \/ Arrive(t) \/ EnterNative(t) \/ SeeResumed(t) \/ Leave(t)
  <2>1. UNCHANGED <<marked, ref>>
    BY <1>6 DEF Register, Unregister, Load, Drop, Arrive, EnterNative, SeeResumed, Leave, heap
  <2>2. \A u \in Threads : pc'[u] # "none" => roots'[u] \subseteq T
    <3>1. CASE Register(t) \/ Unregister(t)
      BY <3>1 DEF Register, Unregister, Separates, Rooted, Registered, ThreadInv
    <3>2. CASE Load(t)
      BY <1>3, <3>2 DEF Load, Separates, Rooted, Registered, sync
    <3>3. CASE Drop(t)
      BY <1>3, <3>3 DEF Drop, Separates, Rooted, Registered, sync
    <3>4. CASE Arrive(t) \/ EnterNative(t) \/ SeeResumed(t) \/ Leave(t)
      BY <3>4 DEF Arrive, EnterNative, SeeResumed, Leave, Separates, Rooted, Registered, Runs
    <3>. QED
      BY <1>6, <3>1, <3>2, <3>3, <3>4
  <2>3. Rooted' \subseteq T
    BY <2>2 DEF Rooted, Registered
  <2>. QED
    BY <1>3, <2>1, <2>3 DEF Separates, Marked
<1>. QED
  BY <1>4, <1>5, <1>6

\* The collector marks only roots and what marked objects refer to.
LEMMA GarbageCollector ==
  ASSUME TypeOK, TypeOK', GarbageInv,
         Counted \/ FirstScan \/ MarkOne \/ StopAgain \/ LastScan \/ Sweep
  PROVE  GarbageInv'
<1>1. CASE Sweep
  <2>1. garbage' = {} /\ marking' = FALSE
    BY <1>1 DEF Sweep, Resume
  <2>. QED
    BY <2>1, NoGarbageNext DEF GarbageInv
<1>2. ASSUME ~Sweep PROVE phase' # "idle" /\ UNCHANGED <<kind, garbage, ref, roots, pc>>
  BY <1>2 DEF Counted, FirstScan, MarkOne, StopAgain, LastScan, heap, sync
<1> SUFFICES ASSUME ~Sweep, kind = "major", NEW T \in SUBSET Objs, Separates(T)
             PROVE  (\A o \in garbage : marked'[o] = White) /\ Marked' \subseteq T
  BY <1>1, <1>2 DEF GarbageInv, Separates, Rooted, Registered
<1> USE DEF TypeOK, GarbageInv, Separates, Marked, Pushed, White, Black, New, Gray
<1>3. CASE Counted \/ StopAgain
  BY <1>3 DEF Counted, StopAgain, heap
<1>4. CASE FirstScan \/ LastScan
  BY <1>4 DEF FirstScan, LastScan
<1>5. CASE MarkOne
  <2>1. PICK o \in Objs : marked[o] = Gray /\ marked' = [Pushed({ref[o]}) EXCEPT ![o] = Black]
    BY <1>5 DEF MarkOne
  <2>2. o \in T /\ ref[o] \in T \cup {Nil}
    BY <2>1
  <2>. QED
    BY <2>1, <2>2, HeapAssumption
<1>. QED
  BY <1>3, <1>4, <1>5

\* What was garbage when a collection began stays so until the sweep.
THEOREM GarbageInvariance == Spec => [](SafeInv /\ GarbageInv)
<1>1. Init => GarbageInv
  <2> SUFFICES ASSUME Init PROVE GarbageInv
    OBVIOUS
  <2>. QED
    BY HeapInit, NoGarbage DEF SafeInv, Init, GarbageInv
<1>2. SafeInv /\ GarbageInv /\ [Next]_vars => GarbageInv'
  <2> SUFFICES ASSUME SafeInv, GarbageInv, [Next]_vars PROVE GarbageInv'
    OBVIOUS
  <2>1. CASE Next
    BY <2>1, TypeStep, GarbageThreads, GarbageCollector DEF SafeInv, Next
  <2>2. CASE UNCHANGED vars
    BY <2>2 DEF vars, heap, sync, gc, GarbageInv, Separates, Marked, Rooted, Registered
  <2>. QED
    BY <2>1, <2>2
<1>. QED
  BY <1>1, <1>2, HeapInit, SafeStep, PTL DEF Spec

\* GarbageGoes: a major sweep leaves nothing that no thread could get at when the
\* collection began, except what was new since the last sweep.
THEOREM NothingHoarded == Spec => GarbageGoes
<1>1. GarbageInv => (Sweep /\ kind = "major" /\ ~slipped => garbage \cap used' = {})
  BY DEF GarbageInv, Sweep, SweepKept, Keep, KeptMajor
<1>. QED
  BY <1>1, GarbageInvariance, PTL DEF GarbageGoes

=============================================================================
