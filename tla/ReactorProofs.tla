---------------------------- MODULE ReactorProofs ----------------------------
(***************************************************************************)
(* A wait for a descriptor that has ended wakes its coroutine, its context *)
(* is freed once, nobody else's registration is taken away, and the loop   *)
(* does not go to sleep on work, for any coroutines, numbers, budget and   *)
(* numbers of waits and calls, as long as the pool of connections has one  *)
(* for each coroutine.                                                     *)
(***************************************************************************)
EXTENDS Reactor, FiniteSetTheorems, TLAPS

\* Beyond it lm_reactor_get_connection hands out a connection that may be in use.
Room == IsFiniteSet(Coroutines) /\ Cardinality(Coroutines) <= Capacity

Tags == {"nil", "ready", "timeout", "closed"}
Calls == {"armed", "running", "checked", "won", "posted"}

Members(q) == {q[i] : i \in 1..Len(q)}
Once(q) == \A i, j \in 1..Len(q) : q[i] = q[j] => i = j

Holds(c, k) == pc[c] = "parked" /\ conn[c] = k

Typed ==
    /\ ready \in Seq(Coroutines) /\ pc \in [Coroutines -> {"runs", "waits", "parked", "dead"}]
    /\ cur \in Coroutines \union {None} /\ target \in [Coroutines -> Fds \union {None}]
    /\ wait \in [Coroutines -> Waits \union {None}] /\ conn \in [Coroutines -> Conns \union {None}]
    /\ pipe \in BOOLEAN /\ stop \in BOOLEAN /\ waits \in 0 .. MaxWaits
    /\ free \in Seq(Conns) /\ word \in [Conns -> Coroutines \union Tags] /\ fresh \in [Conns -> BOOLEAN]
    /\ who \in [Conns -> Coroutines \union {None}] /\ fd \in [Conns -> Fds \union {None}]
    /\ fdMap \in [Fds -> Conns \union {None}] /\ reg \in [Fds -> Conns \union {None}]
    /\ open \in [Fds -> BOOLEAN] /\ data \in [Fds -> BOOLEAN] /\ edge \in [Fds -> BOOLEAN]
    /\ \A c \in Coroutines : /\ pc[c] = "waits" => target[c] \in Fds
                             /\ pc[c] = "parked" => wait[c] \in Waits /\ conn[c] \in Conns

\* A connection is free or somebody's, who is written on it.
ConnInv == /\ Once(free)
           /\ \A c \in Coroutines : pc[c] = "parked" => who[conn[c]] = c /\ conn[c] \notin Members(free)
           /\ \A k \in Conns : k \in Members(free) \/ \E c \in Coroutines : Holds(c, k)

\* A word that says somebody waits is of the wait he is in, and no event has been told of yet.
WordInv == \A k \in Conns :
    word[k] \in Coroutines => Holds(word[k], k) /\ who[k] = word[k] /\ fresh[k]

\* The table of owners names connections in use, and every registration of a number it has room for.
OwnerInv == \A f \in Fds :
    /\ fdMap[f] # None => f < Capacity /\ fd[fdMap[f]] = f /\ fdMap[f] \notin Members(free)
    /\ f < Capacity /\ reg[f] # None => fdMap[f] = reg[f]

Contexts == [st : Calls \union {"none", "over"}, conn : Conns \union {None},
             co : Coroutines \union {None}, fresh : BOOLEAN, frees : Nat]

TimerInv ==
    /\ timer \in [Waits -> Contexts]
    /\ \A w \in Waits :
           /\ w > waits => timer[w].st = "none"
           /\ timer[w].st \in Calls => timer[w].conn \in Conns /\ timer[w].co \in Coroutines /\ timer[w].frees = 0
           /\ timer[w].st = "none" => timer[w].frees = 0
           /\ timer[w].st = "over" => timer[w].frees = 1

\* A byte is in the pipe, or somebody is about to write one.
Roused == pipe \/ other = "woke" \/ \E w \in Waits : timer[w].st = "posted"

\* Whoever queues a coroutine or stops the loop while the loop is on its way to the poller rouses it.
PollInv == /\ loop # "drain" => cur = None
           /\ loop = "poll" /\ ready # <<>> => Roused
           /\ loop \in {"drain", "poll"} /\ stop => Roused

WaitInv == Typed /\ ConnInv /\ WordInv /\ OwnerInv /\ TimerInv /\ PollInv /\ EndedWaitWakes

\* When the loop is about to sleep, a queued coroutine or a stop has a byte in the pipe or on its way.
SleepsOnNothing == loop = "poll" /\ (ready # <<>> \/ stop) => Roused

-----------------------------------------------------------------------------
(* Sequences                                                               *)

\* A post puts a coroutine into the queue and leaves who is in it.
LEMMA Posting ==
  ASSUME NEW q \in Seq(Coroutines), NEW c \in Coroutines
  PROVE  /\ Posted(q, c) \in Seq(Coroutines) /\ Posted(q, c) # <<>>
         /\ Contains(Posted(q, c), c) /\ \A d : Contains(q, d) => Contains(Posted(q, c), d)
<1>1. CASE Contains(q, c)
  BY <1>1 DEF Posted, Contains
<1>2. CASE ~Contains(q, c)
  BY <1>2 DEF Posted, Contains
<1>. QED
  BY <1>1, <1>2

\* Whoever is in a queue and not its head is in its tail.
LEMMA Popping ==
  ASSUME NEW q \in Seq(Coroutines), q # <<>>
  PROVE  /\ Head(q) \in Coroutines /\ Tail(q) \in Seq(Coroutines)
         /\ \A d : Contains(q, d) /\ d # Head(q) => Contains(Tail(q), d)
<1>1. Head(q) \in Coroutines /\ Tail(q) \in Seq(Coroutines) /\ Len(Tail(q)) = Len(q) - 1 /\ Len(q) \in Nat \ {0}
      /\ Head(q) = q[1] /\ \A i \in 1..Len(Tail(q)) : Tail(q)[i] = q[i + 1]
  OBVIOUS
<1>2. ASSUME NEW d, NEW i \in 1..Len(q), q[i] = d, d # Head(q) PROVE \E j \in 1..Len(Tail(q)) : Tail(q)[j] = d
  <2>1. i - 1 \in 1..Len(Tail(q)) /\ Tail(q)[i - 1] = q[i]
    BY <1>1, <1>2
  <2>. QED
    BY <2>1, <1>2
<1>. QED
  BY <1>1, <1>2 DEF Contains

\* Taking the first of the free list takes that one.
LEMMA Taking ==
  ASSUME NEW S, NEW q \in Seq(S), q # <<>>, Once(q)
  PROVE  /\ Head(q) \in S /\ Head(q) \in Members(q) /\ Tail(q) \in Seq(S) /\ Once(Tail(q))
         /\ Members(Tail(q)) = Members(q) \ {Head(q)}
<1>1. Head(q) \in S /\ Tail(q) \in Seq(S) /\ Len(Tail(q)) = Len(q) - 1 /\ Len(q) \in Nat \ {0}
      /\ Head(q) = q[1] /\ \A i \in 1..Len(Tail(q)) : Tail(q)[i] = q[i + 1]
  OBVIOUS
<1>2. Once(Tail(q))
  <2>1. ASSUME NEW i \in 1..Len(Tail(q)), NEW j \in 1..Len(Tail(q)), Tail(q)[i] = Tail(q)[j] PROVE i = j
    <3>1. i + 1 \in 1..Len(q) /\ j + 1 \in 1..Len(q) /\ q[i + 1] = q[j + 1]
      BY <1>1, <2>1
    <3>2. i + 1 = j + 1
      BY <3>1 DEF Once
    <3>. QED
      BY <3>2
  <2>. QED
    BY <2>1 DEF Once
<1>3. ASSUME NEW x \in Members(Tail(q)) PROVE x \in Members(q) \ {Head(q)}
  <2>1. PICK i \in 1..Len(Tail(q)) : x = Tail(q)[i]
    BY DEF Members
  <2>2. i + 1 \in 1..Len(q) /\ x = q[i + 1] /\ 1 \in 1..Len(q) /\ i + 1 # 1
    BY <1>1, <2>1
  <2>3. x # q[1]
    BY <2>2 DEF Once
  <2>. QED
    BY <2>2, <2>3, <1>1 DEF Members
<1>4. ASSUME NEW x \in Members(q), x # Head(q) PROVE x \in Members(Tail(q))
  <2>1. PICK i \in 1..Len(q) : x = q[i]
    BY DEF Members
  <2>2. i - 1 \in 1..Len(Tail(q)) /\ Tail(q)[i - 1] = x
    BY <1>1, <2>1, <1>4
  <2>. QED
    BY <2>2 DEF Members
<1>5. Head(q) \in Members(q)
  BY <1>1 DEF Members
<1>. QED
  BY <1>1, <1>2, <1>3, <1>4, <1>5

\* Giving one back that was not there puts it before the others.
LEMMA GivingBack ==
  ASSUME NEW S, NEW q \in Seq(S), NEW x \in S, x \notin Members(q), Once(q)
  PROVE  /\ <<x>> \o q \in Seq(S) /\ Once(<<x>> \o q) /\ Members(<<x>> \o q) = Members(q) \union {x}
<1>. DEFINE r == <<x>> \o q
<1>1. r \in Seq(S) /\ Len(r) = Len(q) + 1 /\ Len(q) \in Nat /\ r[1] = x
      /\ \A i \in 1..Len(q) : r[i + 1] = q[i]
  OBVIOUS
<1>2. \A i \in 1..Len(r) : i = 1 \/ (i - 1 \in 1..Len(q) /\ r[i] = q[i - 1])
  <2>1. ASSUME NEW i \in 1..Len(r), i # 1 PROVE i - 1 \in 1..Len(q) /\ r[i] = q[i - 1]
    <3>1. i - 1 \in 1..Len(q)
      BY <1>1, <2>1
    <3>2. r[(i - 1) + 1] = q[i - 1] /\ (i - 1) + 1 = i
      BY <1>1, <3>1
    <3>. QED
      BY <3>1, <3>2
  <2>. QED
    BY <2>1
<1>. HIDE DEF r
<1>3. Members(r) = Members(q) \union {x}
  <2>1. \A i \in 1..Len(q) : i + 1 \in 1..Len(r) /\ 1 \in 1..Len(r)
    BY <1>1
  <2>2. 1 \in 1..Len(r)
    BY <1>1
  <2>3. ASSUME NEW y \in Members(r) PROVE y \in Members(q) \union {x}
    <3>1. PICK i \in 1..Len(r) : y = r[i]
      BY DEF Members
    <3>2. CASE i = 1
      BY <3>1, <3>2, <1>1
    <3>3. CASE i # 1
      <4>1. i - 1 \in 1..Len(q) /\ y = q[i - 1]
        BY <3>1, <3>3, <1>2
      <4>. QED
        BY <4>1 DEF Members
    <3>. QED
      BY <3>2, <3>3
  <2>4. ASSUME NEW y \in Members(q) PROVE y \in Members(r)
    <3>1. PICK i \in 1..Len(q) : y = q[i]
      BY DEF Members
    <3>. QED
      BY <3>1, <2>1, <1>1 DEF Members
  <2>5. x \in Members(r)
    BY <2>2, <1>1 DEF Members
  <2>. QED
    BY <2>3, <2>4, <2>5
<1>4. ASSUME NEW i \in 1..Len(r), NEW j \in 1..Len(r), r[i] = r[j] PROVE i = j
  <2>1. \A l \in 1..Len(q) : x # q[l]
    BY DEF Members
  <2>3. \A l \in 1..Len(r) : r[l] = x => l = 1
    BY <2>1, <1>2
  <2>4. CASE i = 1 \/ j = 1
    BY <2>4, <2>3, <1>1, <1>4
  <2>2. CASE i # 1 /\ j # 1
    <3>1. i - 1 \in 1..Len(q) /\ j - 1 \in 1..Len(q) /\ q[i - 1] = q[j - 1]
      BY <1>2, <1>4, <2>2
    <3>2. i - 1 = j - 1
      BY <3>1 DEF Once
    <3>. QED
      BY <3>2
  <2>. QED
    BY <2>4, <2>2
<1>5. Once(r)
  BY <1>4 DEF Once
<1>. QED
  BY <1>1, <1>3, <1>5 DEF r

\* As long as some coroutine holds no connection, one is free.
LEMMA SomeFree ==
  ASSUME Room, Typed, ConnInv, NEW c \in Coroutines, pc[c] # "parked"
  PROVE  free # <<>>
<1>. SUFFICES ASSUME free = <<>> PROVE FALSE
  OBVIOUS
<1>. DEFINE others == Coroutines \ {c}
            holder == [k \in Conns |-> who[k]]
<1>1. Members(free) = {}
  BY DEF Members
<1>2. \A k \in Conns : who[k] \in others /\ conn[who[k]] = k
  BY <1>1 DEF ConnInv, Holds
<1>3. holder \in Injection(Conns, others)
  BY <1>2 DEF Injection, IsInjective
<1>4. IsFiniteSet(others) /\ Cardinality(others) = Cardinality(Coroutines) - 1
  BY FS_RemoveElement DEF Room
<1>5. Cardinality(Conns) <= Cardinality(others)
  BY <1>3, <1>4, FS_Injection
<1>6. Capacity \in Nat
  BY ReactorAssumption
<1>7. Cardinality(Conns) = Capacity
  BY <1>6, FS_Interval DEF Conns
<1>8. Cardinality(Coroutines) \in Nat
  BY FS_CardinalityType DEF Room
<1>. QED
  BY <1>4, <1>5, <1>6, <1>7, <1>8 DEF Room

-----------------------------------------------------------------------------
(* What a step leaves alone                                                *)

\* Each part of the invariant speaks of these variables only.
LEMMA Stays ==
  /\ ConnInv /\ UNCHANGED <<free, pc, conn, who>> => ConnInv'
  /\ WordInv /\ UNCHANGED <<word, pc, conn, who, fresh>> => WordInv'
  /\ OwnerInv /\ UNCHANGED <<fdMap, fd, free, reg>> => OwnerInv'
  /\ TimerInv /\ UNCHANGED <<timer, waits>> => TimerInv'
  /\ PollInv /\ UNCHANGED <<loop, cur, ready, pipe, other, timer, stop>> => PollInv'
  /\ EndedWaitWakes /\ UNCHANGED <<pc, cur, word, conn, ready, timer>> => EndedWaitWakes'
BY DEF ConnInv, Holds, Members, Once, WordInv, OwnerInv, TimerInv, PollInv, Roused, EndedWaitWakes, Parked, Contains

\* A timer that was about to wake somebody still is.
Follows(new) == \A w \in Waits : timer[w].st = "won" => new[w].st = "won" /\ new[w].co = timer[w].co

\* The queue grows, nobody begins a wait or leaves the thread, and the timers go on: no ended wait is forgotten.
LEMMA StillWakes ==
  ASSUME EndedWaitWakes, Follows(timer'),
         \A c \in Coroutines : Contains(ready, c) => Contains(ready', c),
         \A c \in Coroutines : Parked(c)' =>
            \/ ~(word'[conn'[c]] # c)
            \/ Contains(ready', c)
            \/ Parked(c) /\ word[conn[c]] # c
  PROVE  EndedWaitWakes'
BY DEF EndedWaitWakes, Follows

-----------------------------------------------------------------------------
(* Initially                                                               *)

\* Nobody waits and every connection is free.
LEMMA Begins == Room /\ Init => WaitInv
<1>. SUFFICES ASSUME Room, Init PROVE WaitInv
  OBVIOUS
<1>. USE ReactorAssumption
<1>1. ready \in Seq(Coroutines)
  <2>1. ExistsBijection(1..Cardinality(Coroutines), Coroutines) /\ Cardinality(Coroutines) \in Nat
    BY FS_CardinalityType DEF Room
  <2>2. PICK f \in [1..Cardinality(Coroutines) -> Coroutines] : IsInjective(f)
    BY <2>1 DEF ExistsBijection, Bijection, Injection
  <2>3. SetToSeq(Coroutines) \in [1..Cardinality(Coroutines) -> Coroutines]
    BY <2>2 DEF SetToSeq, IsInjective
  <2>4. SetToSeq(Coroutines) \in Seq(Coroutines)
    BY <2>1, <2>3
  <2>. QED
    BY <2>4 DEF Init
<1>2. free \in Seq(Conns) /\ Len(free) = Capacity /\ \A i \in 1..Capacity : free[i] = i - 1
  BY DEF Init, Conns
<1>3. Once(free) /\ \A k \in Conns : k \in Members(free)
  <2>1. ASSUME NEW i \in 1..Capacity, NEW j \in 1..Capacity, free[i] = free[j] PROVE i = j
    BY <1>2, <2>1
  <2>2. ASSUME NEW k \in Conns PROVE k \in Members(free)
    <3>1. k + 1 \in 1..Capacity /\ free[k + 1] = k
      BY <1>2 DEF Conns
    <3>. QED
      BY <3>1, <1>2 DEF Members
  <2>. QED
    BY <2>1, <2>2, <1>2 DEF Once
<1>4. Typed
  <2>1. /\ pc \in [Coroutines -> {"runs", "waits", "parked", "dead"}] /\ cur \in Coroutines \union {None}
        /\ target \in [Coroutines -> Fds \union {None}] /\ wait \in [Coroutines -> Waits \union {None}]
        /\ conn \in [Coroutines -> Conns \union {None}]
        /\ \A c \in Coroutines : pc[c] = "runs"
    BY DEF Init
  <2>2. /\ word \in [Conns -> Coroutines \union Tags] /\ fresh \in [Conns -> BOOLEAN]
        /\ who \in [Conns -> Coroutines \union {None}] /\ fd \in [Conns -> Fds \union {None}]
    BY DEF Init, Tags
  <2>3. /\ fdMap \in [Fds -> Conns \union {None}] /\ reg \in [Fds -> Conns \union {None}]
        /\ open \in [Fds -> BOOLEAN] /\ data \in [Fds -> BOOLEAN] /\ edge \in [Fds -> BOOLEAN]
    BY DEF Init
  <2>5. pipe \in BOOLEAN /\ stop \in BOOLEAN
    BY DEF Init
  <2>6. waits \in 0 .. MaxWaits
    BY DEF Init
  <2>4. \A c \in Coroutines : (pc[c] = "waits" => target[c] \in Fds) /\ (pc[c] = "parked" => wait[c] \in Waits /\ conn[c] \in Conns)
    BY <2>1
  <2>. QED
    BY <1>1, <1>2, <2>1, <2>2, <2>3, <2>4, <2>5, <2>6 DEF Typed
<1>5. ConnInv /\ WordInv /\ OwnerInv
  BY <1>3 DEF Init, ConnInv, WordInv, OwnerInv, Holds, Conns
<1>6. TimerInv
  BY DEF Init, TimerInv, NoCtx, Contexts, Calls
<1>7. PollInv /\ EndedWaitWakes
  BY DEF Init, PollInv, EndedWaitWakes, Parked
<1>. QED
  BY <1>4, <1>5, <1>6, <1>7 DEF WaitInv

-----------------------------------------------------------------------------
(* The loop                                                                *)

\* A round of the loop, and the coroutines it takes from the queue.
LEMMA LoopStep == Room /\ WaitInv /\ (Loop \/ PollTimesOut) => WaitInv'
<1>. SUFFICES ASSUME WaitInv, Loop \/ PollTimesOut PROVE WaitInv'
  OBVIOUS
<1>. USE ReactorAssumption
<1>1. ASSUME Top PROVE WaitInv'
  <2>1. Typed'
    BY <1>1 DEF WaitInv, Typed, Top, main, cos, outside, conns, kernel, timing
  <2>2. ConnInv' /\ WordInv' /\ OwnerInv' /\ TimerInv' /\ EndedWaitWakes'
    BY <1>1, Stays DEF WaitInv, Top, main, cos, outside, conns, kernel, timing
  <2>3. PollInv'
    BY <1>1 DEF WaitInv, PollInv, Roused, Top, cos, outside, timing
  <2>. QED
    BY <1>1, <2>1, <2>2, <2>3 DEF WaitInv
<1>2. ASSUME Dispatched PROVE WaitInv'
  <2>1. Typed'
    BY <1>2 DEF WaitInv, Typed, Dispatched, main, cos, outside, conns, kernel, timing
  <2>2. ConnInv' /\ WordInv' /\ OwnerInv' /\ TimerInv' /\ EndedWaitWakes'
    BY <1>2, Stays DEF WaitInv, Dispatched, main, cos, outside, conns, kernel, timing
  <2>3. PollInv'
    BY <1>2 DEF WaitInv, PollInv, Roused, Dispatched, cos, outside, timing
  <2>. QED
    BY <1>2, <2>1, <2>2, <2>3 DEF WaitInv
<1>3. ASSUME PollTimesOut PROVE WaitInv'
  <2>1. Typed'
    BY <1>3 DEF WaitInv, Typed, PollTimesOut, main, cos, outside, conns, kernel, timing
  <2>2. ConnInv' /\ WordInv' /\ OwnerInv' /\ TimerInv' /\ EndedWaitWakes'
    BY <1>3, Stays DEF WaitInv, PollTimesOut, main, cos, outside, conns, kernel, timing
  <2>3. PollInv'
    BY <1>3 DEF WaitInv, PollInv, Roused, PollTimesOut, cos, outside, timing
  <2>. QED
    BY <1>3, <2>1, <2>2, <2>3 DEF WaitInv
<1>4. ASSUME Drained PROVE WaitInv'
  <2>1. Typed'
    BY <1>4 DEF WaitInv, Typed, Drained, main, cos, outside, conns, kernel, timing
  <2>2. ConnInv' /\ WordInv' /\ OwnerInv' /\ TimerInv' /\ EndedWaitWakes'
    BY <1>4, Stays DEF WaitInv, Drained, main, cos, outside, conns, kernel, timing
  <2>3. PollInv'
    BY <1>4 DEF WaitInv, PollInv, Roused, Drained, cos, outside, timing
  <2>. QED
    BY <1>4, <2>1, <2>2, <2>3 DEF WaitInv
<1>5. ASSUME Poll PROVE WaitInv'
  <2>1. Typed'
    BY <1>5 DEF WaitInv, Typed, Poll, main, cos, outside, conns, kernel, timing
  <2>2. ConnInv' /\ WordInv' /\ TimerInv' /\ EndedWaitWakes'
    BY <1>5, Stays DEF WaitInv, Poll, main, cos, outside, conns, kernel, timing
  <2>4. OwnerInv'
    BY <1>5, Stays DEF WaitInv, Poll, conns
  <2>3. PollInv'
    BY <1>5 DEF WaitInv, PollInv, Roused, Poll, cos, outside, timing
  <2>. QED
    BY <1>5, <2>1, <2>2, <2>3, <2>4 DEF WaitInv
<1>6. ASSUME Resume PROVE WaitInv'
  <2>1. Head(ready) \in Coroutines /\ Tail(ready) \in Seq(Coroutines)
        /\ \A d : Contains(ready, d) /\ d # Head(ready) => Contains(Tail(ready), d)
    BY <1>6, Popping DEF WaitInv, Typed, Resume
  <2>2. Typed'
    BY <1>6, <2>1 DEF WaitInv, Typed, Resume, cos, outside, conns, kernel, timing
  <2>3. ConnInv' /\ WordInv' /\ OwnerInv' /\ TimerInv'
    BY <1>6, Stays DEF WaitInv, Resume, cos, outside, conns, kernel, timing
  <2>4. PollInv'
    BY <1>6 DEF WaitInv, PollInv, Roused, Resume, outside, timing
  <2>5. EndedWaitWakes'
    <3>1. ASSUME NEW c \in Coroutines, Parked(c)' PROVE Parked(c) /\ c # Head(ready)
      BY <1>6, <3>1 DEF Resume, Parked
    <3>. QED
      BY <1>6, <2>1, <3>1 DEF WaitInv, EndedWaitWakes, Resume, conns, timing
  <2>. QED
    BY <1>6, <2>2, <2>3, <2>4, <2>5 DEF WaitInv
<1>7. ASSUME NEW k \in Conns, Fire(k) PROVE WaitInv'
  <2>1. word[k] = who[k] => fresh[k] /\ who[k] \in Coroutines /\ Posted(ready, who[k]) \in Seq(Coroutines)
        /\ Contains(Posted(ready, who[k]), who[k]) /\ \A d : Contains(ready, d) => Contains(Posted(ready, who[k]), d)
    BY <1>7, Posting DEF WaitInv, Typed, WordInv, Tags
  <2>8. word[k] = who[k] => ready' = Posted(ready, who[k]) /\ word' = [word EXCEPT ![k] = "ready"]
    BY <1>7, <2>1 DEF Fire
  <2>9. word[k] # who[k] => ready' = ready /\ word' = word
    BY <1>7 DEF Fire
  <2>2. word' \in [Conns -> Coroutines \union Tags] /\ ready' \in Seq(Coroutines)
    <3>1. CASE word[k] = who[k]
      <4>1. "ready" \in Coroutines \union Tags
        BY <1>7 DEF Tags
      <4>2. word \in [Conns -> Coroutines \union Tags] /\ word' = [word EXCEPT ![k] = "ready"]
        BY <1>7, <3>1, <2>8 DEF WaitInv, Typed
      <4>3. word' \in [Conns -> Coroutines \union Tags]
        BY <1>7, <4>1, <4>2
      <4>. QED
        BY <1>7, <3>1, <4>3, <2>1, <2>8
    <3>2. CASE word[k] # who[k]
      BY <1>7, <3>2, <2>9 DEF WaitInv, Typed
    <3>. QED
      BY <1>7, <3>1, <3>2
  <2>3. Typed'
    BY <1>7, <2>2 DEF WaitInv, Typed, Fire, cos, outside, conns, kernel, timing
  <2>4. ConnInv' /\ OwnerInv' /\ TimerInv'
    BY <1>7, Stays DEF WaitInv, Fire, cos, outside, conns, kernel, timing
  <2>5. WordInv'
    BY <1>7 DEF WaitInv, Typed, WordInv, Holds, Fire, cos
  <2>6. PollInv'
    BY <1>7 DEF WaitInv, PollInv, Roused, Fire, cos, outside, timing
  <2>7. EndedWaitWakes'
    <3>1. ASSUME NEW c \in Coroutines, Parked(c)' PROVE
              \/ word'[conn'[c]] = c \/ Contains(ready', c)
              \/ Parked(c) /\ word[conn[c]] # c
      BY <1>7, <3>1, <2>1, <2>8, <2>9 DEF WaitInv, ConnInv, Typed, Fire, Parked, cos
    <3>2. \A d : Contains(ready, d) => Contains(ready', d)
      BY <1>7, <2>1, <2>8, <2>9
    <3>. QED
      BY <1>7, <3>1, <3>2, StillWakes DEF WaitInv, Follows, Fire, timing
  <2>. QED
    BY <1>7, <2>3, <2>4, <2>5, <2>6, <2>7 DEF WaitInv
<1>. QED
  BY <1>1, <1>2, <1>3, <1>4, <1>5, <1>6, <1>7 DEF Loop

-----------------------------------------------------------------------------
(* The timer thread                                                        *)

\* A callback goes on: only its place changes.
LEMMA TimerMoves ==
  ASSUME TimerInv, NEW w \in Waits, timer[w].st \in Calls, NEW st \in Calls,
         timer' = [timer EXCEPT ![w].st = st], waits' = waits
  PROVE  /\ TimerInv' /\ timer'[w].st = st /\ timer'[w].co = timer[w].co
         /\ \A v \in Waits : v # w => timer'[v] = timer[v]
<1>1. timer[w] \in [st : Calls \union {"none", "over"}, conn : Conns \union {None},
                    co : Coroutines \union {None}, fresh : BOOLEAN, frees : Nat]
  BY DEF TimerInv, Contexts
<1>2. timer'[w] = [timer[w] EXCEPT !.st = st] /\ \A v \in Waits : v # w => timer'[v] = timer[v]
  BY DEF TimerInv, Contexts
<1>3. TimerInv'
  BY <1>1, <1>2 DEF TimerInv, Calls, Contexts
<1>. QED
  BY <1>1, <1>2, <1>3

\* A context that nobody has freed is freed.
LEMMA TimerEnds ==
  ASSUME TimerInv, NEW w \in Waits, timer[w].st \in Calls, Ended(w), waits' = waits
  PROVE  /\ TimerInv' /\ timer'[w].st = "over" /\ \A v \in Waits : v # w => timer'[v] = timer[v]
<1>1. Freed(timer[w]) = [st |-> "over", conn |-> None, co |-> None, fresh |-> FALSE, frees |-> 1]
  <2>1. timer[w].frees = 0
    BY DEF TimerInv, Contexts
  <2>2. timer[w].frees + 1 = 1
    BY <2>1
  <2>3. Freed(timer[w]) = [st |-> "over", conn |-> None, co |-> None, fresh |-> FALSE, frees |-> timer[w].frees + 1]
    BY DEF Freed
  <2>. QED
    BY <2>2, <2>3
<1>2. timer' = [timer EXCEPT ![w] = Freed(timer[w])]
  BY DEF Ended
<1>3. timer'[w] = Freed(timer[w]) /\ \A v \in Waits : v # w => timer'[v] = timer[v]
  BY <1>2 DEF TimerInv, Contexts
<1>4. TimerInv'
  BY <1>1, <1>2, <1>3 DEF TimerInv, Calls, Contexts
<1>. QED
  BY <1>1, <1>3, <1>4

\* The callback of a timeout, access by access.
LEMMA CallbackStep ==
  ASSUME Room, WaitInv, NEW w \in Waits, Start(w) \/ Callback(w)
  PROVE  WaitInv'
<1>. USE ReactorAssumption
<1>1. CASE Start(w)
  <2>1. TimerInv' /\ timer'[w].st = "running" /\ \A v \in Waits : v # w => timer'[v] = timer[v]
    BY <1>1, TimerMoves DEF WaitInv, Start, Calls
  <2>2. Typed' /\ ConnInv' /\ WordInv' /\ OwnerInv'
    BY <1>1, Stays DEF WaitInv, Typed, Start, main, cos, outside, conns, kernel
  <2>3. PollInv'
    BY <1>1, <2>1 DEF WaitInv, PollInv, Roused, Start, main, cos, outside
  <2>4. EndedWaitWakes'
    BY <1>1, <2>1, StillWakes DEF WaitInv, Follows, Parked, Start, cos, conns
  <2>. QED
    BY <2>1, <2>2, <2>3, <2>4 DEF WaitInv
<1>2. CASE CheckGen(w)
  <2>1. TimerInv' /\ timer'[w].st \in {"checked", "over"} /\ \A v \in Waits : v # w => timer'[v] = timer[v]
    <3>1. CASE timer[w].fresh
      BY <1>2, <3>1, TimerMoves DEF WaitInv, CheckGen, Calls
    <3>2. CASE ~timer[w].fresh
      BY <1>2, <3>2, TimerEnds DEF WaitInv, CheckGen, Calls
    <3>. QED
      BY <3>1, <3>2
  <2>2. Typed' /\ ConnInv' /\ WordInv' /\ OwnerInv'
    BY <1>2, Stays DEF WaitInv, Typed, CheckGen, main, cos, outside, conns, kernel
  <2>3. PollInv'
    BY <1>2, <2>1 DEF WaitInv, PollInv, Roused, CheckGen, main, cos, outside
  <2>4. EndedWaitWakes'
    BY <1>2, <2>1, StillWakes DEF WaitInv, Follows, Parked, CheckGen, cos, conns
  <2>. QED
    BY <2>1, <2>2, <2>3, <2>4 DEF WaitInv
<1>3. CASE TakeWord(w)
  <2>. DEFINE k == timer[w].conn
  <2>1. k \in Conns /\ timer[w].co \in Coroutines /\ timer[w].st = "checked"
    BY <1>3 DEF WaitInv, TimerInv, TakeWord, Contexts, Calls
  <2>2. CASE word[k] = timer[w].co
    <3>1. word' = [word EXCEPT ![k] = "timeout"] /\ timer' = [timer EXCEPT ![w].st = "won"]
      BY <1>3, <2>2 DEF TakeWord
    <3>2. /\ TimerInv' /\ timer'[w].st = "won" /\ timer'[w].co = timer[w].co
          /\ \A v \in Waits : v # w => timer'[v] = timer[v]
      BY <1>3, <3>1, <2>1, TimerMoves DEF WaitInv, TakeWord, Calls
    <3>3. "timeout" \in Coroutines \union Tags /\ "timeout" \notin Coroutines
      BY DEF Tags
    <3>4. word' \in [Conns -> Coroutines \union Tags]
      BY <3>1, <3>3, <2>1 DEF WaitInv, Typed
    <3>5. Typed'
      BY <1>3, <3>4 DEF WaitInv, Typed, TakeWord, main, cos, outside, conns, kernel
    <3>6. ConnInv' /\ OwnerInv'
      BY <1>3, Stays DEF WaitInv, TakeWord, main, cos, outside, conns, kernel
    <3>7. WordInv'
      BY <1>3, <3>1, <3>3, <2>1 DEF WaitInv, Typed, WordInv, Holds, TakeWord, cos
    <3>8. PollInv'
      BY <1>3, <3>2, <2>1 DEF WaitInv, PollInv, Roused, TakeWord, main, cos, outside
    <3>9. EndedWaitWakes'
      <4>1. ASSUME NEW c \in Coroutines, Parked(c)', word'[conn'[c]] # c
            PROVE  Contains(ready', c) \/ \E v \in Waits : timer'[v].st = "won" /\ timer'[v].co = c
        <5>1. Parked(c) /\ conn'[c] = conn[c] /\ conn[c] \in Conns
          BY <1>3, <4>1 DEF WaitInv, Typed, Parked, TakeWord, cos
        <5>2. CASE word[conn[c]] # c
          BY <1>3, <5>1, <5>2, <3>2, <2>1 DEF WaitInv, EndedWaitWakes, TakeWord
        <5>3. CASE word[conn[c]] = c
          <6>1. conn[c] = k /\ timer[w].co = c
            BY <5>1, <5>3, <4>1, <3>1, <2>1, <2>2 DEF WaitInv, Typed
          <6>. QED
            BY <6>1, <3>2
        <5>. QED
          BY <5>2, <5>3
      <4>. QED
        BY <4>1 DEF EndedWaitWakes
    <3>. QED
      BY <3>2, <3>5, <3>6, <3>7, <3>8, <3>9 DEF WaitInv
  <2>3. CASE word[k] # timer[w].co
    <3>1. TimerInv' /\ timer'[w].st = "over" /\ \A v \in Waits : v # w => timer'[v] = timer[v]
      BY <1>3, <2>3, TimerEnds DEF WaitInv, TakeWord, Calls
    <3>2. Typed' /\ ConnInv' /\ WordInv' /\ OwnerInv'
      BY <1>3, <2>3, Stays DEF WaitInv, Typed, TakeWord, main, cos, outside, kernel
    <3>3. PollInv'
      BY <1>3, <3>1, <2>1 DEF WaitInv, PollInv, Roused, TakeWord, main, cos, outside
    <3>4. EndedWaitWakes'
      BY <1>3, <2>3, <3>1, <2>1, StillWakes DEF WaitInv, Follows, Parked, TakeWord, cos
    <3>. QED
      BY <3>1, <3>2, <3>3, <3>4 DEF WaitInv
  <2>. QED
    BY <2>2, <2>3
<1>4. CASE PostTimedOut(w)
  <2>. DEFINE d == timer[w].co
  <2>1. /\ TimerInv' /\ timer'[w].st = "posted" /\ \A v \in Waits : v # w => timer'[v] = timer[v]
    BY <1>4, TimerMoves DEF WaitInv, PostTimedOut, Calls
  <2>2. d \in Coroutines
    BY <1>4 DEF WaitInv, TimerInv, PostTimedOut, Contexts, Calls
  <2>3. ready' \in Seq(Coroutines) /\ Contains(ready', d) /\ \A c : Contains(ready, c) => Contains(ready', c)
    BY <1>4, <2>2, Posting DEF WaitInv, Typed, PostTimedOut
  <2>4. Typed'
    BY <1>4, <2>3 DEF WaitInv, Typed, PostTimedOut, main, cos, outside, conns, kernel
  <2>5. ConnInv' /\ WordInv' /\ OwnerInv'
    BY <1>4, Stays DEF WaitInv, PostTimedOut, cos, conns, kernel
  <2>6. PollInv'
    BY <1>4, <2>1 DEF WaitInv, PollInv, Roused, PostTimedOut, main, cos, outside
  <2>7. EndedWaitWakes'
    <3>1. ASSUME NEW c \in Coroutines, Parked(c)', word'[conn'[c]] # c
          PROVE  Contains(ready', c) \/ \E v \in Waits : timer'[v].st = "won" /\ timer'[v].co = c
      BY <1>4, <3>1, <2>1, <2>3 DEF WaitInv, EndedWaitWakes, Parked, PostTimedOut, cos, conns
    <3>. QED
      BY <3>1 DEF EndedWaitWakes
  <2>. QED
    BY <2>1, <2>4, <2>5, <2>6, <2>7 DEF WaitInv
<1>5. CASE WriteTimedOut(w)
  <2>1. TimerInv' /\ timer'[w].st = "over" /\ \A v \in Waits : v # w => timer'[v] = timer[v]
    BY <1>5, TimerEnds DEF WaitInv, WriteTimedOut, Calls
  <2>2. Typed' /\ ConnInv' /\ WordInv' /\ OwnerInv'
    BY <1>5, Stays DEF WaitInv, Typed, WriteTimedOut, main, cos, outside, conns, kernel
  <2>3. PollInv'
    BY <1>5 DEF WaitInv, PollInv, Roused, WriteTimedOut, main, cos, outside
  <2>4. EndedWaitWakes'
    BY <1>5, <2>1, StillWakes DEF WaitInv, Follows, Parked, WriteTimedOut, cos, conns
  <2>. QED
    BY <2>1, <2>2, <2>3, <2>4 DEF WaitInv
<1>. QED
  BY <1>1, <1>2, <1>3, <1>4, <1>5 DEF Callback

-----------------------------------------------------------------------------
(* Other threads and the network                                           *)

\* A stop, a wake or the byte it owes.
LEMMA OutsideStep ==
  ASSUME Room, WaitInv,
         \/ Stop \/ WritePipe \/ \E c \in Coroutines : Wake(c)
         \/ \E f \in Fds : Arrive(f) \/ CloseElsewhere(f) \/ Reopen(f)
  PROVE  WaitInv'
<1>. USE ReactorAssumption
<1>1. CASE Stop
  <2>1. Typed' /\ ConnInv' /\ WordInv' /\ OwnerInv' /\ TimerInv' /\ EndedWaitWakes'
    BY <1>1, Stays DEF WaitInv, Typed, Stop, main, cos, conns, kernel, timing
  <2>2. PollInv'
    BY <1>1 DEF WaitInv, PollInv, Roused, Stop, main, cos, timing
  <2>. QED
    BY <2>1, <2>2 DEF WaitInv
<1>2. CASE WritePipe
  <2>1. Typed' /\ ConnInv' /\ WordInv' /\ OwnerInv' /\ TimerInv' /\ EndedWaitWakes'
    BY <1>2, Stays DEF WaitInv, Typed, WritePipe, main, cos, conns, kernel, timing
  <2>2. PollInv'
    BY <1>2 DEF WaitInv, PollInv, Roused, WritePipe, main, cos, timing
  <2>. QED
    BY <2>1, <2>2 DEF WaitInv
<1>3. ASSUME NEW c \in Coroutines, Wake(c) PROVE WaitInv'
  <2>1. ready' \in Seq(Coroutines) /\ \A d : Contains(ready, d) => Contains(ready', d)
    BY <1>3, Posting DEF WaitInv, Typed, Wake
  <2>2. Typed'
    BY <1>3, <2>1 DEF WaitInv, Typed, Wake, main, cos, conns, kernel, timing
  <2>3. ConnInv' /\ WordInv' /\ OwnerInv' /\ TimerInv'
    BY <1>3, Stays DEF WaitInv, Wake, cos, conns, kernel, timing
  <2>4. PollInv'
    BY <1>3 DEF WaitInv, PollInv, Roused, Wake, main, cos, timing
  <2>5. EndedWaitWakes'
    BY <1>3, <2>1, StillWakes DEF WaitInv, Follows, Parked, Wake, cos, conns, timing
  <2>. QED
    BY <2>2, <2>3, <2>4, <2>5 DEF WaitInv
<1>4. ASSUME NEW f \in Fds, Arrive(f) \/ CloseElsewhere(f) \/ Reopen(f) PROVE WaitInv'
  <2>4. open' \in [Fds -> BOOLEAN] /\ data' \in [Fds -> BOOLEAN] /\ edge' \in [Fds -> BOOLEAN]
        /\ reg' \in [Fds -> Conns \union {None}] /\ stop' = stop /\ waits' = waits
    <3>1. CASE Arrive(f)
      <4>1. (reg[f] # None) \in BOOLEAN
        OBVIOUS
      <4>. QED
        BY <3>1, <4>1 DEF WaitInv, Typed, Arrive, outside, timing
    <3>2. CASE CloseElsewhere(f)
      BY <3>2 DEF WaitInv, Typed, CloseElsewhere, KernelClose, timing
    <3>3. CASE Reopen(f)
      BY <3>3 DEF WaitInv, Typed, Reopen, timing
    <3>. QED
      BY <1>4, <3>1, <3>2, <3>3
  <2>1. Typed'
    BY <1>4, <2>4 DEF WaitInv, Typed, Arrive, CloseElsewhere, Reopen, main, cos, conns
  <2>2. ConnInv' /\ WordInv' /\ TimerInv' /\ PollInv' /\ EndedWaitWakes'
    BY <1>4, Stays DEF WaitInv, Arrive, CloseElsewhere, Reopen, main, cos, outside, conns, timing
  <2>3. OwnerInv'
    BY <1>4 DEF WaitInv, Typed, OwnerInv, Members, Arrive, CloseElsewhere, Reopen, KernelClose, conns
  <2>. QED
    BY <2>1, <2>2, <2>3 DEF WaitInv
<1>. QED
  BY <1>1, <1>2, <1>3, <1>4

-----------------------------------------------------------------------------
(* The coroutine that runs                                                 *)

\* It goes on, or its slice is used up, or it ends, or it yields once more.
LEMMA PlainStep ==
  ASSUME Room, WaitInv, NEW c \in Coroutines,
         SliceYield(c) \/ Finish(c) \/ Spurious(c) \/ \E f \in Fds : Read(c, f)
  PROVE  WaitInv'
<1>. USE ReactorAssumption
<1>1. cur = c /\ loop = "drain"
  BY DEF WaitInv, PollInv, SliceYield, Finish, Spurious, Read, Yield
<1>2. CASE SliceYield(c)
  <2>1. ready' \in Seq(Coroutines) /\ \A d : Contains(ready, d) => Contains(ready', d)
    BY <1>2, Posting DEF WaitInv, Typed, SliceYield
  <2>2. Typed'
    BY <1>2, <2>1 DEF WaitInv, Typed, SliceYield, Yield, main, outside, conns, kernel, timing
  <2>3. ConnInv' /\ WordInv' /\ OwnerInv' /\ TimerInv'
    BY <1>2, Stays DEF WaitInv, SliceYield, conns, kernel, timing
  <2>4. PollInv'
    BY <1>1, <1>2 DEF WaitInv, PollInv, Roused, SliceYield, Yield, main, outside, timing
  <2>5. EndedWaitWakes'
    BY <1>2, <2>1, StillWakes DEF WaitInv, Follows, Parked, SliceYield, Yield, conns, timing
  <2>. QED
    BY <2>2, <2>3, <2>4, <2>5 DEF WaitInv
<1>3. CASE Finish(c)
  <2>1. pc' = [pc EXCEPT ![c] = "dead"] /\ pc[c] = "runs"
    BY <1>3 DEF Finish
  <2>2. Typed'
    BY <1>3, <2>1 DEF WaitInv, Typed, Finish, Yield, main, outside, conns, kernel, timing
  <2>3. ConnInv' /\ WordInv'
    BY <1>3, <2>1 DEF WaitInv, Typed, ConnInv, WordInv, Holds, Members, Once, Finish, conns
  <2>4. OwnerInv' /\ TimerInv'
    BY <1>3, Stays DEF WaitInv, Finish, conns, kernel, timing
  <2>5. PollInv'
    BY <1>1, <1>3 DEF WaitInv, PollInv, Roused, Finish, Yield, main, outside, timing
  <2>6. EndedWaitWakes'
    BY <1>3, <2>1, StillWakes DEF WaitInv, Typed, Follows, Parked, Finish, Yield, conns, timing
  <2>. QED
    BY <2>2, <2>3, <2>4, <2>5, <2>6 DEF WaitInv
<1>4. CASE Spurious(c)
  <2>1. Typed'
    BY <1>4 DEF WaitInv, Typed, Spurious, Yield, main, outside, conns, kernel, timing
  <2>2. ConnInv' /\ WordInv' /\ OwnerInv' /\ TimerInv'
    BY <1>4, Stays DEF WaitInv, Spurious, conns, kernel, timing
  <2>3. PollInv'
    BY <1>1, <1>4 DEF WaitInv, PollInv, Roused, Spurious, Yield, main, outside, timing
  <2>4. EndedWaitWakes'
    BY <1>4, StillWakes DEF WaitInv, Follows, Parked, Spurious, Yield, conns, timing
  <2>. QED
    BY <2>1, <2>2, <2>3, <2>4 DEF WaitInv
<1>5. ASSUME NEW f \in Fds, Read(c, f) PROVE WaitInv'
  <2>1. pc[c] = "runs" /\ pc' \in [Coroutines -> {"runs", "waits", "parked", "dead"}] /\ pc'[c] \in {"runs", "waits"}
        /\ \A d \in Coroutines : d # c => pc'[d] = pc[d]
    <3>1. pc[c] = "runs" /\ pc \in [Coroutines -> {"runs", "waits", "parked", "dead"}]
      BY <1>5 DEF WaitInv, Typed, Read
    <3>2. pc' = pc \/ pc' = [pc EXCEPT ![c] = "waits"]
      BY <1>5 DEF Read
    <3>. QED
      BY <3>1, <3>2
  <2>2. target' \in [Coroutines -> Fds \union {None}] /\ (pc'[c] = "waits" => target'[c] \in Fds)
        /\ \A d \in Coroutines : d # c => target'[d] = target[d]
    BY <1>5 DEF WaitInv, Typed, Read
  <2>3. data' \in [Fds -> BOOLEAN]
    BY <1>5 DEF WaitInv, Typed, Read
  <2>4. Typed'
    BY <1>5, <2>1, <2>2, <2>3 DEF WaitInv, Typed, Read, main, outside, conns, timing
  <2>8. UNCHANGED <<free, conn, who, word, fresh>> /\ \A d \in Coroutines, k \in Conns : Holds(d, k)' <=> Holds(d, k)
    BY <1>5, <2>1 DEF Holds, Read, conns
  <2>9. ConnInv'
    BY <2>1, <2>8 DEF WaitInv, ConnInv, Members, Once
  <2>5. WordInv' /\ ConnInv'
    BY <2>8, <2>9 DEF WaitInv, WordInv
  <2>6. OwnerInv' /\ TimerInv' /\ PollInv'
    BY <1>5, Stays DEF WaitInv, Read, main, outside, conns, timing
  <2>7. EndedWaitWakes'
    BY <1>5, <2>1, StillWakes DEF WaitInv, Typed, Follows, Parked, Read, conns, timing
  <2>. QED
    BY <2>4, <2>5, <2>6, <2>7 DEF WaitInv
<1>. QED
  BY <1>2, <1>3, <1>4, <1>5

\* A record of a timer whose snapshot goes stale keeps the rest; a new timer is such a record.
LEMMA StaleRecord ==
  ASSUME NEW r \in Contexts, NEW q, q = [r EXCEPT !.fresh = FALSE]
  PROVE  /\ q \in Contexts
         /\ q.st = r.st /\ q.conn = r.conn /\ q.co = r.co /\ q.frees = r.frees
BY DEF Contexts

\* The context of a timer that has just been armed.
LEMMA ArmedRecord ==
  ASSUME NEW k \in Conns, NEW c \in Coroutines
  PROVE  [st |-> "armed", conn |-> k, co |-> c, fresh |-> TRUE, frees |-> 0] \in Contexts
BY DEF Contexts, Calls

\* Making snapshots stale changes nothing else of a timer.
LEMMA StaleTimers ==
  ASSUME TimerInv, NEW k \in Conns, timer' = Staled(k), waits' = waits
  PROVE  TimerInv' /\ \A w \in Waits : timer'[w].st = timer[w].st /\ timer'[w].co = timer[w].co
<1>1. \A w \in Waits : timer[w] \in Contexts
  BY DEF TimerInv
<1>2. ASSUME NEW w \in Waits
      PROVE  /\ timer'[w] \in Contexts /\ timer'[w].st = timer[w].st /\ timer'[w].co = timer[w].co
             /\ timer'[w].conn = timer[w].conn /\ timer'[w].frees = timer[w].frees
  <2>1. timer'[w] = IF timer[w].conn = k THEN [timer[w] EXCEPT !.fresh = FALSE] ELSE timer[w]
    BY DEF Staled
  <2>2. timer[w] \in Contexts
    BY <1>1
  <2>3. CASE timer[w].conn = k
    <3>1. timer'[w] = [timer[w] EXCEPT !.fresh = FALSE]
      BY <2>1, <2>3
    <3>. QED
      BY <2>2, <3>1, StaleRecord
  <2>4. CASE timer[w].conn # k
    BY <2>1, <2>2, <2>4
  <2>. QED
    BY <2>3, <2>4
<1>3. timer' \in [Waits -> Contexts]
  BY <1>2 DEF Staled
<1>4. TimerInv'
  BY <1>2, <1>3 DEF TimerInv
<1>. QED
  BY <1>2, <1>4

\* A wait begins, with a timer or without, on a connection whose former timers are stale.
LEMMA NewTimer ==
  ASSUME TimerInv, waits \in 0 .. MaxWaits, NEW k \in Conns, NEW c \in Coroutines, NEW timed \in BOOLEAN,
         waits + 1 \in Waits, waits' = waits + 1,
         timer' = [Staled(k) EXCEPT ![waits + 1] = IF ~timed THEN NoCtx
                      ELSE [st |-> "armed", conn |-> k, co |-> c, fresh |-> TRUE, frees |-> 0]]
  PROVE  TimerInv' /\ \A v \in Waits : timer[v].st # "none" => timer'[v].st = timer[v].st /\ timer'[v].co = timer[v].co
<1>. DEFINE w == waits + 1
<1>1. \A v \in Waits : timer[v] \in Contexts
  BY DEF TimerInv
<1>2. w \in Waits /\ waits \in Nat /\ timer[w].st = "none"
  BY ReactorAssumption DEF TimerInv, Waits
<1>3. ASSUME NEW v \in Waits, v # w
      PROVE  /\ timer'[v] \in Contexts /\ timer'[v].st = timer[v].st /\ timer'[v].co = timer[v].co
             /\ timer'[v].conn = timer[v].conn /\ timer'[v].frees = timer[v].frees
  <2>1. timer'[v] = IF timer[v].conn = k THEN [timer[v] EXCEPT !.fresh = FALSE] ELSE timer[v]
    BY <1>3 DEF Staled
  <2>2. timer[v] \in Contexts
    BY <1>1
  <2>3. CASE timer[v].conn = k
    <3>1. timer'[v] = [timer[v] EXCEPT !.fresh = FALSE]
      BY <2>1, <2>3
    <3>. QED
      BY <2>2, <3>1, StaleRecord
  <2>4. CASE timer[v].conn # k
    BY <2>1, <2>2, <2>4
  <2>. QED
    BY <2>3, <2>4
<1>4. \/ timer'[w] = NoCtx
      \/ timer'[w] = [st |-> "armed", conn |-> k, co |-> c, fresh |-> TRUE, frees |-> 0]
  BY <1>2 DEF Staled
<1>5. /\ timer'[w] \in Contexts /\ timer'[w].st \in {"none", "armed"} /\ timer'[w].frees = 0
      /\ timer'[w].st = "armed" => timer'[w].conn \in Conns /\ timer'[w].co \in Coroutines
  <2>1. NoCtx \in Contexts /\ NoCtx.st = "none" /\ NoCtx.frees = 0
    BY DEF NoCtx, Contexts
  <2>2. CASE timer'[w] = NoCtx
    BY <2>1, <2>2
  <2>3. CASE timer'[w] = [st |-> "armed", conn |-> k, co |-> c, fresh |-> TRUE, frees |-> 0]
    <3>1. timer'[w].st = "armed" /\ timer'[w].conn = k /\ timer'[w].co = c /\ timer'[w].frees = 0
      BY <2>3
    <3>3. timer'[w] \in Contexts
      BY <2>3, ArmedRecord
    <3>. QED
      BY <3>1, <3>3
  <2>. QED
    BY <1>4, <2>2, <2>3
<1>6. timer' \in [Waits -> Contexts]
  BY <1>3, <1>5 DEF Staled
<1>7. \A v \in Waits : v > waits' => timer'[v].st = "none"
  <2>1. ASSUME NEW v \in Waits, v > waits' PROVE timer'[v].st = "none"
    <3>1. v \in Nat /\ v # w /\ v > waits
      BY <1>2, <2>1 DEF Waits
    <3>. QED
      BY <3>1, <1>3 DEF TimerInv
  <2>. QED
    BY <2>1
<1>8. ASSUME NEW v \in Waits
      PROVE  /\ timer'[v].st \in Calls => timer'[v].conn \in Conns /\ timer'[v].co \in Coroutines /\ timer'[v].frees = 0
             /\ timer'[v].st = "none" => timer'[v].frees = 0
             /\ timer'[v].st = "over" => timer'[v].frees = 1
  BY <1>3, <1>5 DEF TimerInv, Calls
<1>9. TimerInv'
  BY <1>6, <1>7, <1>8 DEF TimerInv
<1>. QED
  BY <1>2, <1>3, <1>9

\* It closes a socket: who waits for it is told.
LEMMA CloseStep ==
  ASSUME Room, WaitInv, NEW c \in Coroutines, NEW f \in Fds, Close(c, f)
  PROVE  WaitInv'
<1>. USE ReactorAssumption
<1>. DEFINE k == fdMap[f]
<1>1. cur = c /\ loop = "drain" /\ pc[c] = "runs"
  BY DEF WaitInv, PollInv, Close
<1>2. /\ open' = [open EXCEPT ![f] = FALSE] /\ data' = [data EXCEPT ![f] = FALSE]
      /\ reg' = [reg EXCEPT ![f] = None] /\ edge' = [edge EXCEPT ![f] = FALSE]
      /\ UNCHANGED <<main, cos, pipe, outside, free, who, fd, fdMap, waits>>
  BY DEF Close, KernelClose
<1>3. OwnerInv'
  BY <1>2 DEF WaitInv, Typed, OwnerInv, Members
<1>4. CASE k = None \/ ~(f < Capacity)
  <2>1. UNCHANGED <<fresh, timer, word, ready>>
    BY <1>4 DEF Close
  <2>2. Typed' /\ ConnInv' /\ WordInv' /\ TimerInv' /\ EndedWaitWakes' /\ PollInv'
    BY <1>2, <2>1, Stays DEF WaitInv, Typed, main, cos, outside
  <2>. QED
    BY <1>3, <2>2 DEF WaitInv
<1>5. CASE k # None /\ f < Capacity
  <2>1. k \in Conns /\ fresh' = [fresh EXCEPT ![k] = FALSE] /\ timer' = Staled(k)
    BY <1>5 DEF Close, WaitInv, Typed
  <2>2. /\ TimerInv' /\ \A w \in Waits : timer'[w].st = timer[w].st /\ timer'[w].co = timer[w].co
    BY <2>1, <1>2, StaleTimers DEF WaitInv
  <2>3. fresh' \in [Conns -> BOOLEAN]
    BY <2>1 DEF WaitInv, Typed
  <2>4. ConnInv'
    BY <1>2, Stays DEF WaitInv, cos
  <2>5. CASE word[k] = who[k]
    <3>1. word' = [word EXCEPT ![k] = "closed"] /\ ready' = Posted(ready, who[k])
      BY <1>5, <2>5 DEF Close
    <3>2. who[k] \in Coroutines
      BY <2>1, <2>5 DEF WaitInv, Typed, Tags
    <3>3. "closed" \in Coroutines \union Tags /\ "closed" \notin Coroutines
      BY DEF Tags
    <3>4. word' \in [Conns -> Coroutines \union Tags]
      BY <3>1, <3>3, <2>1 DEF WaitInv, Typed
    <3>5. ready' \in Seq(Coroutines) /\ Contains(ready', who[k]) /\ \A d : Contains(ready, d) => Contains(ready', d)
      BY <3>1, <3>2, Posting DEF WaitInv, Typed
    <3>6. Typed'
      BY <1>2, <2>3, <3>4, <3>5 DEF WaitInv, Typed, main, cos, outside
    <3>7. WordInv'
      BY <1>2, <2>1, <3>1, <3>3 DEF WaitInv, Typed, WordInv, Holds, cos
    <3>8. PollInv'
      BY <1>1, <1>2, <2>2 DEF WaitInv, PollInv, Roused, main, cos, outside
    <3>9. EndedWaitWakes'
      <4>1. ASSUME NEW d \in Coroutines, Parked(d)' PROVE
                word'[conn'[d]] = d \/ Contains(ready', d) \/ (Parked(d) /\ word[conn[d]] # d)
        <5>1. Parked(d) /\ conn'[d] = conn[d] /\ conn[d] \in Conns /\ who[conn[d]] = d
          BY <1>2, <4>1 DEF WaitInv, Typed, ConnInv, Parked, cos
        <5>2. CASE conn[d] = k
          BY <5>1, <5>2, <3>5
        <5>3. CASE conn[d] # k
          BY <5>1, <5>3, <3>1, <2>1 DEF WaitInv, Typed
        <5>. QED
          BY <5>2, <5>3
      <4>. QED
        BY <4>1, <2>2, <3>5, StillWakes DEF WaitInv, Follows
    <3>. QED
      BY <1>3, <2>2, <2>4, <3>6, <3>7, <3>8, <3>9 DEF WaitInv
  <2>6. CASE word[k] # who[k]
    <3>1. UNCHANGED <<word, ready>>
      BY <1>5, <2>6 DEF Close
    <3>2. Typed'
      BY <1>2, <2>3, <3>1 DEF WaitInv, Typed, main, cos, outside
    <3>3. WordInv'
      BY <1>2, <2>1, <2>6, <3>1 DEF WaitInv, Typed, WordInv, Holds, cos
    <3>4. PollInv'
      BY <1>1, <1>2, <2>2, <3>1 DEF WaitInv, PollInv, Roused, main, cos, outside
    <3>5. EndedWaitWakes'
      BY <1>2, <2>2, <3>1, StillWakes DEF WaitInv, Follows, Parked, cos
    <3>. QED
      BY <1>3, <2>2, <2>4, <3>2, <3>3, <3>4, <3>5 DEF WaitInv
  <2>. QED
    BY <2>5, <2>6
<1>. QED
  BY <1>4, <1>5

\* It begins to wait: a free connection becomes its own, with a timer or without.
LEMMA RegisterStep ==
  ASSUME Room, WaitInv, NEW c \in Coroutines, NEW timed \in BOOLEAN, Register(c, timed)
  PROVE  WaitInv'
<1>. USE ReactorAssumption
<1>. DEFINE f == target[c]
            k == Head(free)
            w == waits + 1
<1>1. cur = c /\ loop = "drain" /\ pc[c] = "waits" /\ f \in Fds /\ waits < MaxWaits
  BY DEF WaitInv, Typed, PollInv, Register, Yield
<1>2. free # <<>>
  BY <1>1, SomeFree DEF WaitInv
<1>3. /\ k \in Conns /\ k \in Members(free) /\ Tail(free) \in Seq(Conns) /\ Once(Tail(free))
      /\ Members(Tail(free)) = Members(free) \ {k}
  BY <1>2, Taking DEF WaitInv, Typed, ConnInv
<1>4. Chosen(f) = k
  BY <1>2 DEF Chosen
<1>5. w \in Waits /\ w \in Nat /\ w > waits
  BY <1>1 DEF WaitInv, Typed, Waits
<1>6. /\ cur' = None /\ free' = Tail(free) /\ fd' = [fd EXCEPT ![k] = f] /\ who' = [who EXCEPT ![k] = c]
      /\ fresh' = [fresh EXCEPT ![k] = TRUE] /\ word' = [word EXCEPT ![k] = c]
  BY <1>2, <1>4 DEF Register, Yield
<1>7. /\ fdMap' = (IF f < Capacity THEN [fdMap EXCEPT ![f] = k] ELSE fdMap) /\ reg[f] = None
      /\ reg' = [reg EXCEPT ![f] = k] /\ edge' = [edge EXCEPT ![f] = data[f]]
  BY <1>2, <1>4 DEF Register, CanAdd
<1>8. /\ waits' = w /\ wait' = [wait EXCEPT ![c] = w] /\ conn' = [conn EXCEPT ![c] = k]
      /\ target' = [target EXCEPT ![c] = None] /\ pc' = [pc EXCEPT ![c] = "parked"]
      /\ UNCHANGED <<main, ready, pipe, outside, open, data>>
  BY <1>2, <1>4 DEF Register
<1>9. timer' = [Staled(k) EXCEPT ![w] = IF ~timed THEN NoCtx
          ELSE [st |-> "armed", conn |-> k, co |-> c, fresh |-> TRUE, frees |-> 0]]
  BY <1>2, <1>4 DEF Register
<1>10. TimerInv' /\ \A v \in Waits : timer[v].st # "none" => timer'[v].st = timer[v].st /\ timer'[v].co = timer[v].co
  BY <1>3, <1>5, <1>8, <1>9, NewTimer DEF WaitInv, Typed
<1>11. Typed'
  <2>1. /\ cur' \in Coroutines \union {None} /\ free' \in Seq(Conns) /\ fd' \in [Conns -> Fds \union {None}]
        /\ who' \in [Conns -> Coroutines \union {None}] /\ word' \in [Conns -> Coroutines \union Tags]
    BY <1>1, <1>3, <1>6 DEF WaitInv, Typed
  <2>2. fresh' \in [Conns -> BOOLEAN] /\ edge' \in [Fds -> BOOLEAN]
    BY <1>1, <1>6, <1>7 DEF WaitInv, Typed
  <2>3. fdMap' \in [Fds -> Conns \union {None}] /\ reg' \in [Fds -> Conns \union {None}]
    BY <1>1, <1>3, <1>7 DEF WaitInv, Typed
  <2>4. /\ wait' \in [Coroutines -> Waits \union {None}] /\ conn' \in [Coroutines -> Conns \union {None}]
        /\ target' \in [Coroutines -> Fds \union {None}] /\ pc' \in [Coroutines -> {"runs", "waits", "parked", "dead"}]
    BY <1>3, <1>5, <1>8 DEF WaitInv, Typed
  <2>5. \A d \in Coroutines : /\ pc'[d] = "waits" => target'[d] \in Fds
                              /\ pc'[d] = "parked" => wait'[d] \in Waits /\ conn'[d] \in Conns
    BY <1>3, <1>5, <1>8 DEF WaitInv, Typed
  <2>6. waits' \in 0 .. MaxWaits
    BY <1>5, <1>8 DEF Waits
  <2>. QED
    BY <1>8, <2>1, <2>2, <2>3, <2>4, <2>5, <2>6 DEF WaitInv, Typed, main, outside
<1>12. ConnInv'
  <2>10. Once(free)'
    BY <1>3, <1>6 DEF Once
  <2>11. Members(free)' = Members(free) \ {k}
    BY <1>3, <1>6 DEF Members
  <2>1. Once(free)' /\ Members(free)' = Members(free) \ {k}
    BY <2>10, <2>11
  <2>2. \A d \in Coroutines : pc[d] = "parked" => conn[d] # k /\ d # c
    BY <1>1, <1>3 DEF WaitInv, ConnInv
  <2>3. \A d \in Coroutines : pc'[d] = "parked" => who'[conn'[d]] = d /\ conn'[d] \notin Members(free)'
    <3>1. ASSUME NEW d \in Coroutines, pc'[d] = "parked", d # c PROVE who'[conn'[d]] = d /\ conn'[d] \notin Members(free)'
      <4>1. pc[d] = "parked" /\ conn'[d] = conn[d] /\ conn[d] \in Conns
        BY <1>8, <3>1 DEF WaitInv, Typed
      <4>. QED
        BY <4>1, <2>1, <2>2, <1>6 DEF WaitInv, ConnInv, Typed
    <3>2. conn'[c] = k /\ who'[k] = c
      BY <1>3, <1>6, <1>8 DEF WaitInv, Typed
    <3>. QED
      BY <3>1, <3>2, <2>1
  <2>4. ASSUME NEW j \in Conns PROVE j \in Members(free)' \/ \E d \in Coroutines : Holds(d, j)'
    <3>1. CASE j = k
      BY <3>1, <1>8 DEF WaitInv, Typed, Holds
    <3>2. CASE j # k
      BY <3>2, <2>1, <2>2, <1>8 DEF WaitInv, Typed, ConnInv, Holds
    <3>. QED
      BY <3>1, <3>2
  <2>. QED
    BY <2>1, <2>3, <2>4 DEF ConnInv
<1>13. WordInv'
  BY <1>1, <1>3, <1>6, <1>8 DEF WaitInv, Typed, ConnInv, WordInv, Holds
<1>14. OwnerInv'
  <2>1. Members(free)' = Members(free) \ {k}
    BY <1>3, <1>6 DEF Members
  <2>2. ASSUME NEW g \in Fds, g # f
        PROVE  /\ fdMap'[g] # None => g < Capacity /\ fd'[fdMap'[g]] = g /\ fdMap'[g] \notin Members(free)'
               /\ g < Capacity /\ reg'[g] # None => fdMap'[g] = reg'[g]
    <3>1. fdMap'[g] = fdMap[g] /\ reg'[g] = reg[g]
      BY <1>1, <1>7, <2>2 DEF WaitInv, Typed
    <3>2. fdMap[g] # None => fdMap[g] # k /\ fdMap[g] \in Conns
      BY <1>3 DEF WaitInv, OwnerInv, Typed
    <3>. QED
      BY <3>1, <3>2, <2>1, <1>6 DEF WaitInv, OwnerInv, Typed
  <2>3. /\ fdMap'[f] # None => f < Capacity /\ fd'[fdMap'[f]] = f /\ fdMap'[f] \notin Members(free)'
        /\ f < Capacity /\ reg'[f] # None => fdMap'[f] = reg'[f]
    <3>1. reg'[f] = k /\ fd'[k] = f /\ k \notin Members(free)'
      BY <1>1, <1>3, <1>6, <1>7, <2>1 DEF WaitInv, Typed
    <3>2. CASE f < Capacity
      <4>1. fdMap'[f] = k
        BY <3>2, <1>1, <1>7 DEF WaitInv, Typed
      <4>. QED
        BY <4>1, <3>1, <3>2
    <3>3. CASE ~(f < Capacity)
      <4>1. fdMap'[f] = None
        BY <3>3, <1>1, <1>7 DEF WaitInv, OwnerInv
      <4>. QED
        BY <4>1, <3>3
    <3>. QED
      BY <3>2, <3>3
  <2>. QED
    BY <2>2, <2>3 DEF OwnerInv
<1>15. PollInv'
  BY <1>1, <1>6, <1>8, <1>10 DEF WaitInv, PollInv, Roused, main, outside
<1>16. EndedWaitWakes'
  <2>1. ASSUME NEW d \in Coroutines, Parked(d)' PROVE word'[conn'[d]] = d \/ (Parked(d) /\ word[conn[d]] # d)
    <3>1. CASE d = c
      BY <3>1, <1>3, <1>6, <1>8 DEF WaitInv, Typed
    <3>2. CASE d # c
      <4>1. Parked(d) /\ conn'[d] = conn[d] /\ conn[d] \in Conns /\ conn[d] # k
        BY <2>1, <3>2, <1>1, <1>3, <1>8 DEF WaitInv, Typed, ConnInv, Parked
      <4>. QED
        BY <4>1, <1>6 DEF WaitInv, Typed
    <3>. QED
      BY <3>1, <3>2
  <2>2. Follows(timer')
    BY <1>10 DEF Follows
  <2>3. ready' = ready
    BY <1>8
  <2>. QED
    BY <2>1, <2>2, <2>3, StillWakes DEF WaitInv
<1>. QED
  BY <1>10, <1>11, <1>12, <1>13, <1>14, <1>15, <1>16 DEF WaitInv

\* The wait fails before it begins: the connection, taken from the free ones, is still one of them.
LEMMA RegisterFailsStep ==
  ASSUME Room, WaitInv, NEW c \in Coroutines, RegisterFails(c)
  PROVE  WaitInv'
<1>. USE ReactorAssumption
<1>. DEFINE k == Head(free)
<1>1. cur = c /\ loop = "drain" /\ pc[c] = "waits"
  BY DEF WaitInv, PollInv, RegisterFails
<1>2. free # <<>>
  BY <1>1, SomeFree DEF WaitInv
<1>3. k \in Conns /\ k \in Members(free) /\ k # None
  BY <1>2, Taking DEF WaitInv, Typed, ConnInv, Conns
<1>4. Chosen(target[c]) = k
  BY <1>2 DEF Chosen
<1>5. /\ free' = free /\ fd' = [fd EXCEPT ![k] = None] /\ who' = [who EXCEPT ![k] = c]
      /\ fresh' = [fresh EXCEPT ![k] = FALSE] /\ timer' = Staled(k) /\ word' = [word EXCEPT ![k] = "nil"]
      /\ fdMap' = [f \in Fds |-> IF f = target[c] /\ fdMap[f] = k THEN None ELSE fdMap[f]]
  BY <1>2, <1>3, <1>4 DEF RegisterFails
<1>6. /\ pc' = [pc EXCEPT ![c] = "runs"] /\ target' = [target EXCEPT ![c] = None]
      /\ UNCHANGED <<main, ready, cur, wait, conn, pipe, outside, kernel, waits>>
  BY DEF RegisterFails
<1>7. /\ TimerInv' /\ \A w \in Waits : timer'[w].st = timer[w].st /\ timer'[w].co = timer[w].co
  BY <1>3, <1>5, <1>6, StaleTimers DEF WaitInv
<1>8. fdMap' = fdMap
  <2>1. \A f \in Fds : fdMap[f] # k
    BY <1>3 DEF WaitInv, OwnerInv
  <2>2. fdMap' = [f \in Fds |-> fdMap[f]]
    BY <2>1, <1>5
  <2>. QED
    BY <2>2 DEF WaitInv, Typed
<1>9. Typed'
  <2>1. fd' \in [Conns -> Fds \union {None}] /\ who' \in [Conns -> Coroutines \union {None}]
    BY <1>3, <1>5 DEF WaitInv, Typed
  <2>2. word' \in [Conns -> Coroutines \union Tags]
    BY <1>3, <1>5 DEF WaitInv, Typed, Tags
  <2>3. fresh' \in [Conns -> BOOLEAN]
    BY <1>3, <1>5 DEF WaitInv, Typed
  <2>4. target' \in [Coroutines -> Fds \union {None}] /\ pc' \in [Coroutines -> {"runs", "waits", "parked", "dead"}]
    BY <1>6 DEF WaitInv, Typed
  <2>5. \A d \in Coroutines : /\ pc'[d] = "waits" => target'[d] \in Fds
                              /\ pc'[d] = "parked" => wait'[d] \in Waits /\ conn'[d] \in Conns
    BY <1>6 DEF WaitInv, Typed
  <2>. QED
    BY <1>5, <1>6, <1>8, <2>1, <2>2, <2>3, <2>4, <2>5 DEF WaitInv, Typed, main, outside, kernel
<1>10. ASSUME NEW d \in Coroutines, pc'[d] = "parked" \/ pc[d] = "parked"
       PROVE  d # c /\ pc[d] = "parked" /\ pc'[d] = "parked" /\ conn'[d] = conn[d] /\ conn[d] \in Conns /\ conn[d] # k
  <2>1. d # c /\ pc[d] = "parked" /\ pc'[d] = "parked"
    BY <1>1, <1>6, <1>10 DEF WaitInv, Typed
  <2>. QED
    BY <2>1, <1>3, <1>6 DEF WaitInv, Typed, ConnInv
<1>11. ConnInv'
  <2>1. Once(free)'
    BY <1>5 DEF WaitInv, ConnInv, Once
  <2>2. Members(free)' = Members(free)
    BY <1>5 DEF Members
  <2>3. \A d \in Coroutines : pc'[d] = "parked" => who'[conn'[d]] = d /\ conn'[d] \notin Members(free)'
    BY <1>5, <1>10, <2>2 DEF WaitInv, ConnInv, Typed
  <2>4. \A j \in Conns : j \in Members(free)' \/ \E d \in Coroutines : pc'[d] = "parked" /\ conn'[d] = j
    BY <1>10, <2>2 DEF WaitInv, ConnInv, Holds
  <2>. QED
    BY <2>1, <2>3, <2>4 DEF ConnInv, Holds
<1>12. WordInv'
  <2>1. ASSUME NEW j \in Conns, word'[j] \in Coroutines
        PROVE  pc'[word'[j]] = "parked" /\ conn'[word'[j]] = j /\ who'[j] = word'[j] /\ fresh'[j]
    <3>1. j # k /\ word'[j] = word[j]
      BY <1>3, <1>5, <2>1 DEF WaitInv, Typed
    <3>2. pc[word[j]] = "parked" /\ conn[word[j]] = j /\ who[j] = word[j] /\ fresh[j]
      BY <2>1, <3>1 DEF WaitInv, WordInv, Holds
    <3>3. who'[j] = who[j]
      BY <3>1, <1>5 DEF WaitInv, Typed
    <3>4. fresh'[j]
      BY <3>1, <3>2, <1>5 DEF WaitInv, Typed
    <3>. QED
      BY <2>1, <3>1, <3>2, <3>3, <3>4, <1>10
  <2>. QED
    BY <2>1 DEF WordInv, Holds
<1>13. OwnerInv'
  <2>1. Members(free)' = Members(free)
    BY <1>5 DEF Members
  <2>2. \A f \in Fds : fdMap[f] # None => fdMap[f] \in Conns /\ fdMap[f] # k
    BY <1>3 DEF WaitInv, OwnerInv, Typed
  <2>3. \A f \in Fds : fdMap[f] # None => fd'[fdMap[f]] = fd[fdMap[f]]
    BY <2>2, <1>5 DEF WaitInv, Typed
  <2>. QED
    BY <2>1, <2>3, <1>6, <1>8 DEF WaitInv, OwnerInv, kernel
<1>14. PollInv'
  BY <1>1, <1>6, <1>7 DEF WaitInv, PollInv, Roused, main, outside
<1>15. EndedWaitWakes'
  <2>1. ASSUME NEW d \in Coroutines, Parked(d)' PROVE word'[conn'[d]] = d \/ (Parked(d) /\ word[conn[d]] # d)
    <3>1. Parked(d) /\ conn'[d] = conn[d] /\ conn[d] \in Conns /\ conn[d] # k
      BY <2>1, <1>6, <1>10 DEF Parked
    <3>2. word'[conn'[d]] = word[conn[d]]
      BY <3>1, <1>5 DEF WaitInv, Typed
    <3>. QED
      BY <3>1, <3>2
  <2>2. Follows(timer')
    BY <1>7 DEF Follows
  <2>3. ready' = ready
    BY <1>6
  <2>. QED
    BY <2>1, <2>2, <2>3, StillWakes DEF WaitInv
<1>. QED
  BY <1>7, <1>9, <1>11, <1>12, <1>13, <1>14, <1>15 DEF WaitInv

\* The end of a wait cancels its timer if it has not started, and frees their context then.
LEMMA CancelledTimer ==
  ASSUME TimerInv, NEW k \in Conns, NEW w \in Waits, timer' = [Staled(k) EXCEPT ![w] = Cancelled(@)], waits' = waits
  PROVE  TimerInv' /\ \A v \in Waits : timer[v].st # "armed" => timer'[v].st = timer[v].st /\ timer'[v].co = timer[v].co
<1>1. \A v \in Waits : timer[v] \in Contexts
  BY DEF TimerInv
<1>2. ASSUME NEW v \in Waits
      PROVE  LET s == Staled(k)[v] IN
             /\ s \in Contexts /\ s.st = timer[v].st /\ s.co = timer[v].co
             /\ s.conn = timer[v].conn /\ s.frees = timer[v].frees
  <2>1. Staled(k)[v] = IF timer[v].conn = k THEN [timer[v] EXCEPT !.fresh = FALSE] ELSE timer[v]
    BY DEF Staled
  <2>2. timer[v] \in Contexts
    BY <1>1
  <2>3. CASE timer[v].conn = k
    <3>1. Staled(k)[v] = [timer[v] EXCEPT !.fresh = FALSE]
      BY <2>1, <2>3
    <3>. QED
      BY <2>2, <3>1, StaleRecord
  <2>4. CASE timer[v].conn # k
    BY <2>1, <2>2, <2>4
  <2>. QED
    BY <2>3, <2>4
<1>3. /\ \A v \in Waits : v # w => timer'[v] = Staled(k)[v]
      /\ timer'[w] = Cancelled(Staled(k)[w])
      /\ timer' = [v \in Waits |-> timer'[v]]
  BY DEF Staled
<1>4. CASE timer[w].st = "armed"
  <2>1. timer'[w] = Freed(Staled(k)[w])
    BY <1>2, <1>3, <1>4 DEF Cancelled
  <2>2. Staled(k)[w].frees = 0
    BY <1>2, <1>4 DEF TimerInv, Calls
  <2>3. timer'[w] = [st |-> "over", conn |-> None, co |-> None, fresh |-> FALSE, frees |-> 1]
    BY <2>1, <2>2 DEF Freed
  <2>4. timer'[w] \in Contexts
    <3>1. [st |-> "over", conn |-> None, co |-> None, fresh |-> FALSE, frees |-> 1] \in Contexts
      BY DEF Contexts
    <3>. QED
      BY <2>3, <3>1
  <2>5. timer'[w].st = "over" /\ timer'[w].frees = 1
    BY <2>3
  <2>6. timer' \in [Waits -> Contexts]
    BY <1>2, <1>3, <2>4
  <2>7. \A v \in Waits : v # w => timer'[v].st = timer[v].st /\ timer'[v].co = timer[v].co
                                  /\ timer'[v].conn = timer[v].conn /\ timer'[v].frees = timer[v].frees
    BY <1>2, <1>3
  <2>8. w > waits => FALSE
    BY <1>4 DEF TimerInv
  <2>9. TimerInv'
    BY <2>5, <2>6, <2>7, <2>8 DEF TimerInv, Calls
  <2>. QED
    BY <2>7, <2>9, <1>4
<1>5. CASE timer[w].st # "armed"
  <2>1. timer'[w] = Staled(k)[w]
    BY <1>2, <1>3, <1>5 DEF Cancelled
  <2>2. timer' \in [Waits -> Contexts]
    BY <1>2, <1>3, <2>1
  <2>3. \A v \in Waits : timer'[v].st = timer[v].st /\ timer'[v].co = timer[v].co
                         /\ timer'[v].conn = timer[v].conn /\ timer'[v].frees = timer[v].frees
    BY <1>2, <1>3, <2>1
  <2>4. TimerInv'
    BY <2>2, <2>3 DEF TimerInv
  <2>. QED
    BY <2>3, <2>4
<1>. QED
  BY <1>4, <1>5

\* The wait is over: its registration goes if it is still its own, and its connection is free again.
LEMMA EndWaitStep ==
  ASSUME Room, WaitInv, NEW c \in Coroutines, EndWait(c)
  PROVE  WaitInv'
<1>. USE ReactorAssumption
<1>. DEFINE k == conn[c]
            w == wait[c]
<1>1. cur = c /\ loop = "drain" /\ pc[c] = "parked" /\ word[k] # c
  BY DEF WaitInv, PollInv, EndWait
<1>2. k \in Conns /\ w \in Waits /\ who[k] = c /\ k \notin Members(free) /\ k # None
  BY <1>1 DEF WaitInv, Typed, ConnInv, Conns
<1>3. /\ reg' = (IF Owned(k) THEN [reg EXCEPT ![fd[k]] = None] ELSE reg)
      /\ edge' = (IF Owned(k) THEN [edge EXCEPT ![fd[k]] = FALSE] ELSE edge)
      /\ fdMap' = (IF Owned(k) THEN [fdMap EXCEPT ![fd[k]] = None] ELSE fdMap)
  BY DEF EndWait
<1>4. /\ timer' = [Staled(k) EXCEPT ![w] = Cancelled(@)]
      /\ fresh' = [fresh EXCEPT ![k] = FALSE] /\ fd' = [fd EXCEPT ![k] = None]
      /\ free' = <<k>> \o free /\ pc' = [pc EXCEPT ![c] = "runs"]
      /\ wait' = [wait EXCEPT ![c] = None] /\ conn' = [conn EXCEPT ![c] = None]
      /\ UNCHANGED <<main, ready, cur, target, pipe, outside, word, who, open, data, waits>>
  BY DEF EndWait
<1>5. TimerInv' /\ \A v \in Waits : timer[v].st # "armed" => timer'[v].st = timer[v].st /\ timer'[v].co = timer[v].co
  BY <1>2, <1>4, CancelledTimer DEF WaitInv
<1>6. <<k>> \o free \in Seq(Conns) /\ Once(<<k>> \o free) /\ Members(<<k>> \o free) = Members(free) \union {k}
  BY <1>2, GivingBack DEF WaitInv, Typed, ConnInv
<1>7. free' \in Seq(Conns)
  BY <1>4, <1>6
<1>8. Once(free)'
  BY <1>4, <1>6 DEF Once
<1>9. Members(free)' = Members(free) \union {k}
  BY <1>4, <1>6 DEF Members
<1>10. Typed'
  <2>1. reg' \in [Fds -> Conns \union {None}] /\ fdMap' \in [Fds -> Conns \union {None}]
    BY <1>3 DEF WaitInv, Typed
  <2>2. edge' \in [Fds -> BOOLEAN]
    BY <1>3 DEF WaitInv, Typed
  <2>3. fresh' \in [Conns -> BOOLEAN]
    BY <1>2, <1>4 DEF WaitInv, Typed
  <2>4. /\ fd' \in [Conns -> Fds \union {None}] /\ pc' \in [Coroutines -> {"runs", "waits", "parked", "dead"}]
        /\ wait' \in [Coroutines -> Waits \union {None}] /\ conn' \in [Coroutines -> Conns \union {None}]
    BY <1>2, <1>4 DEF WaitInv, Typed
  <2>5. \A d \in Coroutines : /\ pc'[d] = "waits" => target'[d] \in Fds
                              /\ pc'[d] = "parked" => wait'[d] \in Waits /\ conn'[d] \in Conns
    BY <1>4 DEF WaitInv, Typed
  <2>. QED
    BY <1>4, <1>7, <2>1, <2>2, <2>3, <2>4, <2>5 DEF WaitInv, Typed, main, outside
<1>11. ASSUME NEW d \in Coroutines, pc'[d] = "parked" \/ (pc[d] = "parked" /\ conn[d] # k)
       PROVE  d # c /\ pc[d] = "parked" /\ pc'[d] = "parked" /\ conn'[d] = conn[d] /\ conn[d] \in Conns /\ conn[d] # k
  <2>1. d # c /\ pc[d] = "parked" /\ pc'[d] = "parked" /\ conn'[d] = conn[d]
    BY <1>1, <1>4, <1>11 DEF WaitInv, Typed
  <2>. QED
    BY <2>1, <1>2 DEF WaitInv, Typed, ConnInv
<1>12. ConnInv'
  <2>1. \A d \in Coroutines : pc'[d] = "parked" => who'[conn'[d]] = d /\ conn'[d] \notin Members(free)'
    BY <1>4, <1>9, <1>11 DEF WaitInv, ConnInv, Typed
  <2>2. \A j \in Conns : j \in Members(free)' \/ \E d \in Coroutines : pc'[d] = "parked" /\ conn'[d] = j
    BY <1>9, <1>11 DEF WaitInv, ConnInv, Holds
  <2>. QED
    BY <1>8, <2>1, <2>2 DEF ConnInv, Holds
<1>13. WordInv'
  <2>1. ASSUME NEW j \in Conns, word'[j] \in Coroutines
        PROVE  pc'[word'[j]] = "parked" /\ conn'[word'[j]] = j /\ who'[j] = word'[j] /\ fresh'[j]
    <3>1. word'[j] = word[j] /\ who'[j] = who[j]
      BY <1>4
    <3>2. pc[word[j]] = "parked" /\ conn[word[j]] = j /\ who[j] = word[j] /\ fresh[j]
      BY <2>1, <3>1 DEF WaitInv, WordInv, Holds
    <3>3. j # k
      BY <3>2, <1>1, <1>2
    <3>4. fresh'[j]
      BY <3>2, <3>3, <1>4 DEF WaitInv, Typed
    <3>. QED
      BY <2>1, <3>1, <3>2, <3>3, <3>4, <1>11
  <2>. QED
    BY <2>1 DEF WordInv, Holds
<1>14. OwnerInv'
  <2>1. ASSUME NEW g \in Fds, fdMap[g] = k PROVE Owned(k) /\ g = fd[k]
    BY <2>1, <1>2 DEF WaitInv, OwnerInv, Owned
  <2>2. Owned(k) => fd[k] \in Fds /\ fdMap[fd[k]] = k
    BY DEF Owned
  <2>3. ASSUME NEW g \in Fds
        PROVE  \/ fdMap'[g] = None /\ (g < Capacity => reg'[g] = None)
               \/ fdMap'[g] = fdMap[g] /\ fdMap[g] # k /\ reg'[g] = reg[g]
    <3>1. CASE Owned(k) /\ g = fd[k]
      BY <3>1, <2>2, <1>3 DEF WaitInv, Typed
    <3>2. CASE Owned(k) /\ g # fd[k]
      BY <3>2, <2>1, <2>2, <1>3 DEF WaitInv, Typed
    <3>3. CASE ~Owned(k)
      BY <3>3, <2>1, <1>3
    <3>. QED
      BY <3>1, <3>2, <3>3
  <2>4. ASSUME NEW g \in Fds
        PROVE  /\ fdMap'[g] # None => g < Capacity /\ fd'[fdMap'[g]] = g /\ fdMap'[g] \notin Members(free)'
               /\ g < Capacity /\ reg'[g] # None => fdMap'[g] = reg'[g]
    <3>1. CASE fdMap'[g] = None /\ (g < Capacity => reg'[g] = None)
      BY <3>1
    <3>2. CASE fdMap'[g] = fdMap[g] /\ fdMap[g] # k /\ reg'[g] = reg[g]
      <4>1. fdMap[g] # None => fdMap[g] \in Conns /\ fd'[fdMap[g]] = fd[fdMap[g]]
        BY <3>2, <1>2, <1>4 DEF WaitInv, Typed
      <4>. QED
        BY <4>1, <3>2, <1>9 DEF WaitInv, OwnerInv
    <3>. QED
      BY <2>3, <3>1, <3>2
  <2>. QED
    BY <2>4 DEF OwnerInv
<1>15. PollInv'
  BY <1>1, <1>4, <1>5 DEF WaitInv, PollInv, Roused, main, outside
<1>16. EndedWaitWakes'
  <2>1. ASSUME NEW d \in Coroutines, Parked(d)' PROVE word'[conn'[d]] = d \/ (Parked(d) /\ word[conn[d]] # d)
    <3>1. Parked(d) /\ conn'[d] = conn[d]
      BY <2>1, <1>4, <1>11 DEF Parked
    <3>. QED
      BY <3>1, <1>4
  <2>2. Follows(timer')
    BY <1>5 DEF Follows
  <2>3. ready' = ready
    BY <1>4
  <2>. QED
    BY <2>1, <2>2, <2>3, StillWakes DEF WaitInv
<1>. QED
  BY <1>5, <1>10, <1>12, <1>13, <1>14, <1>15, <1>16 DEF WaitInv

-----------------------------------------------------------------------------
(* The theorems                                                            *)

\* Every step keeps the waits in order.
LEMMA WaitStep == Room /\ WaitInv /\ [Next]_vars => WaitInv'
<1>. SUFFICES ASSUME Room, WaitInv, [Next]_vars PROVE WaitInv'
  OBVIOUS
<1>1. CASE Loop \/ PollTimesOut
  BY <1>1, LoopStep
<1>2. CASE Stop \/ WritePipe \/ (\E c \in Coroutines : Wake(c))
           \/ (\E f \in Fds : Arrive(f) \/ CloseElsewhere(f) \/ Reopen(f))
  BY <1>2, OutsideStep
<1>3. ASSUME NEW w \in Waits, Start(w) \/ Callback(w) PROVE WaitInv'
  BY <1>3, CallbackStep
<1>4. ASSUME NEW c \in Coroutines, Runs(c) PROVE WaitInv'
  <2>1. CASE SliceYield(c) \/ Finish(c) \/ Spurious(c) \/ (\E f \in Fds : Read(c, f))
    BY <2>1, PlainStep
  <2>2. CASE RegisterFails(c)
    BY <2>2, RegisterFailsStep
  <2>3. CASE EndWait(c)
    BY <2>3, EndWaitStep
  <2>4. CASE \E f \in Fds : Close(c, f)
    BY <2>4, CloseStep
  <2>5. CASE \E timed \in BOOLEAN : Register(c, timed)
    BY <2>5, RegisterStep
  <2>. QED
    BY <1>4, <2>1, <2>2, <2>3, <2>4, <2>5 DEF Runs
<1>5. CASE UNCHANGED vars
  <2>1. Typed'
    BY <1>5 DEF WaitInv, Typed, vars, main, cos, outside, conns, kernel, timing
  <2>. QED
    BY <1>5, <2>1, Stays DEF WaitInv, vars, main, cos, outside, conns, kernel, timing
<1>. QED
  BY <1>1, <1>2, <1>3, <1>4, <1>5 DEF Next

\* Connections, words, owners and timers stay in order (lm_reactor.c, lm_socket.c) as long as the
\* pool has a connection for each coroutine.
THEOREM WaitInvariance == Room => (Spec => []WaitInv)
<1>. SUFFICES ASSUME Room PROVE Spec => []WaitInv
  OBVIOUS
<1>1. Init => WaitInv
  BY Begins
<1>2. WaitInv /\ [Next]_vars => WaitInv'
  BY WaitStep
<1>. QED
  BY <1>1, <1>2, PTL DEF Spec

\* A wait that an event, a timeout or a close has ended is not forgotten (lm_socket.c: the one who
\* takes the word from the waiter is the one that wakes it).
THEOREM EveryEndedWaitWakes == Room => (Spec => []EndedWaitWakes)
<1>. SUFFICES ASSUME Room PROVE Spec => []EndedWaitWakes
  OBVIOUS
<1>1. WaitInv => EndedWaitWakes
  BY DEF WaitInv
<1>. QED
  BY <1>1, WaitInvariance, PTL

\* The context a waiter shares with its timer is freed once, and not under the callback.
THEOREM ContextFreedOnce == Room => (Spec => []FreedOnce)
<1>. SUFFICES ASSUME Room PROVE Spec => []FreedOnce
  OBVIOUS
<1>1. WaitInv => FreedOnce
  BY DEF WaitInv, TimerInv, FreedOnce, Calls
<1>. QED
  BY <1>1, WaitInvariance, PTL

\* A registration in the kernel of a number in the table of owners is one of a connection that
\* waits for the number, though connections also go to numbers that have no place in the table.
THEOREM NothingDangles == Room => (Spec => []NoDanglingRegistration)
<1>. SUFFICES ASSUME Room PROVE Spec => []NoDanglingRegistration
  OBVIOUS
<1>1. WaitInv => NoDanglingRegistration
  <2>1. SUFFICES ASSUME WaitInv, NEW f \in Fds, f < Capacity, reg[f] # None PROVE fd[reg[f]] = f
    BY DEF NoDanglingRegistration, Dangles
  <2>2. fdMap[f] = reg[f]
    BY <2>1 DEF WaitInv, OwnerInv
  <2>. QED
    BY <2>1, <2>2 DEF WaitInv, OwnerInv
<1>. QED
  BY <1>1, WaitInvariance, PTL

\* The loop does not go to sleep on a queued coroutine or a stop without a byte in its pipe, or
\* somebody who is about to write one (lm_scheduler_wakeup and lm_reactor_stop write it last).
THEOREM NoSleepOnWork == Room => (Spec => []SleepsOnNothing)
<1>. SUFFICES ASSUME Room PROVE Spec => []SleepsOnNothing
  OBVIOUS
<1>1. WaitInv => SleepsOnNothing
  BY DEF WaitInv, PollInv, SleepsOnNothing
<1>. QED
  BY <1>1, WaitInvariance, PTL

\* Only the end of its own wait or a close takes a registration away (lm_reactor_del asks the
\* table of owners first).
THEOREM RegistrationsKept == Room => (Spec => RegistrationKept)
<1>. SUFFICES ASSUME Room PROVE Spec => RegistrationKept
  OBVIOUS
<1>. DEFINE Kept(f) == reg[f] # None /\ reg'[f] # reg[f] =>
                ~open'[f] \/ (cur = who[reg[f]] /\ word[reg[f]] # cur /\ conn[cur] = reg[f])
<1>1. ASSUME WaitInv, Next, NEW f \in Fds, reg[f] # None, reg'[f] # reg[f]
      PROVE  ~open'[f] \/ (cur = who[reg[f]] /\ word[reg[f]] # cur /\ conn[cur] = reg[f])
  <2>1. UNCHANGED reg \/ (\E c \in Coroutines : EndWait(c) \/ (\E timed \in BOOLEAN : Register(c, timed)))
        \/ (\E g \in Fds : KernelClose(g))
    BY <1>1 DEF Next, Loop, Top, Resume, Drained, Poll, Dispatched, Fire, PollTimesOut, Stop, WritePipe, Runs, SliceYield,
          Finish, RegisterFails, Spurious, Read, Close, Wake, Start, Callback, CheckGen, TakeWord, PostTimedOut,
          WriteTimedOut, Arrive, CloseElsewhere, Reopen, conns, kernel
  <2>2. ASSUME NEW c \in Coroutines, EndWait(c)
        PROVE  cur = who[reg[f]] /\ word[reg[f]] # cur /\ conn[cur] = reg[f]
    <3>1. Owned(conn[c]) /\ reg' = [reg EXCEPT ![fd[conn[c]]] = None]
      BY <1>1, <2>2 DEF EndWait
    <3>2. f = fd[conn[c]]
      BY <1>1, <3>1 DEF WaitInv, Typed
    <3>3. reg[f] = conn[c]
      BY <1>1, <3>1, <3>2 DEF Owned, WaitInv, OwnerInv
    <3>4. cur = c /\ pc[c] = "parked" /\ word[conn[c]] # c
      BY <2>2 DEF EndWait
    <3>5. who[conn[c]] = c
      BY <1>1, <3>4 DEF WaitInv, ConnInv
    <3>. QED
      BY <3>3, <3>4, <3>5
  <2>3. ASSUME NEW c \in Coroutines, NEW timed \in BOOLEAN, Register(c, timed) PROVE FALSE
    <3>1. reg[target[c]] = None /\ \E k : reg' = [reg EXCEPT ![target[c]] = k]
      BY <2>3 DEF Register, CanAdd
    <3>. QED
      BY <1>1, <3>1 DEF WaitInv, Typed
  <2>4. ASSUME NEW g \in Fds, KernelClose(g) PROVE ~open'[f]
    BY <1>1, <2>4 DEF KernelClose, WaitInv, Typed
  <2>. QED
    BY <1>1, <2>1, <2>2, <2>3, <2>4
<1>2. WaitInv /\ [Next]_vars => [\A f \in Fds : Kept(f)]_vars
  BY <1>1
<1>. QED
  BY <1>2, WaitInvariance, PTL DEF Spec, RegistrationKept

=============================================================================
