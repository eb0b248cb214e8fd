------------------------------- MODULE Butex -------------------------------
(***************************************************************************)
(* lm_butex_wait and lm_butex_wake of lm_butex.c on the words that share a *)
(* bucket of the waiter table: the entries with their reference counts,    *)
(* the threads that park and the coroutines that yield, the wakers.        *)
(*                                                                         *)
(* A critical section under the bucket's lock is one step.  A word changes *)
(* before its wake, as the header asks of the callers, and counts up.  The *)
(* callers of this repository wake one waiter or all of them.  The order   *)
(* of a chain is left out: whom a waker of one picks, and whom a waker of  *)
(* many tells first, is open.                                              *)
(***************************************************************************)
EXTENDS Naturals, FiniteSets

CONSTANTS Threads, Coroutines,  \* agents that wait
          Wakers, Singles,      \* agents that wake; those who call lm_butex_wake(word, 1)
          Keys,                 \* the words
          MaxChanges,           \* bound: changes of a word
          MaxWaits              \* bound: calls of lm_butex_wait of an agent

Waiters == Threads \union Coroutines
Entries == Waiters \X (1..MaxWaits)   \* what calloc returns to a waiter

ASSUME ButexAssumption ==
    /\ Threads \intersect Coroutines = {} /\ Waiters \intersect Wakers = {}
    /\ Singles \subseteq Wakers /\ Keys # {} /\ MaxChanges \in Nat /\ MaxWaits \in Nat

VARIABLES word,         \* the words
          bucket,       \* the entries of its chain
          entry,        \* [key, refs, told]: e->key, e->refcnt, e->woke or e->notified
          pc, key, seen, waits, \* of a waiter: next step, its word and expected value, calls so far
          posted,       \* coroutines in the ready queue of their scheduler
          waker         \* of a waker: next step, its word, picked, the entry it tells

waiter == <<pc, key, seen, waits>>
vars == <<word, bucket, entry, waiter, posted, waker>>

NoKey   == CHOOSE k \in Keys : TRUE   \* what is in a variable nobody reads
NoEntry == <<>>
Rest    == [step |-> "out", key |-> NoKey, picked |-> {}, cur |-> NoEntry]
Freed   == [key |-> NoKey, refs |-> 0, told |-> FALSE]

Init == /\ word = [k \in Keys |-> 0] /\ bucket = {}
        /\ entry = [e \in Entries |-> Freed]
        /\ pc = [w \in Waiters |-> "out"] /\ key = [w \in Waiters |-> NoKey]
        /\ seen = [w \in Waiters |-> 0] /\ waits = [w \in Waiters |-> 0]
        /\ posted = {}
        /\ waker = [h \in Wakers |-> Rest]

Goto(w, from, to) == pc[w] = from /\ pc' = [pc EXCEPT ![w] = to]

\* The entry of the wait w is in, and that of its next one.
Mine(w) == <<w, waits[w]>>
Fresh(w) == <<w, waits[w] + 1>>

\* entry_release: the last reference frees the entry.
Release(e) == IF entry[e].refs = 1 THEN entry' = [entry EXCEPT ![e] = Freed]
                                    ELSE entry' = [entry EXCEPT ![e].refs = @ - 1]

\* lm_butex_wait returns.
Leave(w, from) == /\ Goto(w, from, "out")
                  /\ key' = [key EXCEPT ![w] = NoKey] /\ seen' = [seen EXCEPT ![w] = 0]

-----------------------------------------------------------------------------
(* lm_butex_wait *)

\* A caller has read the word and waits for it to change.
Call(w, k) ==
    /\ waits[w] < MaxWaits /\ Goto(w, "out", "compare")
    /\ key' = [key EXCEPT ![w] = k] /\ seen' = [seen EXCEPT ![w] = word[k]]
    /\ UNCHANGED <<word, bucket, entry, waits, posted, waker>>

\* The first comparison, without the lock.
Compare(w) ==
    /\ \/ word[key[w]] = seen[w] /\ Goto(w, "compare", "join") /\ UNCHANGED <<key, seen>>
       \/ word[key[w]] # seen[w] /\ Leave(w, "compare")
    /\ UNCHANGED <<word, bucket, entry, waits, posted, waker>>

\* Slip: the comparison is not repeated under the lock.
JoinUnchecked(w) ==
    /\ Goto(w, "join", "loop")
    /\ waits' = [waits EXCEPT ![w] = @ + 1]
    /\ entry' = [entry EXCEPT ![Fresh(w)] = [key |-> key[w], refs |-> 1, told |-> FALSE]]
    /\ bucket' = bucket \union {Fresh(w)}
    /\ UNCHANGED <<word, key, seen, posted, waker>>

\* The comparison under the lock, and the entry joins the bucket.
Join(w) ==
    \/ /\ word[key[w]] = seen[w] /\ Goto(w, "join", "loop")
       /\ waits' = [waits EXCEPT ![w] = @ + 1]
       /\ entry' = [entry EXCEPT ![Fresh(w)] = [key |-> key[w], refs |-> 1, told |-> FALSE]]
       /\ bucket' = bucket \union {Fresh(w)}
       /\ UNCHANGED <<word, key, seen, posted, waker>>
    \/ /\ word[key[w]] # seen[w] /\ Leave(w, "join")
       /\ UNCHANGED <<word, bucket, entry, waits, posted, waker>>

\* The loop ends when the waker has told; until then a coroutine yields and a
\* thread parks, which compares notified once more.
Loop(w) ==
    /\ Goto(w, "loop", IF entry[Mine(w)].told THEN "release" ELSE "parked")
    /\ UNCHANGED <<word, bucket, entry, key, seen, waits, posted, waker>>

\* Its scheduler resumes a coroutine that has been posted.
Resume(w) ==
    /\ w \in posted /\ posted' = posted \ {w} /\ Goto(w, "parked", "loop")
    /\ UNCHANGED <<word, bucket, entry, key, seen, waits, waker>>

\* Slip: whoever is resumed returns, without a look whether he has been told.
SpuriousReturn(w) ==
    /\ Goto(w, "parked", "release")
    /\ UNCHANGED <<word, bucket, entry, key, seen, waits, posted, waker>>

\* A signal interrupts a parked thread; a stale entry of a ready queue resumes a
\* coroutine.  Neither has to do with the word.
Spurious(w) ==
    /\ Goto(w, "parked", "loop")
    /\ UNCHANGED <<word, bucket, entry, key, seen, waits, posted, waker>>

\* Slip: the waiter does not give its reference back.
ReturnKeeping(w) ==
    /\ Leave(w, "release")
    /\ UNCHANGED <<word, bucket, entry, waits, posted, waker>>

Return(w) ==
    /\ Leave(w, "release")
    /\ Release(Mine(w))
    /\ UNCHANGED <<word, bucket, waits, posted, waker>>

-----------------------------------------------------------------------------
(* butex_wake_internal, by a waker that has changed the word *)

Change(h, k) ==
    /\ waker[h].step = "out" /\ word[k] < MaxChanges
    /\ word' = [word EXCEPT ![k] = @ + 1]
    /\ waker' = [waker EXCEPT ![h] = [step |-> "unlink", key |-> k, picked |-> {}, cur |-> NoEntry]]
    /\ UNCHANGED <<bucket, entry, waiter, posted>>

\* The entries of the word: one of them, if there is one, or all.
OfWord(k) == {e \in bucket : entry[e].key = k}

Picks(h, out) == LET all == OfWord(waker[h].key) IN
                 IF h \in Singles /\ all # {} THEN \E e \in all : out = {e} ELSE out = all

\* Under the lock they leave the bucket, and the waker holds a reference to each.
Unlink(h) ==
    /\ waker[h].step = "unlink"
    /\ \E out \in SUBSET bucket :
         /\ Picks(h, out)
         /\ bucket' = bucket \ out
         /\ entry' = [e \in Entries |-> IF e \in out THEN [entry[e] EXCEPT !.refs = @ + 1] ELSE entry[e]]
         /\ waker' = [waker EXCEPT ![h] = IF out = {} THEN Rest
                                          ELSE [@ EXCEPT !.step = "tell", !.picked = out]]
    /\ UNCHANGED <<word, waiter, posted>>

\* One after the other, without the lock: e->woke or e->notified is set ...
Tell(h) ==
    /\ waker[h].step = "tell"
    /\ \E e \in waker[h].picked :
         /\ entry' = [entry EXCEPT ![e].told = TRUE]
         /\ waker' = [waker EXCEPT ![h].step = "notify", ![h].cur = e]
    /\ UNCHANGED <<word, bucket, waiter, posted>>

\* Slip: a coroutine is told and not posted.
NotifyThreads(h) ==
    LET w == waker[h].cur[1] IN
    /\ waker[h].step = "notify"
    /\ IF pc[w] = "parked" /\ w \in Threads THEN Goto(w, "parked", "loop") ELSE UNCHANGED pc
    /\ waker' = [waker EXCEPT ![h].step = "drop"]
    /\ UNCHANGED <<word, bucket, entry, key, seen, waits, posted>>

\* ... the coroutine is posted, a thread that is parked on this entry wakes ...
Notify(h) ==
    LET e == waker[h].cur  w == e[1] IN
    /\ waker[h].step = "notify"
    /\ \/ w \in Coroutines /\ posted' = posted \union {w} /\ UNCHANGED pc
       \/ /\ w \in Threads /\ UNCHANGED posted
          /\ \/ e = Mine(w) /\ Goto(w, "parked", "loop")
             \/ ~(e = Mine(w) /\ pc[w] = "parked") /\ UNCHANGED pc
    /\ waker' = [waker EXCEPT ![h].step = "drop"]
    /\ UNCHANGED <<word, bucket, entry, key, seen, waits>>

\* ... and the reference is given back.
Drop(h) ==
    LET left == waker[h].picked \ {waker[h].cur} IN
    /\ waker[h].step = "drop"
    /\ Release(waker[h].cur)
    /\ waker' = [waker EXCEPT ![h] = IF left = {} THEN Rest
                                     ELSE [@ EXCEPT !.step = "tell", !.picked = left, !.cur = NoEntry]]
    /\ UNCHANGED <<word, bucket, waiter, posted>>

-----------------------------------------------------------------------------
Wait(w) == Compare(w) \/ Join(w) \/ Loop(w) \/ Resume(w) \/ Return(w)

Wake(h) == Unlink(h) \/ Tell(h) \/ Notify(h) \/ Drop(h)

Next == \/ \E w \in Waiters : Wait(w) \/ Spurious(w) \/ \E k \in Keys : Call(w, k)
        \/ \E h \in Wakers : Wake(h) \/ \E k \in Keys : Change(h, k)

Spec == Init /\ [][Next]_vars

\* Threads run and schedulers resume what is posted.  Nobody has to change a word.
FairSpec == /\ Spec /\ \A w \in Waiters : WF_vars(Wait(w))
            /\ \A h \in Wakers : WF_vars(Wake(h))

-----------------------------------------------------------------------------
EntryType == [key : Keys, refs : 0..2, told : BOOLEAN]
WakerType == [step : {"out", "unlink", "tell", "notify", "drop"}, key : Keys,
              picked : SUBSET Entries, cur : Entries \union {NoEntry}]

TypeOK == /\ word \in [Keys -> 0..MaxChanges] /\ bucket \subseteq Entries
          /\ entry \in [Entries -> EntryType] /\ waker \in [Wakers -> WakerType]
          /\ pc \in [Waiters -> {"out", "compare", "join", "loop", "parked", "release"}]
          /\ key \in [Waiters -> Keys] /\ seen \in [Waiters -> 0..MaxChanges]
          /\ waits \in [Waiters -> 0..MaxWaits] /\ posted \subseteq Coroutines

\* Those who will still look at an entry: its waiter, and the waker that picked it.
Holders(e) == {w \in Waiters : e = Mine(w) /\ pc[w] \in {"loop", "parked", "release"}}
              \union {h \in Wakers : e \in waker[h].picked}

\* The count of references is the number of those who hold one: nobody reads an
\* entry that has been freed, and none is leaked (the comment at lm_butex.c:113-116).
RefsExact == \A e \in Entries : entry[e].refs = Cardinality(Holders(e))

\* An entry in the bucket has a waiter in its loop who has not been told, so that
\* lm_butex_check_waiter never finds one that has (lm_butex.c:374-376).
BucketUntold == \A e \in bucket : pc[e[1]] \in {"loop", "parked"} /\ ~entry[e].told

\* Whom a waker has unlinked, returns from lm_butex_wait.
UnlinkedReturns == \A w \in Waiters :
    (pc[w] \in {"loop", "parked"} /\ Mine(w) \notin bucket) ~> (pc[w] = "out")

\* The steps of Futex.tla, on which the models of lm_sync.c stand, for each word:
\* compare and sleep is one step, so is the removal of one or all sleepers, and
\* nobody returns from his sleep before that.
Uses(a, k) == IF a \in Waiters THEN key[a] = k ELSE waker[a].key = k

AbstractPc(a) == IF a \in Wakers THEN IF waker[a].step = "unlink" THEN "wake" ELSE "out"
                 ELSE CASE pc[a] \in {"compare", "join"} -> "wait"
                        [] pc[a] \in {"loop", "parked", "release"} -> "asleep"
                        [] OTHER -> "out"

Agents == Waiters \union Wakers
Sleepers(k) == {e[1] : e \in OfWord(k)}
FutexPc(k) == [a \in Agents |-> IF Uses(a, k) THEN AbstractPc(a) ELSE "out"]
FutexSeen(k) ==
    [a \in Agents |-> IF a \in Waiters /\ key[a] = k /\ pc[a] \in {"compare", "join"} THEN seen[a] ELSE 0]

F(k) == INSTANCE Futex WITH word <- word[k], sleepers <- Sleepers(k),
                            pc <- FutexPc(k), seen <- FutexSeen(k)

FutexStep(k) ==
    \/ UNCHANGED F(k)!vars
    \/ \E a \in Waiters : \/ F(k)!Load(a, "out", "wait")
                          \/ F(k)!FutexWait(a, "wait", seen[a], "asleep", "out")
                          \/ F(k)!FutexResume(a, "asleep", "out")
    \/ \E a \in Wakers : \/ F(k)!Write(a, "out", word[k] + 1, "wake")
                         \/ F(k)!FutexWakeOne(a, "wake", "out")
                         \/ F(k)!FutexWakeAll(a, "wake", "out")

ImplementsFutex == [][\A k \in Keys : FutexStep(k)]_vars
=============================================================================
