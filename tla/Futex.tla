------------------------------- MODULE Futex -------------------------------
(***************************************************************************)
(* What the synchronisation primitives of lm_sync.c and lm_cond.c stand    *)
(* on: one 32-bit atomic word, the agents asleep on it in the table of     *)
(* lm_butex.c, and the next operation of every agent.  Agents are          *)
(* coroutines and threads alike, lm_butex_wait sorts them out.             *)
(*                                                                         *)
(* One atomic operation of the code is one step.  lm_butex_wait compares   *)
(* and joins the sleepers in one step and lm_butex_wake removes them in    *)
(* one: the code does both under the lock of the word's bucket.  Butex.tla *)
(* models that code and is checked to implement these steps.               *)
(***************************************************************************)
EXTENDS Naturals, FiniteSets

CONSTANT Agents   \* callers of the primitive

VARIABLES word,      \* the primitive's atomic word
          sleepers,  \* agents with an entry for the word in the butex table
          pc,        \* the operation each agent performs next
          seen       \* the value of the word each agent holds in a local, or 0

vars == <<word, sleepers, pc, seen>>

Sleeping == {"asleep", "rasleep"}   \* blocked in lm_butex_wait

Goto(a, from, to) == pc[a] = from /\ pc' = [pc EXCEPT ![a] = to]

Forget(a) == seen' = [seen EXCEPT ![a] = 0]

\* v = atomic_load(&word), kept for the operation at "to".
Load(a, from, to) ==
    /\ Goto(a, from, to)
    /\ seen' = [seen EXCEPT ![a] = word]
    /\ UNCHANGED <<word, sleepers>>

\* An operation that leaves a with the new value of the word and nothing read.
Write(a, from, new, to) ==
    /\ Goto(a, from, to)
    /\ word' = new
    /\ Forget(a)
    /\ UNCHANGED sleepers

\* atomic_compare_exchange_strong(&word, old, new).
Cas(a, from, old, new, done, failed) ==
    \/ word = old /\ Write(a, from, new, done)
    \/ word # old /\ Write(a, from, word, failed)

\* lm_butex_wait(&word, expected): an agent sleeps only while the word has the
\* value it expects; a changed word sends it back at once.
FutexWait(a, from, expected, asleep, back) ==
    /\ \/ word = expected /\ Goto(a, from, asleep) /\ sleepers' = sleepers \union {a}
       \/ word # expected /\ Goto(a, from, back) /\ sleepers' = sleepers
    /\ Forget(a)
    /\ UNCHANGED word

\* lm_butex_wait returns to an agent whose entry a wake has unlinked.
FutexResume(a, asleep, back) ==
    /\ a \notin sleepers
    /\ Goto(a, asleep, back)
    /\ UNCHANGED <<word, sleepers, seen>>

\* lm_butex_wake(&word, 1).
FutexWakeOne(a, from, to) ==
    /\ Goto(a, from, to)
    /\ \/ \E s \in sleepers : sleepers' = sleepers \ {s}
       \/ sleepers = {} /\ UNCHANGED sleepers
    /\ UNCHANGED <<word, seen>>

\* lm_butex_wake_all(&word).
FutexWakeAll(a, from, to) ==
    /\ Goto(a, from, to)
    /\ sleepers' = {}
    /\ UNCHANGED <<word, seen>>

\* An agent at one of these operations.
At(locs) == {a \in Agents : pc[a] \in locs}

\* Agents a wake has unlinked and which have not run since.
Woken == {a \in Agents : pc[a] \in Sleeping /\ a \notin sleepers}
=============================================================================
