---------------------------- MODULE ButexProofs ----------------------------
(***************************************************************************)
(* The waiter table of Butex.tla counts its references exactly, holds only *)
(* waiters who have not been told, forgets nobody it has unlinked, and     *)
(* implements Futex.tla, for any waiters, wakers and words.                *)
(***************************************************************************)
EXTENDS Butex, FiniteSetTheorems, TLAPS

Waiting(w) == pc[w] \in {"loop", "parked"}
Inside(w)  == pc[w] \in {"loop", "parked", "release"}

\* A waiter inside has the entry of its word; it leaves the loop when told.
WaiterInv == \A w \in Waiters :
    /\ Inside(w) => Mine(w) \in Entries /\ entry[Mine(w)].key = key[w]
    /\ pc[w] = "release" => entry[Mine(w)].told
    /\ pc[w] \in {"compare", "join"} => waits[w] < MaxWaits

\* In the bucket are the entries of waiters nobody has picked or told.
BucketInv == \A e \in bucket :
    /\ e = Mine(e[1]) /\ Waiting(e[1]) /\ ~entry[e].told
    /\ \A h \in Wakers : e \notin waker[h].picked

\* Of what a waker has picked, which no other waker has, it has told the one it is at.
WakerInv == \A h \in Wakers :
    /\ \A e \in waker[h].picked : /\ entry[e].told <=> e = waker[h].cur
                                  /\ e[2] <= waits[e[1]]
                                  /\ \A g \in Wakers \ {h} : e \notin waker[g].picked
    /\ waker[h].step \in {"notify", "drop"} => waker[h].cur \in waker[h].picked
    /\ waker[h].step \in {"out", "unlink"} => waker[h].picked = {}
    /\ waker[h].step \notin {"notify", "drop"} => waker[h].cur = NoEntry

WaiterHolds(e) == e = Mine(e[1]) /\ Inside(e[1])
WakerHolds(e)  == \E h \in Wakers : e \in waker[h].picked

RefsInv == \A e \in Entries :
    entry[e].refs = (IF WaiterHolds(e) THEN 1 ELSE 0) + (IF WakerHolds(e) THEN 1 ELSE 0)

\* The inductive invariant of the table.
ButexInv == TypeOK /\ WaiterInv /\ BucketInv /\ WakerInv /\ RefsInv

-----------------------------------------------------------------------------
(* What an entry is                                                        *)

\* An entry is its waiter and the number of the wait; none of them is NoEntry.
LEMMA EntryParts ==
  /\ \A e \in Entries : e[1] \in Waiters /\ e[2] \in 1..MaxWaits /\ e = <<e[1], e[2]>>
  /\ \A w \in Waiters, n \in 1..MaxWaits : /\ <<w, n>> \in Entries
                                           /\ <<w, n>>[1] = w /\ <<w, n>>[2] = n
  /\ NoEntry \notin Entries
<1>1. \A e \in Entries : e[1] \in Waiters /\ e[2] \in 1..MaxWaits /\ e = <<e[1], e[2]>>
  BY DEF Entries
<1>2. \A w \in Waiters, n \in 1..MaxWaits : <<w, n>> \in Entries
  BY DEF Entries
<1>3. NoEntry \notin Entries
  BY DEF Entries, NoEntry
<1>. QED
  BY <1>1, <1>2, <1>3

\* NoKey is a word.
LEMMA NoKeyType == NoKey \in Keys
BY ButexAssumption DEF NoKey

\* The fields of an entry, and what setting one of them leaves.
LEMMA EntryTypes ==
  /\ Freed \in EntryType /\ Freed.refs = 0
  /\ \A k \in Keys : [key |-> k, refs |-> 1, told |-> FALSE] \in EntryType
  /\ \A r \in EntryType : /\ r.key \in Keys /\ r.refs \in 0..2 /\ r.told \in BOOLEAN
                           /\ \A n \in 0..2 : [r EXCEPT !.refs = n] \in EntryType
                           /\ [r EXCEPT !.told = TRUE] \in EntryType
<1>1. Freed \in EntryType /\ Freed.refs = 0
  BY NoKeyType DEF EntryType, Freed
<1>2. \A k \in Keys : [key |-> k, refs |-> 1, told |-> FALSE] \in EntryType
  BY DEF EntryType
<1>3. ASSUME NEW r \in EntryType
      PROVE  /\ r.key \in Keys /\ r.refs \in 0..2 /\ r.told \in BOOLEAN
             /\ \A n \in 0..2 : [r EXCEPT !.refs = n] \in EntryType
             /\ [r EXCEPT !.told = TRUE] \in EntryType
  BY DEF EntryType
<1>. QED
  BY <1>1, <1>2, <1>3

\* The same of a waker.
LEMMA WakerTypes ==
  /\ Rest \in WakerType
  /\ \A k \in Keys : [step |-> "unlink", key |-> k, picked |-> {}, cur |-> NoEntry] \in WakerType
  /\ \A r \in WakerType :
       /\ r.key \in Keys /\ r.picked \in SUBSET Entries /\ r.cur \in Entries \union {NoEntry}
       /\ \A S \in SUBSET Entries, e \in Entries \union {NoEntry} :
            /\ [r EXCEPT !.step = "tell", !.picked = S] \in WakerType
            /\ [r EXCEPT !.step = "tell", !.picked = S, !.cur = NoEntry] \in WakerType
            /\ [r EXCEPT !.step = "notify", !.cur = e] \in WakerType
            /\ [r EXCEPT !.step = "drop"] \in WakerType
<1>1. Rest \in WakerType
  BY NoKeyType DEF WakerType, Rest
<1>. QED
  BY <1>1 DEF WakerType

\* What wakers pick are entries.
LEMMA PickedEntries == TypeOK => \A h \in Wakers : \A e \in waker[h].picked : e \in Entries /\ e # NoEntry
BY WakerTypes, EntryParts DEF TypeOK

-----------------------------------------------------------------------------
(* The invariant                                                           *)

\* At the start nobody waits or wakes.
LEMMA ButexInit == Init => ButexInv
<1> SUFFICES ASSUME Init PROVE ButexInv
  OBVIOUS
<1>1. TypeOK
  <2>1. entry \in [Entries -> EntryType] /\ waker \in [Wakers -> WakerType]
    BY EntryTypes, WakerTypes DEF Init
  <2>. QED
    BY <2>1, NoKeyType, ButexAssumption DEF Init, TypeOK
<1>2. WaiterInv /\ BucketInv
  BY DEF Init, WaiterInv, BucketInv, Inside
<1>3. WakerInv /\ RefsInv
  BY EntryParts DEF Init, WakerInv, RefsInv, Rest, Freed, WaiterHolds, WakerHolds, Inside
<1>. QED
  BY <1>1, <1>2, <1>3 DEF ButexInv

\* Giving back a reference that is held keeps the entries' types.
LEMMA ReleaseType ==
  ASSUME TypeOK, NEW e \in Entries, Release(e), entry[e].refs # 0
  PROVE  entry' \in [Entries -> EntryType]
<1>1. entry \in [Entries -> EntryType] /\ entry[e] \in EntryType
  BY DEF TypeOK
<1>2. entry[e].refs - 1 \in 0..2
  <2>1. entry[e].refs \in 0..2
    BY <1>1, EntryTypes
  <2>. QED
    BY <2>1
<1>3. [entry[e] EXCEPT !.refs = entry[e].refs - 1] \in EntryType
  BY <1>1, <1>2, EntryTypes
<1>4. CASE entry[e].refs = 1
  BY <1>1, <1>4, EntryTypes DEF Release
<1>5. CASE entry[e].refs # 1
  BY <1>1, <1>3, <1>5 DEF Release
<1>. QED
  BY <1>4, <1>5

\* Every step keeps the types.
LEMMA ButexTypes == ButexInv /\ [Next]_vars => TypeOK'
<1> SUFFICES ASSUME ButexInv, [Next]_vars PROVE TypeOK'
  OBVIOUS
<1> USE DEF ButexInv, TypeOK, waiter
<1>1. ASSUME NEW w \in Waiters, NEW k \in Keys, Call(w, k) PROVE TypeOK'
  BY <1>1 DEF Call, Goto
<1>3. ASSUME NEW w \in Waiters, NEW from, Leave(w, from)
      PROVE  /\ pc' \in [Waiters -> {"out", "compare", "join", "loop", "parked", "release"}]
             /\ key' \in [Waiters -> Keys] /\ seen' \in [Waiters -> 0..MaxChanges]
  BY <1>3, NoKeyType, ButexAssumption DEF Leave, Goto
<1>4. ASSUME NEW w \in Waiters, Compare(w) PROVE TypeOK'
  BY <1>3, <1>4 DEF Compare, Goto
<1>5. ASSUME NEW w \in Waiters, Loop(w) \/ Resume(w) \/ Spurious(w) PROVE TypeOK'
  BY <1>5 DEF Loop, Resume, Spurious, Goto
<1>6. ASSUME NEW w \in Waiters, Join(w) PROVE TypeOK'
  <2>1. CASE word[key[w]] # seen[w]
    BY <1>3, <1>6, <2>1 DEF Join
  <2>2. CASE word[key[w]] = seen[w]
    <3>1. pc[w] = "join" /\ waits[w] + 1 \in 1..MaxWaits
      BY <1>6, <2>2, ButexAssumption DEF Join, Goto, WaiterInv
    <3>2. Fresh(w) \in Entries
      BY <3>1, EntryParts DEF Fresh
    <3>3. [key |-> key[w], refs |-> 1, told |-> FALSE] \in EntryType
      BY EntryTypes
    <3>4. /\ entry' = [entry EXCEPT ![Fresh(w)] = [key |-> key[w], refs |-> 1, told |-> FALSE]]
          /\ bucket' = bucket \union {Fresh(w)} /\ waits' = [waits EXCEPT ![w] = @ + 1]
          /\ pc' = [pc EXCEPT ![w] = "loop"] /\ UNCHANGED <<word, key, seen, posted, waker>>
      BY <1>6, <2>2 DEF Join, Goto
    <3>5. entry' \in [Entries -> EntryType]
      BY <3>3, <3>4
    <3>. QED
      BY <3>1, <3>2, <3>4, <3>5
  <2>. QED
    BY <2>1, <2>2
<1>7. ASSUME NEW w \in Waiters, Return(w) PROVE TypeOK'
  <2>1. pc[w] = "release" /\ Mine(w) \in Entries
    BY <1>7 DEF Return, Leave, Goto, WaiterInv, Inside
  <2>2. entry[Mine(w)].refs # 0
    <3>1. Mine(w)[1] = w
      BY DEF Mine
    <3>. QED
      BY <2>1, <3>1 DEF RefsInv, WaiterHolds, Inside
  <2>3. entry' \in [Entries -> EntryType]
    BY <1>7, <2>1, <2>2, ReleaseType DEF Return
  <2>. QED
    BY <1>3, <1>7, <2>3 DEF Return
<1>8. ASSUME NEW h \in Wakers, NEW k \in Keys, Change(h, k) PROVE TypeOK'
  <2>1. waker' \in [Wakers -> WakerType]
    BY <1>8, WakerTypes DEF Change
  <2>. QED
    BY <1>8, <2>1, ButexAssumption DEF Change
<1>9. ASSUME NEW h \in Wakers, Unlink(h) PROVE TypeOK'
  <2>1. PICK out \in SUBSET bucket :
          /\ bucket' = bucket \ out
          /\ entry' = [e \in Entries |-> IF e \in out THEN [entry[e] EXCEPT !.refs = @ + 1] ELSE entry[e]]
          /\ waker' = [waker EXCEPT ![h] = IF out = {} THEN Rest ELSE [@ EXCEPT !.step = "tell", !.picked = out]]
    BY <1>9 DEF Unlink
  <2>2. ASSUME NEW e \in out PROVE [entry[e] EXCEPT !.refs = @ + 1] \in EntryType
    <3>1. entry[e].refs + 1 \in 0..2 /\ entry[e] \in EntryType
      BY <2>2 DEF BucketInv, RefsInv, WaiterHolds, WakerHolds, Waiting, Inside
    <3>. QED
      BY <3>1, EntryTypes
  <2>3. entry' \in [Entries -> EntryType]
    BY <2>1, <2>2
  <2>4. waker' \in [Wakers -> WakerType]
    BY <2>1, WakerTypes
  <2>. QED
    BY <1>9, <2>1, <2>3, <2>4 DEF Unlink
<1>10. ASSUME NEW h \in Wakers, Tell(h) PROVE TypeOK'
  <2>1. PICK e \in waker[h].picked :
          /\ entry' = [entry EXCEPT ![e].told = TRUE]
          /\ waker' = [waker EXCEPT ![h].step = "notify", ![h].cur = e]
    BY <1>10 DEF Tell
  <2>2. e \in Entries
    BY WakerTypes
  <2>3. entry' \in [Entries -> EntryType]
    BY <2>1, <2>2, EntryTypes
  <2>4. waker' \in [Wakers -> WakerType]
    BY <2>1, <2>2, WakerTypes
  <2>. QED
    BY <1>10, <2>3, <2>4 DEF Tell
<1>11. ASSUME NEW h \in Wakers, Notify(h) PROVE TypeOK'
  <2>1. waker' \in [Wakers -> WakerType]
    BY <1>11, WakerTypes DEF Notify
  <2>. QED
    BY <1>11, <2>1 DEF Notify, Goto, Waiters
<1>12. ASSUME NEW h \in Wakers, Drop(h) PROVE TypeOK'
  <2>1. waker[h].cur \in Entries /\ entry[waker[h].cur].refs # 0
    <3>1. waker[h].cur \in waker[h].picked
      BY <1>12 DEF Drop, WakerInv
    <3>2. waker[h].cur \in Entries /\ WakerHolds(waker[h].cur)
      BY <3>1, WakerTypes DEF WakerHolds
    <3>. QED
      BY <3>2 DEF RefsInv
  <2>2. waker' \in [Wakers -> WakerType]
    <3>1. waker[h].picked \ {waker[h].cur} \in SUBSET Entries
      BY WakerTypes
    <3>. QED
      BY <1>12, <3>1, WakerTypes DEF Drop
  <2>3. entry' \in [Entries -> EntryType]
    BY <1>12, <2>1, ReleaseType DEF Drop
  <2>. QED
    BY <1>12, <2>2, <2>3 DEF Drop
<1>13. CASE UNCHANGED vars
  BY <1>13 DEF vars
<1>. QED
  BY <1>1, <1>4, <1>5, <1>6, <1>7, <1>8, <1>9, <1>10, <1>11, <1>12, <1>13 DEF Next, Wait, Wake

TableInv == WaiterInv /\ BucketInv /\ WakerInv /\ RefsInv

\* The steps of a waiter outside the table's lock.
LEMMA TableWaiter ==
  ASSUME ButexInv, NEW w \in Waiters,
         \/ \E k \in Keys : Call(w, k)
         \/ Compare(w) \/ (word[key[w]] # seen[w] /\ Join(w)) \/ Loop(w) \/ Resume(w) \/ Spurious(w)
  PROVE  TableInv'
<1> USE DEF ButexInv
<1>1. UNCHANGED <<bucket, entry, waits, waker>>
  BY DEF Call, Compare, Join, Loop, Resume, Spurious
<1>2. /\ \A v \in Waiters \ {w} : pc'[v] = pc[v] /\ key'[v] = key[v]
      /\ Inside(w)' = Inside(w) /\ (Inside(w) => key'[w] = key[w])
      /\ pc'[w] = "release" => entry[Mine(w)].told
      /\ pc'[w] \in {"compare", "join"} => waits[w] < MaxWaits
      /\ Waiting(w) => Waiting(w)' \/ entry[Mine(w)].told
  BY DEF TypeOK, WaiterInv, Call, Compare, Join, Leave, Loop, Resume, Spurious, Goto, Inside, Waiting
<1>3. \A v \in Waiters : Mine(v)' = Mine(v) /\ Inside(v)' = Inside(v)
  BY <1>1, <1>2 DEF Mine, Inside
<1>4. WaiterInv'
  BY <1>1, <1>2, <1>3 DEF WaiterInv
<1>5. BucketInv'
  BY <1>1, <1>2, <1>3, EntryParts DEF BucketInv, TypeOK, Waiting
<1>6. WakerInv'
  BY <1>1 DEF WakerInv
<1>7. RefsInv'
  BY <1>1, <1>3, EntryParts DEF RefsInv, WaiterHolds, WakerHolds
<1>. QED
  BY <1>4, <1>5, <1>6, <1>7 DEF TableInv

\* A waiter joins with an entry nobody has seen.
LEMMA TableJoin ==
  ASSUME ButexInv, NEW w \in Waiters, Join(w), word[key[w]] = seen[w]
  PROVE  TableInv'
<1> USE DEF ButexInv
<1>1. /\ pc[w] = "join" /\ pc' = [pc EXCEPT ![w] = "loop"]
      /\ waits' = [waits EXCEPT ![w] = @ + 1]
      /\ entry' = [entry EXCEPT ![Fresh(w)] = [key |-> key[w], refs |-> 1, told |-> FALSE]]
      /\ bucket' = bucket \union {Fresh(w)}
      /\ key' = key /\ waker' = waker
  BY DEF Join, Goto
<1>2. waits[w] + 1 \in 1..MaxWaits /\ waits[w] \in Nat
  BY <1>1, ButexAssumption DEF WaiterInv, TypeOK
<1>3. Fresh(w) \in Entries /\ Fresh(w)[1] = w /\ Fresh(w)[2] = waits[w] + 1
  BY <1>2, EntryParts DEF Fresh
<1>4. /\ Mine(w)' = Fresh(w) /\ Inside(w)' /\ ~Inside(w)
      /\ \A v \in Waiters \ {w} : Mine(v)' = Mine(v) /\ Inside(v)' = Inside(v) /\ pc'[v] = pc[v] /\ waits'[v] = waits[v]
  BY <1>1, <1>2 DEF Mine, Fresh, Inside, TypeOK
<1>5. /\ entry'[Fresh(w)].key = key[w] /\ entry'[Fresh(w)].refs = 1 /\ ~entry'[Fresh(w)].told
      /\ \A e \in Entries : e # Fresh(w) => entry'[e] = entry[e]
  BY <1>1, <1>3 DEF TypeOK
<1>6. \A h \in Wakers : Fresh(w) \notin waker[h].picked
  BY <1>2, <1>3 DEF WakerInv
<1>7. \A e \in bucket : e[1] # w /\ e # Fresh(w) /\ e \in Entries
  BY <1>1, <1>3 DEF BucketInv, TypeOK, Waiting
<1>8. \A v \in Waiters \ {w} : Mine(v) # Fresh(w)
  BY <1>3 DEF Mine
<1>9. WaiterInv'
  BY <1>1, <1>3, <1>4, <1>5, <1>8 DEF WaiterInv, Inside
<1>10. BucketInv'
  <2>1. ASSUME NEW e \in bucket PROVE e[1] \in Waiters \ {w} /\ e = Mine(e[1])' /\ Waiting(e[1])' /\ ~entry'[e].told
    BY <1>4, <1>5, <1>7, <2>1, EntryParts DEF BucketInv, Waiting
  <2>2. Waiting(w)'
    BY <1>1 DEF Waiting, TypeOK
  <2>. QED
    BY <1>1, <1>3, <1>4, <1>5, <1>6, <2>1, <2>2 DEF BucketInv
<1>11. WakerInv'
  <2>1. \A h \in Wakers : \A e \in waker[h].picked : e \in Entries /\ e # Fresh(w) /\ e[2] <= waits'[e[1]]
    <3>1. ASSUME NEW h \in Wakers, NEW e \in waker[h].picked PROVE e[2] <= waits'[e[1]]
      <4>1. e \in Entries
        BY WakerTypes DEF TypeOK
      <4>2. e[1] \in Waiters /\ e[2] \in Nat /\ e[2] <= waits[e[1]]
        BY <4>1, EntryParts DEF WakerInv
      <4>. QED
        BY <1>1, <1>2, <1>4, <4>2 DEF TypeOK
    <3>. QED
      BY <1>6, <3>1, WakerTypes DEF TypeOK
  <2>. QED
    BY <1>1, <1>5, <2>1 DEF WakerInv
<1>12. RefsInv'
  <2>1. \A e \in Entries : WakerHolds(e)' = WakerHolds(e)
    BY <1>1 DEF WakerHolds
  <2>2. ASSUME NEW e \in Entries, e # Fresh(w) PROVE WaiterHolds(e)' = WaiterHolds(e)
    BY <1>4, <2>2, EntryParts DEF WaiterHolds
  <2>3. ASSUME NEW e \in Entries, e = Fresh(w) PROVE WaiterHolds(e)' /\ ~WakerHolds(e)
    BY <1>3, <1>4, <1>6, <2>3 DEF WaiterHolds, WakerHolds
  <2>4. ASSUME NEW e \in Entries
        PROVE  entry'[e].refs = (IF WaiterHolds(e)' THEN 1 ELSE 0) + (IF WakerHolds(e)' THEN 1 ELSE 0)
    <3>1. CASE e = Fresh(w)
      BY <1>5, <2>1, <2>3, <3>1
    <3>2. CASE e # Fresh(w)
      BY <1>5, <2>1, <2>2, <3>2 DEF RefsInv
    <3>. QED
      BY <3>1, <3>2
  <2>. QED
    BY <2>4 DEF RefsInv
<1>. QED
  BY <1>9, <1>10, <1>11, <1>12 DEF TableInv

\* A waiter returns and gives its reference back.
LEMMA TableReturn ==
  ASSUME ButexInv, NEW w \in Waiters, Return(w)
  PROVE  TableInv'
<1> USE DEF ButexInv
<1> PICK f : f = Mine(w)
  OBVIOUS
<1>1. /\ pc[w] = "release" /\ pc' = [pc EXCEPT ![w] = "out"] /\ Release(f)
      /\ UNCHANGED <<bucket, waits, waker>>
      /\ \A v \in Waiters \ {w} : key'[v] = key[v]
  BY DEF Return, Leave, Goto, TypeOK
<1>2. f \in Entries /\ f[1] = w /\ entry[f].told /\ WaiterHolds(f)
  BY <1>1 DEF WaiterInv, Inside, Mine, WaiterHolds
<1>3. f \notin bucket
  BY <1>2 DEF BucketInv
<1>4. \A e \in Entries : e # f => entry'[e] = entry[e]
  BY <1>1, <1>2 DEF TypeOK, Release
<1>5. /\ entry'[f].refs = entry[f].refs - 1
      /\ WakerHolds(f) => entry'[f].told = entry[f].told
  <2>1. entry[f].refs = 1 + (IF WakerHolds(f) THEN 1 ELSE 0)
    BY <1>2 DEF RefsInv
  <2>2. CASE WakerHolds(f)
    <3>1. entry' = [entry EXCEPT ![f].refs = @ - 1]
      BY <1>1, <2>1, <2>2 DEF Release
    <3>. QED
      BY <1>2, <3>1 DEF TypeOK, EntryType
  <2>3. CASE ~WakerHolds(f)
    <3>1. entry' = [entry EXCEPT ![f] = Freed] /\ entry[f].refs = 1
      BY <1>1, <2>1, <2>3 DEF Release
    <3>2. entry'[f] = Freed
      BY <1>2, <3>1 DEF TypeOK
    <3>. QED
      BY <2>3, <3>1, <3>2, EntryTypes
  <2>. QED
    BY <2>2, <2>3
<1>6. /\ \A v \in Waiters : Mine(v)' = Mine(v)
      /\ \A v \in Waiters \ {w} : Inside(v)' = Inside(v) /\ pc'[v] = pc[v] /\ Mine(v) # f
      /\ ~Inside(w)'
  BY <1>1, <1>2 DEF Inside, Mine, TypeOK
<1>7. WaiterInv'
  BY <1>1, <1>4, <1>6 DEF WaiterInv, TypeOK, Inside
<1>8. BucketInv'
  <2>1. \A e \in bucket : e \in Entries /\ e # f /\ e[1] \in Waiters /\ e[1] # w
    BY <1>1, <1>3, EntryParts DEF BucketInv, TypeOK, Waiting
  <2>. QED
    BY <1>1, <1>4, <1>6, <2>1 DEF BucketInv, Waiting
<1>9. WakerInv'
  <2>1. \A h \in Wakers : \A e \in waker[h].picked : entry'[e].told = entry[e].told
    BY <1>4, <1>5, WakerTypes DEF TypeOK, WakerHolds
  <2>. QED
    BY <1>1, <2>1 DEF WakerInv
<1>10. RefsInv'
  <2>1. \A e \in Entries : WakerHolds(e)' = WakerHolds(e)
    BY <1>1 DEF WakerHolds
  <2>2. ASSUME NEW e \in Entries, e # f PROVE WaiterHolds(e)' = WaiterHolds(e)
    <3>1. CASE e[1] = w
      BY <1>2, <1>6, <2>2, <3>1, EntryParts DEF WaiterHolds, Mine
    <3>2. CASE e[1] # w
      BY <1>6, <3>2, EntryParts DEF WaiterHolds
    <3>. QED
      BY <3>1, <3>2
  <2>3. ~WaiterHolds(f)'
    BY <1>2, <1>6 DEF WaiterHolds
  <2>4. entry[f].refs = 1 + (IF WakerHolds(f) THEN 1 ELSE 0)
    BY <1>2 DEF RefsInv
  <2>5. ASSUME NEW e \in Entries
        PROVE  entry'[e].refs = (IF WaiterHolds(e)' THEN 1 ELSE 0) + (IF WakerHolds(e)' THEN 1 ELSE 0)
    <3>1. CASE e = f
      BY <1>5, <2>1, <2>3, <2>4, <3>1
    <3>2. CASE e # f
      BY <1>4, <2>1, <2>2, <3>2 DEF RefsInv
    <3>. QED
      BY <3>1, <3>2
  <2>. QED
    BY <2>5 DEF RefsInv
<1>. QED
  BY <1>7, <1>8, <1>9, <1>10 DEF TableInv

\* A word changes; its waker has picked nothing yet.
LEMMA TableChange ==
  ASSUME ButexInv, NEW h \in Wakers, NEW k \in Keys, Change(h, k)
  PROVE  TableInv'
<1> USE DEF ButexInv
<1>1. /\ UNCHANGED <<bucket, entry, pc, key, waits>>
      /\ waker[h].step = "out"
      /\ waker' = [waker EXCEPT ![h] = [step |-> "unlink", key |-> k, picked |-> {}, cur |-> NoEntry]]
  BY DEF Change, waiter
<1>2. \A g \in Wakers : waker'[g].picked = waker[g].picked /\ waker'[g].cur = waker[g].cur
                        /\ (g # h => waker'[g] = waker[g])
  <2>1. waker[h].picked = {} /\ waker[h].cur = NoEntry
    BY <1>1 DEF WakerInv
  <2>2. waker'[h] = [step |-> "unlink", key |-> k, picked |-> {}, cur |-> NoEntry]
    BY <1>1 DEF TypeOK
  <2>3. \A g \in Wakers \ {h} : waker'[g] = waker[g]
    BY <1>1 DEF TypeOK
  <2>. QED
    BY <2>1, <2>2, <2>3
<1>3. waker'[h].step = "unlink"
  BY <1>1 DEF TypeOK
<1>4. WaiterInv' /\ BucketInv'
  BY <1>1, <1>2 DEF WaiterInv, BucketInv, Inside, Waiting, Mine
<1>5. WakerInv'
  BY <1>1, <1>2, <1>3 DEF WakerInv
<1>6. RefsInv'
  <2>1. \A e \in Entries : WakerHolds(e)' = WakerHolds(e) /\ WaiterHolds(e)' = WaiterHolds(e)
    BY <1>1, <1>2 DEF WakerHolds, WaiterHolds, Mine, Inside
  <2>. QED
    BY <1>1, <2>1 DEF RefsInv
<1>. QED
  BY <1>4, <1>5, <1>6 DEF TableInv

\* What a waker unlinks, it alone holds from then on.
LEMMA TableUnlink ==
  ASSUME ButexInv, NEW h \in Wakers, Unlink(h)
  PROVE  TableInv'
<1> USE DEF ButexInv
<1>1. PICK out \in SUBSET bucket :
        /\ bucket' = bucket \ out
        /\ entry' = [e \in Entries |-> IF e \in out THEN [entry[e] EXCEPT !.refs = @ + 1] ELSE entry[e]]
        /\ waker' = [waker EXCEPT ![h] = IF out = {} THEN Rest ELSE [@ EXCEPT !.step = "tell", !.picked = out]]
  BY DEF Unlink
<1>2. UNCHANGED <<pc, key, waits>> /\ waker[h].picked = {} /\ waker[h].cur = NoEntry
  BY DEF Unlink, waiter, WakerInv
<1>3. /\ waker'[h].picked = out /\ waker'[h].cur = NoEntry
      /\ waker'[h].step \in {"out", "tell"} /\ (waker'[h].step = "out" => out = {})
  <2>1. CASE out = {}
    <3>1. waker'[h] = Rest
      BY <1>1, <2>1 DEF TypeOK
    <3>. QED
      BY <2>1, <3>1 DEF Rest
  <2>2. CASE out # {}
    <3>1. waker'[h] = [waker[h] EXCEPT !.step = "tell", !.picked = out]
      BY <1>1, <2>2 DEF TypeOK
    <3>2. waker[h] \in WakerType
      BY DEF TypeOK
    <3>. QED
      BY <1>2, <3>1, <3>2 DEF WakerType
  <2>. QED
    BY <2>1, <2>2
<1>4. \A g \in Wakers \ {h} : waker'[g] = waker[g]
  BY <1>1 DEF TypeOK
<1>5. \A e \in Entries : /\ entry'[e].told = entry[e].told /\ entry'[e].key = entry[e].key
                         /\ entry'[e].refs = IF e \in out THEN entry[e].refs + 1 ELSE entry[e].refs
  <2>1. ASSUME NEW e \in Entries, e \in out
        PROVE /\ entry'[e].told = entry[e].told /\ entry'[e].key = entry[e].key
              /\ entry'[e].refs = entry[e].refs + 1
    <3>1. entry'[e] = [entry[e] EXCEPT !.refs = @ + 1] /\ entry[e] \in EntryType
      BY <1>1, <2>1 DEF TypeOK
    <3>. QED
      BY <3>1 DEF EntryType
  <2>2. \A e \in Entries \ out : entry'[e] = entry[e]
    BY <1>1
  <2>. QED
    BY <2>1, <2>2
<1>6. \A e \in out : /\ e \in Entries /\ e[1] \in Waiters /\ e[2] <= waits[e[1]] /\ ~entry[e].told
                     /\ \A g \in Wakers : e \notin waker[g].picked
  <2>1. ASSUME NEW e \in out PROVE e \in Entries /\ e[1] \in Waiters /\ e = Mine(e[1])
    BY EntryParts DEF BucketInv, TypeOK
  <2>2. ASSUME NEW e \in out PROVE e[2] <= waits[e[1]]
    BY <2>1, ButexAssumption DEF Mine, TypeOK
  <2>. QED
    BY <2>1, <2>2 DEF BucketInv
<1>7. WaiterInv'
  BY <1>2, <1>5 DEF WaiterInv, Inside, Mine
<1>8. BucketInv'
  <2>1. \A e \in bucket' : e \in bucket /\ e \notin out /\ e \in Entries
    BY <1>1 DEF TypeOK
  <2>. QED
    BY <1>2, <1>3, <1>4, <1>5, <2>1 DEF BucketInv, Waiting, Mine
<1>9. WakerInv'
  <2>1. \A g \in Wakers \ {h} : \A e \in waker[g].picked : e \in Entries /\ e \notin out
    BY <1>6, PickedEntries
  <2>2. \A e \in out : e # NoEntry
    BY <1>6, EntryParts
  <2>. QED
    BY <1>2, <1>3, <1>4, <1>5, <1>6, <2>1, <2>2 DEF WakerInv
<1>10. RefsInv'
  <2>1. \A e \in Entries : WaiterHolds(e)' = WaiterHolds(e)
    BY <1>2 DEF WaiterHolds, Mine, Inside
  <2>2. \A e \in Entries : e \in out => ~WakerHolds(e) /\ WakerHolds(e)'
    BY <1>3, <1>6 DEF WakerHolds
  <2>3. \A e \in Entries : e \notin out => WakerHolds(e)' = WakerHolds(e)
    BY <1>2, <1>3, <1>4 DEF WakerHolds
  <2>4. ASSUME NEW e \in Entries
        PROVE  entry'[e].refs = (IF WaiterHolds(e)' THEN 1 ELSE 0) + (IF WakerHolds(e)' THEN 1 ELSE 0)
    <3>1. CASE e \in out
      BY <1>5, <2>1, <2>2, <3>1 DEF RefsInv
    <3>2. CASE e \notin out
      BY <1>5, <2>1, <2>3, <3>2 DEF RefsInv
    <3>. QED
      BY <3>1, <3>2
  <2>. QED
    BY <2>4 DEF RefsInv
<1>. QED
  BY <1>7, <1>8, <1>9, <1>10 DEF TableInv

\* A waker tells an entry that is not in the bucket any more.
LEMMA TableTell ==
  ASSUME ButexInv, NEW h \in Wakers, Tell(h)
  PROVE  TableInv'
<1> USE DEF ButexInv
<1>1. PICK f \in waker[h].picked :
        /\ entry' = [entry EXCEPT ![f].told = TRUE]
        /\ waker' = [waker EXCEPT ![h].step = "notify", ![h].cur = f]
  BY DEF Tell
<1>2. UNCHANGED <<bucket, pc, key, waits>> /\ waker[h].step = "tell"
  BY DEF Tell, waiter
<1>3. f \in Entries
  BY WakerTypes DEF TypeOK
<1>4. /\ \A e \in Entries : /\ entry'[e].refs = entry[e].refs /\ entry'[e].key = entry[e].key
                            /\ e # f => entry'[e] = entry[e]
      /\ entry'[f].told
  <2>1. entry[f] \in EntryType /\ entry'[f] = [entry[f] EXCEPT !.told = TRUE]
    BY <1>1, <1>3 DEF TypeOK
  <2>2. \A e \in Entries \ {f} : entry'[e] = entry[e]
    BY <1>1 DEF TypeOK
  <2>3. entry'[f].told = TRUE /\ entry'[f].refs = entry[f].refs /\ entry'[f].key = entry[f].key
    BY <2>1 DEF EntryType
  <2>. QED
    BY <2>2, <2>3
<1>5. /\ waker'[h].picked = waker[h].picked /\ waker'[h].cur = f /\ waker'[h].step = "notify"
      /\ \A g \in Wakers \ {h} : waker'[g] = waker[g]
  <2>1. waker[h] \in WakerType /\ waker'[h] = [waker[h] EXCEPT !.step = "notify", !.cur = f]
    BY <1>1 DEF TypeOK
  <2>2. \A g \in Wakers \ {h} : waker'[g] = waker[g]
    BY <1>1 DEF TypeOK
  <2>. QED
    BY <2>1, <2>2 DEF WakerType
<1>6. \A e \in waker[h].picked : e \in Entries /\ ~entry[e].told
  <2>1. waker[h].cur = NoEntry
    BY <1>2 DEF WakerInv
  <2>. QED
    BY <2>1, PickedEntries DEF WakerInv
<1>7. WaiterInv'
  <2>1. \A w \in Waiters : Mine(w)' = Mine(w) /\ Inside(w)' = Inside(w)
    BY <1>2 DEF Mine, Inside
  <2>2. \A w \in Waiters : pc[w] = "release" => Mine(w) \in Entries /\ entry[Mine(w)].told
    BY DEF WaiterInv, Inside
  <2>. QED
    BY <1>2, <1>4, <2>1, <2>2 DEF WaiterInv
<1>8. BucketInv'
  <2>1. \A e \in bucket : e \in Entries /\ e # f
    BY DEF BucketInv, TypeOK
  <2>. QED
    BY <1>2, <1>4, <1>5, <2>1 DEF BucketInv, Waiting, Mine
<1>9. WakerInv'
  <2>1. \A g \in Wakers \ {h} : \A e \in waker[g].picked : e \in Entries /\ e # f
    BY PickedEntries DEF WakerInv
  <2>. QED
    BY <1>2, <1>4, <1>5, <1>6, <2>1 DEF WakerInv
<1>10. RefsInv'
  <2>1. \A e \in Entries : WaiterHolds(e)' = WaiterHolds(e) /\ WakerHolds(e)' = WakerHolds(e)
    BY <1>2, <1>5 DEF WaiterHolds, WakerHolds, Mine, Inside
  <2>. QED
    BY <1>4, <2>1 DEF RefsInv
<1>. QED
  BY <1>7, <1>8, <1>9, <1>10 DEF TableInv

\* A waker posts or wakes; whoever it wakes looks again.
LEMMA TableNotify ==
  ASSUME ButexInv, NEW h \in Wakers, Notify(h)
  PROVE  TableInv'
<1> USE DEF ButexInv
<1>1. UNCHANGED <<bucket, entry, key, waits>> /\ waker' = [waker EXCEPT ![h].step = "drop"]
  BY DEF Notify
<1>2. waker[h].step = "notify"
  BY DEF Notify
<1>3. /\ \A g \in Wakers : waker'[g].picked = waker[g].picked /\ waker'[g].cur = waker[g].cur
      /\ \A g \in Wakers \ {h} : waker'[g] = waker[g]
      /\ waker'[h].step = "drop"
  <2>1. waker[h] \in WakerType /\ waker'[h] = [waker[h] EXCEPT !.step = "drop"]
    BY <1>1 DEF TypeOK
  <2>2. \A g \in Wakers \ {h} : waker'[g] = waker[g]
    BY <1>1 DEF TypeOK
  <2>3. waker'[h].step = "drop" /\ waker'[h].picked = waker[h].picked /\ waker'[h].cur = waker[h].cur
    BY <2>1 DEF WakerType
  <2>. QED
    BY <2>2, <2>3
<1>4. \A w \in Waiters : pc'[w] = pc[w] \/ (pc[w] = "parked" /\ pc'[w] = "loop")
  BY DEF Notify, Goto, TypeOK
<1>5. \A w \in Waiters : /\ Mine(w)' = Mine(w) /\ Inside(w)' = Inside(w) /\ Waiting(w)' = Waiting(w)
                         /\ pc'[w] \in {"compare", "join", "release"} => pc[w] = pc'[w]
  BY <1>1, <1>4 DEF Mine, Inside, Waiting
<1>6. WaiterInv'
  BY <1>1, <1>5 DEF WaiterInv
<1>7. BucketInv'
  BY <1>1, <1>3, <1>5, EntryParts DEF BucketInv, TypeOK
<1>8. WakerInv'
  BY <1>1, <1>2, <1>3 DEF WakerInv
<1>9. RefsInv'
  <2>1. \A e \in Entries : WaiterHolds(e)' = WaiterHolds(e) /\ WakerHolds(e)' = WakerHolds(e)
    BY <1>3, <1>5, EntryParts DEF WaiterHolds, WakerHolds
  <2>. QED
    BY <1>1, <2>1 DEF RefsInv
<1>. QED
  BY <1>6, <1>7, <1>8, <1>9 DEF TableInv

\* A waker gives back the reference to the entry it has told.
LEMMA TableDrop ==
  ASSUME ButexInv, NEW h \in Wakers, Drop(h)
  PROVE  TableInv'
<1> USE DEF ButexInv
<1> PICK f : f = waker[h].cur
  OBVIOUS
<1>1. /\ UNCHANGED <<bucket, pc, key, waits>> /\ waker[h].step = "drop" /\ Release(f)
      /\ waker' = [waker EXCEPT ![h] = IF waker[h].picked \ {f} = {} THEN Rest
                     ELSE [@ EXCEPT !.step = "tell", !.picked = waker[h].picked \ {f}, !.cur = NoEntry]]
  BY DEF Drop, waiter
<1>2. f \in waker[h].picked /\ f \in Entries /\ entry[f].told /\ WakerHolds(f)
  BY <1>1, WakerTypes DEF WakerInv, WakerHolds, TypeOK
<1>3. /\ waker'[h].picked = waker[h].picked \ {f} /\ waker'[h].cur = NoEntry
      /\ waker'[h].step \in {"out", "tell"} /\ (waker'[h].step = "out" => waker'[h].picked = {})
  <2>1. CASE waker[h].picked \ {f} = {}
    <3>1. waker'[h] = Rest
      BY <1>1, <2>1 DEF TypeOK
    <3>. QED
      BY <2>1, <3>1 DEF Rest
  <2>2. CASE waker[h].picked \ {f} # {}
    <3>1. waker'[h] = [waker[h] EXCEPT !.step = "tell", !.picked = waker[h].picked \ {f}, !.cur = NoEntry]
      BY <1>1, <2>2 DEF TypeOK
    <3>2. waker[h] \in WakerType
      BY DEF TypeOK
    <3>. QED
      BY <3>1, <3>2 DEF WakerType
  <2>. QED
    BY <2>1, <2>2
<1>4. \A g \in Wakers \ {h} : waker'[g] = waker[g] /\ f \notin waker[g].picked
  BY <1>1, <1>2 DEF TypeOK, WakerInv
<1>5. \A e \in Entries : e # f => entry'[e] = entry[e]
  BY <1>1, <1>2 DEF TypeOK, Release
<1>6. /\ entry'[f].refs = entry[f].refs - 1
      /\ WaiterHolds(f) => entry'[f].told = entry[f].told /\ entry'[f].key = entry[f].key
  <2>1. entry[f].refs = 1 + (IF WaiterHolds(f) THEN 1 ELSE 0)
    BY <1>2 DEF RefsInv
  <2>2. CASE WaiterHolds(f)
    <3>1. entry' = [entry EXCEPT ![f].refs = @ - 1]
      BY <1>1, <2>1, <2>2 DEF Release
    <3>. QED
      BY <1>2, <3>1 DEF TypeOK, EntryType
  <2>3. CASE ~WaiterHolds(f)
    <3>1. entry' = [entry EXCEPT ![f] = Freed] /\ entry[f].refs = 1
      BY <1>1, <2>1, <2>3 DEF Release
    <3>2. entry'[f] = Freed
      BY <1>2, <3>1 DEF TypeOK
    <3>. QED
      BY <2>3, <3>1, <3>2, EntryTypes
  <2>. QED
    BY <2>2, <2>3
<1>7. WaiterInv'
  <2>1. \A w \in Waiters : Mine(w)' = Mine(w) /\ Inside(w)' = Inside(w)
    BY <1>1 DEF Mine, Inside
  <2>2. ASSUME NEW w \in Waiters, Inside(w) PROVE entry'[Mine(w)].key = key[w] /\ (pc[w] = "release" => entry'[Mine(w)].told)
    <3>1. CASE Mine(w) = f
      <4>1. WaiterHolds(f)
        BY <2>2, <3>1 DEF WaiterHolds, Mine
      <4>. QED
        BY <1>2, <1>6, <2>2, <3>1, <4>1 DEF WaiterInv
    <3>2. CASE Mine(w) # f
      BY <1>5, <2>2, <3>2 DEF WaiterInv
    <3>. QED
      BY <3>1, <3>2
  <2>. QED
    BY <1>1, <2>1, <2>2 DEF WaiterInv, Inside
<1>8. BucketInv'
  <2>1. \A e \in bucket : e \in Entries /\ e # f
    BY <1>2 DEF BucketInv, TypeOK
  <2>. QED
    BY <1>1, <1>3, <1>4, <1>5, <2>1 DEF BucketInv, Waiting, Mine
<1>9. WakerInv'
  <2>1. \A g \in Wakers : \A e \in waker[g].picked : e \in Entries
    BY PickedEntries
  <2>2. \A e \in waker[h].picked \ {f} : ~entry'[e].told /\ e # NoEntry
    BY <1>5, <2>1, EntryParts DEF WakerInv
  <2>. QED
    BY <1>1, <1>3, <1>4, <1>5, <2>1, <2>2 DEF WakerInv
<1>10. RefsInv'
  <2>1. \A e \in Entries : WaiterHolds(e)' = WaiterHolds(e)
    BY <1>1 DEF WaiterHolds, Mine, Inside
  <2>2. \A e \in Entries : e # f => WakerHolds(e)' = WakerHolds(e)
    BY <1>3, <1>4 DEF WakerHolds
  <2>3. ~\E g \in Wakers : f \in waker'[g].picked
    BY <1>3, <1>4
  <2>4. entry[f].refs = 1 + (IF WaiterHolds(f) THEN 1 ELSE 0)
    BY <1>2 DEF RefsInv
  <2>5. ASSUME NEW e \in Entries
        PROVE  entry'[e].refs = (IF WaiterHolds(e)' THEN 1 ELSE 0) + (IF WakerHolds(e)' THEN 1 ELSE 0)
    <3>1. CASE e = f
      <4>1. ~WakerHolds(e)'
        BY <2>3, <3>1 DEF WakerHolds
      <4>. QED
        BY <1>2, <1>6, <2>1, <2>4, <3>1, <4>1
    <3>2. CASE e # f
      BY <1>5, <2>1, <2>2, <3>2 DEF RefsInv
    <3>. QED
      BY <3>1, <3>2
  <2>. QED
    BY <2>5 DEF RefsInv
<1>. QED
  BY <1>7, <1>8, <1>9, <1>10 DEF TableInv

\* Every step keeps the invariant.
LEMMA ButexStep == ButexInv /\ [Next]_vars => ButexInv'
<1> SUFFICES ASSUME ButexInv, [Next]_vars PROVE TableInv'
  BY ButexTypes DEF ButexInv, TableInv
<1>1. ASSUME NEW w \in Waiters, Wait(w) \/ Spurious(w) \/ \E k \in Keys : Call(w, k) PROVE TableInv'
  BY <1>1, TableWaiter, TableJoin, TableReturn DEF Wait
<1>2. ASSUME NEW h \in Wakers, Wake(h) \/ \E k \in Keys : Change(h, k) PROVE TableInv'
  BY <1>2, TableChange, TableUnlink, TableTell, TableNotify, TableDrop DEF Wake
<1>3. CASE UNCHANGED vars
  BY <1>3 DEF vars, waiter, ButexInv, TableInv, WaiterInv, BucketInv, WakerInv, RefsInv, WaiterHolds, WakerHolds,
     Mine, Inside, Waiting
<1>. QED
  BY <1>1, <1>2, <1>3 DEF Next

\* The table's invariant holds in every state.
THEOREM ButexInvariance == Spec => []ButexInv
BY ButexInit, ButexStep, PTL DEF Spec

\* TypeOK: every variable keeps its type, for any waiters, wakers and words.
THEOREM ButexTypeCorrect == Spec => []TypeOK
<1>1. ButexInv => TypeOK
  BY DEF ButexInv
<1>. QED
  BY <1>1, ButexInvariance, PTL

\* BucketUntold: an entry in the bucket has a waiter in its loop who has not been told
\* (lm_butex_wait, butex_wake_internal).
THEOREM NobodyToldInBucket == Spec => []BucketUntold
<1>1. ButexInv => BucketUntold
  BY DEF ButexInv, BucketInv, BucketUntold, Waiting
<1>. QED
  BY <1>1, ButexInvariance, PTL

\* RefsExact: an entry's count is the number of those who will still look at it
\* (entry_release and its callers).
THEOREM RefsCounted == Spec => []RefsExact
<1>1. ASSUME ButexInv, NEW e \in Entries PROVE entry[e].refs = Cardinality(Holders(e))
  <2> DEFINE A == {w \in Waiters : e = Mine(w) /\ pc[w] \in {"loop", "parked", "release"}}
             B == {h \in Wakers : e \in waker[h].picked}
  <2>1. A = IF WaiterHolds(e) THEN {e[1]} ELSE {}
    BY EntryParts DEF WaiterHolds, Inside, Mine
  <2>2. WakerHolds(e) => \E h \in Wakers : B = {h}
    BY <1>1 DEF ButexInv, WakerInv, WakerHolds
  <2>3. ~WakerHolds(e) => B = {}
    BY DEF WakerHolds
  <2>4. A \intersect B = {} /\ Holders(e) = A \union B
    BY ButexAssumption DEF Holders
  <2>5. /\ IsFiniteSet(A) /\ Cardinality(A) = IF WaiterHolds(e) THEN 1 ELSE 0
        /\ IsFiniteSet(B) /\ Cardinality(B) = IF WakerHolds(e) THEN 1 ELSE 0
    <3> HIDE DEF A, B
    <3>1. IsFiniteSet(A) /\ Cardinality(A) = IF WaiterHolds(e) THEN 1 ELSE 0
      BY <2>1, FS_Singleton, FS_EmptySet
    <3>2. IsFiniteSet(B) /\ Cardinality(B) = IF WakerHolds(e) THEN 1 ELSE 0
      BY <2>2, <2>3, FS_Singleton, FS_EmptySet
    <3>. QED
      BY <3>1, <3>2
  <2>6. Cardinality(A \union B) = Cardinality(A) + Cardinality(B) - Cardinality(A \intersect B)
    BY <2>5, FS_Union
  <2>7. Cardinality(A \intersect B) = 0
    BY <2>4, FS_EmptySet
  <2>. QED
    BY <1>1, <2>4, <2>5, <2>6, <2>7 DEF ButexInv, RefsInv
<1>2. ButexInv => RefsExact
  BY <1>1 DEF RefsExact
<1>. QED
  BY <1>2, ButexInvariance, PTL

-----------------------------------------------------------------------------
(* Refinement of Futex.tla                                                 *)

\* What an agent's step makes of its abstract control and value.
Moves(k, a, from, to, value) ==
  /\ FutexPc(k)[a] = from /\ FutexPc(k)' = [FutexPc(k) EXCEPT ![a] = to]
  /\ FutexSeen(k)' = [FutexSeen(k) EXCEPT ![a] = value]

\* The steps of Futex.tla in these terms: those of a waiter.
LEMMA WaiterSteps ==
  ASSUME NEW k \in Keys, NEW w \in Waiters
  PROVE  /\ UNCHANGED <<word[k], Sleepers(k), FutexPc(k), FutexSeen(k)>> => FutexStep(k)
         /\ Moves(k, w, "out", "wait", word[k]) /\ UNCHANGED <<word[k], Sleepers(k)>> => FutexStep(k)
         /\ /\ Moves(k, w, "wait", "asleep", 0) /\ UNCHANGED word[k]
            /\ word[k] = seen[w] /\ Sleepers(k)' = Sleepers(k) \union {w}
            => FutexStep(k)
         /\ /\ Moves(k, w, "wait", "out", 0) /\ UNCHANGED <<word[k], Sleepers(k)>> /\ word[k] # seen[w]
            => FutexStep(k)
         /\ /\ Moves(k, w, "asleep", "out", FutexSeen(k)[w]) /\ w \notin Sleepers(k)
            /\ UNCHANGED <<word[k], Sleepers(k), FutexSeen(k)>>
            => FutexStep(k)
BY DEF Moves, FutexStep, F!vars, F!Load, F!FutexWait, F!FutexResume, F!Goto, F!Forget

\* The steps of a waker.
LEMMA WakerSteps ==
  ASSUME NEW k \in Keys, NEW h \in Wakers
  PROVE  /\ UNCHANGED <<word[k], Sleepers(k), FutexPc(k), FutexSeen(k)>> => FutexStep(k)
         /\ Moves(k, h, "out", "wake", 0) /\ word[k]' = word[k] + 1 /\ UNCHANGED Sleepers(k) => FutexStep(k)
         /\ /\ FutexPc(k)[h] = "wake" /\ FutexPc(k)' = [FutexPc(k) EXCEPT ![h] = "out"]
            /\ UNCHANGED <<word[k], FutexSeen(k)>>
            /\ Sleepers(k)' = {} \/ \E s \in Sleepers(k) : Sleepers(k)' = Sleepers(k) \ {s}
            => FutexStep(k)
BY DEF Moves, FutexStep, F!vars, F!Write, F!FutexWakeOne, F!FutexWakeAll, F!Goto, F!Forget

\* The sleepers change only with the bucket and the words of its entries.
LEMMA SameSleepers ==
  ASSUME NEW k \in Keys, bucket' = bucket, \A e \in bucket : entry'[e].key = entry[e].key
  PROVE  Sleepers(k)' = Sleepers(k)
BY DEF Sleepers, OfWord

\* The abstract control and value of a waiter and of a waker.
Mapped == \A k \in Keys :
  /\ \A w \in Waiters :
       /\ FutexPc(k)[w] = IF key[w] # k THEN "out"
                          ELSE IF pc[w] \in {"compare", "join"} THEN "wait"
                          ELSE IF Inside(w) THEN "asleep" ELSE "out"
       /\ FutexSeen(k)[w] = IF key[w] = k /\ pc[w] \in {"compare", "join"} THEN seen[w] ELSE 0
  /\ \A h \in Wakers :
       /\ FutexPc(k)[h] = IF waker[h].key = k /\ waker[h].step = "unlink" THEN "wake" ELSE "out"
       /\ FutexSeen(k)[h] = 0

\* In every state they are what the refinement mapping says.
LEMMA FutexMap == Mapped
<1> SUFFICES ASSUME NEW k \in Keys
             PROVE  /\ \A w \in Waiters :
                         /\ FutexPc(k)[w] = IF key[w] # k THEN "out"
                                            ELSE IF pc[w] \in {"compare", "join"} THEN "wait"
                                            ELSE IF Inside(w) THEN "asleep" ELSE "out"
                         /\ FutexSeen(k)[w] = IF key[w] = k /\ pc[w] \in {"compare", "join"} THEN seen[w] ELSE 0
                    /\ \A h \in Wakers :
                         /\ FutexPc(k)[h] = IF waker[h].key = k /\ waker[h].step = "unlink" THEN "wake" ELSE "out"
                         /\ FutexSeen(k)[h] = 0
  BY DEF Mapped
<1>1. \A w \in Waiters : w \notin Wakers /\ w \in Agents
  BY ButexAssumption DEF Agents
<1>2. \A h \in Wakers : h \notin Waiters /\ h \in Agents
  BY ButexAssumption DEF Agents
<1>3. \A w \in Waiters : FutexPc(k)[w] = IF key[w] # k THEN "out"
                                 ELSE IF pc[w] \in {"compare", "join"} THEN "wait"
                                 ELSE IF Inside(w) THEN "asleep" ELSE "out"
  BY <1>1 DEF FutexPc, Uses, AbstractPc, Inside
<1>4. \A h \in Wakers : FutexPc(k)[h] = IF waker[h].key = k /\ waker[h].step = "unlink" THEN "wake" ELSE "out"
  BY <1>2 DEF FutexPc, Uses, AbstractPc
<1>5. /\ \A w \in Waiters : FutexSeen(k)[w] = IF key[w] = k /\ pc[w] \in {"compare", "join"} THEN seen[w] ELSE 0
      /\ \A h \in Wakers : FutexSeen(k)[h] = 0
  BY <1>1, <1>2 DEF FutexSeen
<1>. QED
  BY <1>3, <1>4, <1>5

\* In the next state too.
LEMMA FutexMapNext == Mapped'
BY FutexMap, PTL

\* Two states in which all agents but a agree, and how a moves.
LEMMA FutexMove ==
  ASSUME NEW k \in Keys, NEW a \in Agents,
         \A b \in Agents \ {a} : FutexPc(k)'[b] = FutexPc(k)[b] /\ FutexSeen(k)'[b] = FutexSeen(k)[b]
  PROVE  /\ FutexPc(k)' = [FutexPc(k) EXCEPT ![a] = FutexPc(k)'[a]]
         /\ FutexSeen(k)' = [FutexSeen(k) EXCEPT ![a] = FutexSeen(k)'[a]]
         /\ FutexPc(k)'[a] = FutexPc(k)[a] => FutexPc(k)' = FutexPc(k)
         /\ FutexSeen(k)'[a] = FutexSeen(k)[a] => FutexSeen(k)' = FutexSeen(k)
BY DEF FutexPc, FutexSeen

\* A waiter who moves leaves what the others are at.
LEMMA WaiterMoves ==
  ASSUME NEW k \in Keys, NEW w \in Waiters, waker' = waker,
         \A v \in Waiters \ {w} : pc'[v] = pc[v] /\ key'[v] = key[v] /\ seen'[v] = seen[v]
  PROVE  \A b \in Agents \ {w} : FutexPc(k)'[b] = FutexPc(k)[b] /\ FutexSeen(k)'[b] = FutexSeen(k)[b]
BY DEF FutexPc, FutexSeen, Uses, AbstractPc, Agents

\* And so does a waker.
LEMMA WakerMoves ==
  ASSUME NEW k \in Keys, NEW h \in Wakers, \A g \in Wakers \ {h} : waker'[g] = waker[g], UNCHANGED <<pc, key, seen>>
  PROVE  \A b \in Agents \ {h} : FutexPc(k)'[b] = FutexPc(k)[b] /\ FutexSeen(k)'[b] = FutexSeen(k)[b]
BY ButexAssumption DEF FutexPc, FutexSeen, Uses, AbstractPc, Agents

\* The steps of a waiter outside the lock: it reads, finds another value, or has returned.
LEMMA FutexWaiter ==
  ASSUME ButexInv, NEW k \in Keys, NEW w \in Waiters,
         \/ \E l \in Keys : Call(w, l)
         \/ Compare(w) \/ (word[key[w]] # seen[w] /\ Join(w)) \/ Loop(w) \/ Resume(w) \/ Spurious(w)
  PROVE  FutexStep(k)
<1> USE DEF ButexInv
<1>1. UNCHANGED <<word, bucket, entry, waker>>
  BY DEF Call, Compare, Join, Loop, Resume, Spurious
<1>2. \A v \in Waiters \ {w} : pc'[v] = pc[v] /\ key'[v] = key[v] /\ seen'[v] = seen[v]
  BY DEF TypeOK, Call, Compare, Join, Leave, Loop, Resume, Spurious, Goto
<1>3. UNCHANGED <<word[k], Sleepers(k)>>
  BY <1>1, SameSleepers
<1>4. w \in Agents /\ \A b \in Agents \ {w} : FutexPc(k)'[b] = FutexPc(k)[b] /\ FutexSeen(k)'[b] = FutexSeen(k)[b]
  BY <1>1, <1>2, WaiterMoves DEF Agents
<1>5. CASE FutexPc(k)'[w] = FutexPc(k)[w] /\ FutexSeen(k)'[w] = FutexSeen(k)[w]
  BY <1>3, <1>4, <1>5, FutexMove, WaiterSteps
<1>6. CASE \E l \in Keys : Call(w, l)
  <2>1. PICK l \in Keys : Call(w, l)
    BY <1>6
  <2>2. /\ pc[w] = "out" /\ pc'[w] = "compare" /\ key'[w] = l /\ seen'[w] = word[l]
    BY <2>1 DEF Call, Goto, TypeOK
  <2>3. CASE l = k
    <3>1. FutexPc(k)[w] = "out" /\ FutexPc(k)'[w] = "wait" /\ FutexSeen(k)'[w] = word[k]
      BY <2>2, <2>3, FutexMap, FutexMapNext DEF Mapped, Inside
    <3>. QED
      BY <1>3, <1>4, <3>1, FutexMove, WaiterSteps DEF Moves
  <2>4. CASE l # k
    <3>1. FutexPc(k)[w] = "out" /\ FutexPc(k)'[w] = "out" /\ FutexSeen(k)[w] = 0 /\ FutexSeen(k)'[w] = 0
      BY <2>2, <2>4, FutexMap, FutexMapNext DEF Mapped, Inside
    <3>. QED
      BY <1>5, <3>1
  <2>. QED
    BY <2>3, <2>4
<1>7. CASE word[key[w]] # seen[w] /\ pc[w] \in {"compare", "join"} /\ Leave(w, pc[w])
  <2>1. pc'[w] = "out"
    BY <1>7 DEF Leave, Goto, TypeOK
  <2>2. CASE key[w] = k
    <3>1. FutexPc(k)[w] = "wait" /\ FutexPc(k)'[w] = "out" /\ FutexSeen(k)'[w] = 0
      BY <1>7, <2>1, <2>2, FutexMap, FutexMapNext DEF Mapped, Inside
    <3>. QED
      BY <1>3, <1>4, <1>7, <2>2, <3>1, FutexMove, WaiterSteps DEF Moves
  <2>3. CASE key[w] # k
    <3>1. FutexPc(k)[w] = "out" /\ FutexPc(k)'[w] = "out" /\ FutexSeen(k)[w] = 0 /\ FutexSeen(k)'[w] = 0
      BY <1>7, <2>1, <2>3, FutexMap, FutexMapNext DEF Mapped, Inside
    <3>. QED
      BY <1>5, <3>1
  <2>. QED
    BY <2>2, <2>3
<1>8. CASE /\ UNCHANGED <<key, seen>> /\ pc[w] # pc'[w]
           /\ \/ pc[w] = "compare" /\ pc'[w] = "join"
              \/ Inside(w) /\ Inside(w)'
  <2>1. FutexPc(k)'[w] = FutexPc(k)[w] /\ FutexSeen(k)'[w] = FutexSeen(k)[w]
    BY <1>8, FutexMap, FutexMapNext DEF Mapped, Inside
  <2>. QED
    BY <1>5, <2>1
<1>9. ASSUME Compare(w) \/ (word[key[w]] # seen[w] /\ Join(w))
      PROVE  \/ word[key[w]] # seen[w] /\ pc[w] \in {"compare", "join"} /\ Leave(w, pc[w])
             \/ UNCHANGED <<key, seen>> /\ pc[w] = "compare" /\ pc'[w] = "join"
  BY <1>9 DEF Compare, Join, Leave, Goto, TypeOK
<1>10. ASSUME Loop(w) \/ Resume(w) \/ Spurious(w)
       PROVE  UNCHANGED <<key, seen>> /\ pc[w] # pc'[w] /\ Inside(w) /\ Inside(w)'
  BY <1>10 DEF Loop, Resume, Spurious, Goto, TypeOK, Inside
<1>. QED
  BY <1>6, <1>7, <1>8, <1>9, <1>10

\* Joining the bucket is falling asleep.
LEMMA FutexJoin ==
  ASSUME ButexInv, NEW k \in Keys, NEW w \in Waiters, Join(w), word[key[w]] = seen[w]
  PROVE  FutexStep(k)
<1> USE DEF ButexInv
<1>1. /\ pc[w] = "join" /\ pc' = [pc EXCEPT ![w] = "loop"] /\ bucket' = bucket \union {Fresh(w)}
      /\ entry' = [entry EXCEPT ![Fresh(w)] = [key |-> key[w], refs |-> 1, told |-> FALSE]]
      /\ UNCHANGED <<word, key, seen, waker>>
  BY DEF Join, Goto
<1>2. pc'[w] = "loop" /\ \A v \in Waiters \ {w} : pc'[v] = pc[v]
  BY <1>1 DEF TypeOK
<1>3. w \in Agents /\ \A b \in Agents \ {w} : FutexPc(k)'[b] = FutexPc(k)[b] /\ FutexSeen(k)'[b] = FutexSeen(k)[b]
  BY <1>1, <1>2, WaiterMoves DEF Agents
<1>4. Fresh(w) \in Entries /\ Fresh(w)[1] = w /\ \A e \in bucket : e # Fresh(w) /\ e \in Entries
  <2>1. waits[w] + 1 \in 1..MaxWaits
    BY <1>1, ButexAssumption DEF WaiterInv, TypeOK
  <2>2. Fresh(w) \in Entries /\ Fresh(w)[1] = w
    BY <2>1, EntryParts DEF Fresh
  <2>. QED
    BY <1>1, <2>2 DEF BucketInv, Waiting, TypeOK
<1>5. entry'[Fresh(w)].key = key[w] /\ \A e \in bucket : entry'[e] = entry[e]
  BY <1>1, <1>4 DEF TypeOK
<1>6. OfWord(k)' = IF key[w] = k THEN OfWord(k) \union {Fresh(w)} ELSE OfWord(k)
  BY <1>1, <1>4, <1>5 DEF OfWord
<1>7. CASE key[w] = k
  <2>1. Sleepers(k)' = Sleepers(k) \union {w}
    BY <1>4, <1>6, <1>7 DEF Sleepers
  <2>2. FutexPc(k)[w] = "wait" /\ FutexPc(k)'[w] = "asleep" /\ FutexSeen(k)'[w] = 0
    BY <1>1, <1>2, <1>7, FutexMap, FutexMapNext DEF Mapped, Inside
  <2>. QED
    BY <1>1, <1>3, <1>7, <2>1, <2>2, FutexMove, WaiterSteps DEF Moves
<1>8. CASE key[w] # k
  <2>1. Sleepers(k)' = Sleepers(k)
    BY <1>6, <1>8 DEF Sleepers
  <2>2. FutexPc(k)'[w] = FutexPc(k)[w] /\ FutexSeen(k)'[w] = FutexSeen(k)[w]
    BY <1>1, <1>2, <1>8, FutexMap, FutexMapNext DEF Mapped
  <2>. QED
    BY <1>1, <1>3, <2>1, <2>2, FutexMove, WaiterSteps
<1>. QED
  BY <1>7, <1>8

\* Who returns has been unlinked.
LEMMA FutexReturn ==
  ASSUME ButexInv, NEW k \in Keys, NEW w \in Waiters, Return(w)
  PROVE  FutexStep(k)
<1> USE DEF ButexInv
<1>1. /\ pc[w] = "release" /\ pc'[w] = "out" /\ seen'[w] = 0 /\ Release(Mine(w))
      /\ UNCHANGED <<word, bucket, waker>>
      /\ \A v \in Waiters \ {w} : pc'[v] = pc[v] /\ key'[v] = key[v] /\ seen'[v] = seen[v]
  BY DEF Return, Leave, Goto, TypeOK
<1>2. w \in Agents /\ \A b \in Agents \ {w} : FutexPc(k)'[b] = FutexPc(k)[b] /\ FutexSeen(k)'[b] = FutexSeen(k)[b]
  BY <1>1, WaiterMoves DEF Agents
<1>3. \A e \in bucket : e \in Entries /\ e[1] # w /\ e # Mine(w)
  BY <1>1 DEF BucketInv, Waiting, Mine, TypeOK
<1>4. Sleepers(k)' = Sleepers(k) /\ w \notin Sleepers(k)
  <2>1. \A e \in bucket : entry'[e].key = entry[e].key
    BY <1>1, <1>3 DEF Release, TypeOK
  <2>. QED
    BY <1>1, <1>3, <2>1, SameSleepers DEF Sleepers, OfWord
<1>5. FutexSeen(k)'[w] = FutexSeen(k)[w]
  BY <1>1, FutexMap, FutexMapNext DEF Mapped
<1>6. CASE key[w] = k
  <2>1. FutexPc(k)[w] = "asleep" /\ FutexPc(k)'[w] = "out"
    BY <1>1, <1>6, FutexMap, FutexMapNext DEF Mapped, Inside
  <2>. QED
    BY <1>1, <1>2, <1>4, <1>5, <2>1, FutexMove, WaiterSteps DEF Moves
<1>7. CASE key[w] # k
  <2>1. FutexPc(k)'[w] = FutexPc(k)[w]
    BY <1>1, <1>7, FutexMap, FutexMapNext DEF Mapped, Inside
  <2>. QED
    BY <1>1, <1>2, <1>4, <1>5, <2>1, FutexMove, WaiterSteps
<1>. QED
  BY <1>6, <1>7

\* A waker writes the word and unlinks; what it does then is no step of the futex.
LEMMA FutexWaker ==
  ASSUME ButexInv, NEW k \in Keys, NEW h \in Wakers, Wake(h) \/ \E l \in Keys : Change(h, l)
  PROVE  FutexStep(k)
<1> USE DEF ButexInv
<1>1. h \in Agents
  BY DEF Agents
<1>2. \A g \in Wakers \ {h} : waker'[g] = waker[g]
  BY DEF TypeOK, Wake, Unlink, Tell, Notify, Drop, Change
<1>3. CASE \E l \in Keys : Change(h, l)
  <2>1. PICK l \in Keys : Change(h, l)
    BY <1>3
  <2>2. /\ waker[h].step = "out" /\ word[k]' = (IF l = k THEN word[k] + 1 ELSE word[k])
        /\ UNCHANGED <<bucket, entry, pc, key, seen>>
        /\ waker'[h] = [step |-> "unlink", key |-> l, picked |-> {}, cur |-> NoEntry]
    BY <2>1 DEF Change, TypeOK, waiter
  <2>3. \A b \in Agents \ {h} : FutexPc(k)'[b] = FutexPc(k)[b] /\ FutexSeen(k)'[b] = FutexSeen(k)[b]
    BY <1>2, <2>2, WakerMoves
  <2>4. /\ FutexPc(k)[h] = "out" /\ FutexPc(k)'[h] = IF l = k THEN "wake" ELSE "out"
        /\ FutexSeen(k)[h] = 0 /\ FutexSeen(k)'[h] = 0
    BY <2>2, FutexMap, FutexMapNext DEF Mapped
  <2>5. Sleepers(k)' = Sleepers(k)
    BY <2>2, SameSleepers
  <2>. QED
    BY <1>1, <2>2, <2>3, <2>4, <2>5, FutexMove, WakerSteps DEF Moves
<1>4. CASE Unlink(h)
  <2>1. PICK out \in SUBSET bucket :
          /\ Picks(h, out) /\ bucket' = bucket \ out
          /\ entry' = [e \in Entries |-> IF e \in out THEN [entry[e] EXCEPT !.refs = @ + 1] ELSE entry[e]]
          /\ waker' = [waker EXCEPT ![h] = IF out = {} THEN Rest ELSE [@ EXCEPT !.step = "tell", !.picked = out]]
    BY <1>4 DEF Unlink
  <2>2. waker[h].step = "unlink" /\ UNCHANGED <<word, pc, key, seen>>
    BY <1>4 DEF Unlink, waiter
  <2>3. waker'[h].step # "unlink"
    <3>1. waker[h] \in WakerType /\ waker'[h] = IF out = {} THEN Rest ELSE [waker[h] EXCEPT !.step = "tell", !.picked = out]
      BY <2>1 DEF TypeOK
    <3>. QED
      BY <3>1 DEF Rest, WakerType
  <2>4. \A b \in Agents \ {h} : FutexPc(k)'[b] = FutexPc(k)[b] /\ FutexSeen(k)'[b] = FutexSeen(k)[b]
    BY <1>2, <2>2, WakerMoves
  <2>5. /\ FutexPc(k)[h] = (IF waker[h].key = k THEN "wake" ELSE "out") /\ FutexPc(k)'[h] = "out"
        /\ FutexSeen(k)[h] = 0 /\ FutexSeen(k)'[h] = 0
    BY <2>2, <2>3, FutexMap, FutexMapNext DEF Mapped
  <2>6. OfWord(k)' = OfWord(k) \ out
    <3>1. \A e \in bucket' : e \in bucket /\ e \notin out /\ entry'[e] = entry[e]
      BY <2>1 DEF TypeOK
    <3>. QED
      BY <2>1, <3>1 DEF OfWord
  <2>7. CASE waker[h].key = k
    <3>1. Sleepers(k)' = {} \/ \E s \in Sleepers(k) : Sleepers(k)' = Sleepers(k) \ {s}
      <4>1. CASE out = OfWord(k)
        BY <2>6, <4>1 DEF Sleepers
      <4>2. CASE \E e \in OfWord(k) : out = {e}
        <5>1. PICK e \in OfWord(k) : out = {e}
          BY <4>2
        <5>2. \A f \in OfWord(k) : f # e => f[1] # e[1]
          BY DEF OfWord, BucketInv
        <5>. QED
          BY <2>6, <5>1, <5>2 DEF Sleepers
      <4>. QED
        BY <2>1, <2>7, <4>1, <4>2 DEF Picks
    <3>. QED
      BY <1>1, <2>2, <2>4, <2>5, <2>7, <3>1, FutexMove, WakerSteps
  <2>8. CASE waker[h].key # k
    <3>1. Sleepers(k)' = Sleepers(k)
      <4>1. OfWord(k) \intersect out = {}
        BY <2>1, <2>8 DEF Picks, OfWord
      <4>. QED
        BY <2>6, <4>1 DEF Sleepers
    <3>. QED
      BY <1>1, <2>2, <2>4, <2>5, <2>8, <3>1, FutexMove, WakerSteps
  <2>. QED
    BY <2>7, <2>8
<1>5. CASE Tell(h) \/ Notify(h) \/ Drop(h)
  <2>1. UNCHANGED <<word, bucket, key, seen>>
    BY <1>5 DEF Tell, Notify, Drop, waiter
  <2>2. waker[h].step # "unlink" /\ waker'[h].step # "unlink"
    <3>1. waker[h] \in WakerType
      BY DEF TypeOK
    <3>2. CASE Tell(h)
      BY <3>1, <3>2 DEF Tell, TypeOK, WakerType
    <3>3. CASE Notify(h)
      BY <3>1, <3>3 DEF Notify, TypeOK, WakerType
    <3>4. CASE Drop(h)
      BY <3>1, <3>4 DEF Drop, TypeOK, WakerType, Rest
    <3>. QED
      BY <1>5, <3>2, <3>3, <3>4
  <2>3. \A e \in bucket : entry'[e].key = entry[e].key
    <3>1. CASE Tell(h)
      <4>1. PICK f \in waker[h].picked : entry' = [entry EXCEPT ![f].told = TRUE]
        BY <3>1 DEF Tell
      <4>2. f \notin bucket
        BY DEF BucketInv
      <4>. QED
        BY <4>1, <4>2 DEF TypeOK
    <3>2. CASE Notify(h)
      BY <3>2 DEF Notify
    <3>3. CASE Drop(h)
      <4>1. waker[h].cur \notin bucket
        BY <3>3 DEF Drop, WakerInv, BucketInv
      <4>. QED
        BY <3>3, <4>1 DEF Drop, Release, TypeOK
    <3>. QED
      BY <1>5, <3>1, <3>2, <3>3
  <2>4. Sleepers(k)' = Sleepers(k)
    BY <2>1, <2>3, SameSleepers
  <2>5. \A w \in Waiters : pc'[w] = pc[w] \/ (pc[w] = "parked" /\ pc'[w] = "loop")
    BY <1>5 DEF Tell, Notify, Drop, Goto, TypeOK, waiter
  <2>6. \A a \in Agents : FutexPc(k)'[a] = FutexPc(k)[a] /\ FutexSeen(k)'[a] = FutexSeen(k)[a]
    <3>1. \A w \in Waiters : FutexPc(k)'[w] = FutexPc(k)[w] /\ FutexSeen(k)'[w] = FutexSeen(k)[w]
      BY <2>1, <2>5, FutexMap, FutexMapNext DEF Mapped, Inside
    <3>2. \A g \in Wakers : FutexPc(k)'[g] = FutexPc(k)[g] /\ FutexSeen(k)'[g] = FutexSeen(k)[g]
      BY <1>2, <2>2, FutexMap, FutexMapNext DEF Mapped
    <3>. QED
      BY <3>1, <3>2 DEF Agents
  <2>. QED
    BY <1>1, <2>1, <2>4, <2>6, FutexMove, WakerSteps
<1>. QED
  BY <1>3, <1>4, <1>5 DEF Wake

\* ImplementsFutex: on every word the table does what Futex.tla says, on which the models
\* of lm_sync.c and their proofs stand (lm_butex_wait, butex_wake_internal).
THEOREM FutexRefinement == Spec => ImplementsFutex
<1>1. ASSUME ButexInv, Next, NEW k \in Keys PROVE FutexStep(k)
  <2>1. ASSUME NEW w \in Waiters, Wait(w) \/ Spurious(w) \/ \E l \in Keys : Call(w, l) PROVE FutexStep(k)
    BY <1>1, <2>1, FutexWaiter, FutexJoin, FutexReturn DEF Wait
  <2>2. ASSUME NEW h \in Wakers, Wake(h) \/ \E l \in Keys : Change(h, l) PROVE FutexStep(k)
    BY <1>1, <2>2, FutexWaker
  <2>. QED
    BY <1>1, <2>1, <2>2 DEF Next
<1>2. ButexInv /\ [Next]_vars => [\A k \in Keys : FutexStep(k)]_vars
  BY <1>1
<1>. QED
  BY <1>2, ButexInvariance, PTL DEF Spec, ImplementsFutex

-----------------------------------------------------------------------------
(* Nobody who was unlinked is forgotten                                    *)

\* What brings a waiter who has been told out of his sleep.
Called(w) == \/ pc[w] = "loop" \/ w \in posted
             \/ \E h \in Wakers : waker[h].step = "notify" /\ waker[h].cur = Mine(w)

\* A waiter whose entry has left the bucket is still to be told by the waker that took it,
\* or has been told and does not sleep, or is posted, or is about to be: no waker has gone on to the next
\* entry before that.
UnlinkedIsHeard == \A w \in Waiters : Waiting(w) /\ Mine(w) \notin bucket =>
    IF entry[Mine(w)].told THEN Called(w) ELSE \E h \in Wakers : Mine(w) \in waker[h].picked

\* What a waiter does, its entry aside, hides no waker from it or from another.
LEMMA HeardWaiter ==
  ASSUME ButexInv, UnlinkedIsHeard, NEW w \in Waiters,
         \/ \E k \in Keys : Call(w, k)
         \/ Compare(w) \/ (word[key[w]] # seen[w] /\ Join(w)) \/ Loop(w) \/ Resume(w) \/ Spurious(w)
  PROVE  UnlinkedIsHeard'
<1>1. UNCHANGED <<bucket, entry, waits, waker>> /\ \A v \in Waiters : Mine(v)' = Mine(v)
  BY DEF Call, Compare, Join, Loop, Resume, Spurious, Mine
<1>2. \A v \in Waiters \ {w} : pc'[v] = pc[v] /\ (v \in posted => v \in posted')
  BY DEF ButexInv, TypeOK, Call, Compare, Join, Leave, Loop, Resume, Spurious, Goto
<1>3. Waiting(w)' => Waiting(w) /\ (pc'[w] = "loop" \/ ~entry[Mine(w)].told)
  BY DEF ButexInv, TypeOK, Call, Compare, Join, Leave, Loop, Resume, Spurious, Goto, Waiting
<1>4. ASSUME NEW v \in Waiters, Waiting(v)', Mine(v) \notin bucket
      PROVE  IF entry[Mine(v)].told THEN Called(v)' ELSE \E h \in Wakers : Mine(v) \in waker[h].picked
  <2>1. CASE v = w
    BY <1>1, <1>3, <1>4, <2>1 DEF UnlinkedIsHeard, Called
  <2>2. CASE v # w
    <3>1. Waiting(v)
      BY <1>2, <1>4, <2>2 DEF Waiting
    <3>. QED
      BY <1>1, <1>2, <1>4, <2>2, <3>1 DEF UnlinkedIsHeard, Called
  <2>. QED
    BY <2>1, <2>2
<1>. QED
  BY <1>1, <1>4 DEF UnlinkedIsHeard

\* A waiter who joins or returns changes its own entry only, which is in the bucket or done with.
LEMMA HeardEntry ==
  ASSUME ButexInv, UnlinkedIsHeard, NEW w \in Waiters, (word[key[w]] = seen[w] /\ Join(w)) \/ Return(w)
  PROVE  UnlinkedIsHeard'
<1>1. /\ UNCHANGED <<waker, posted>> /\ bucket \subseteq bucket'
      /\ \A v \in Waiters \ {w} : pc'[v] = pc[v] /\ Mine(v)' = Mine(v)
      /\ Waiting(w)' => Mine(w)' \in bucket'
  <2>1. CASE word[key[w]] = seen[w] /\ Join(w)
    <3>1. waits[w] + 1 \in Nat /\ waits' = [waits EXCEPT ![w] = @ + 1] /\ bucket' = bucket \union {Fresh(w)}
      BY <2>1 DEF ButexInv, TypeOK, Join
    <3>. QED
      BY <2>1, <3>1 DEF ButexInv, TypeOK, Join, Goto, Mine, Fresh
  <2>2. CASE Return(w)
    BY <2>2 DEF ButexInv, TypeOK, Return, Leave, Goto, Mine, Waiting
  <2>. QED
    BY <2>1, <2>2
<1>2. \A e \in Entries : e[1] # w => entry'[e] = entry[e]
  <2>1. Fresh(w)[1] = w /\ Mine(w)[1] = w
    BY DEF Fresh, Mine
  <2>. QED
    BY <2>1 DEF ButexInv, TypeOK, Join, Return, Release
<1>3. ASSUME NEW v \in Waiters, Waiting(v)', Mine(v)' \notin bucket'
      PROVE  IF entry'[Mine(v)'].told THEN Called(v)' ELSE \E h \in Wakers : Mine(v)' \in waker'[h].picked
  <2>1. v # w /\ Waiting(v) /\ Mine(v) \notin bucket
    BY <1>1, <1>3 DEF Waiting
  <2>2. entry'[Mine(v)] = entry[Mine(v)]
    <3>1. Mine(v) \in Entries /\ Mine(v)[1] = v
      BY <2>1 DEF ButexInv, WaiterInv, Inside, Waiting, Mine
    <3>. QED
      BY <1>2, <2>1, <3>1
  <2>. QED
    BY <1>1, <2>1, <2>2 DEF UnlinkedIsHeard, Called
<1>. QED
  BY <1>3 DEF UnlinkedIsHeard

\* A waker takes entries in hand, tells them and notifies their waiters before it drops them.
LEMMA HeardWaker ==
  ASSUME ButexInv, UnlinkedIsHeard, NEW h \in Wakers, Wake(h) \/ \E k \in Keys : Change(h, k)
  PROVE  UnlinkedIsHeard'
<1>1. UNCHANGED waits /\ (\A w \in Waiters : Mine(w)' = Mine(w)) /\ waker \in [Wakers -> WakerType]
  BY DEF ButexInv, TypeOK, Wake, Unlink, Tell, Notify, Drop, Change, waiter, Mine
<1>2. \A g \in Wakers \ {h} : waker'[g] = waker[g]
  BY <1>1 DEF Wake, Unlink, Tell, Notify, Drop, Change
<1>3. \A w \in Waiters : Waiting(w) => Mine(w) \in Entries /\ Mine(w) # NoEntry
  BY EntryParts DEF ButexInv, WaiterInv, Waiting, Inside
<1>4. ASSUME NEW k \in Keys, Change(h, k) PROVE UnlinkedIsHeard'
  <2>1. waker[h].picked = {} /\ waker[h].cur = NoEntry
    BY <1>4 DEF Change, ButexInv, WakerInv
  <2>. QED
    BY <1>1, <1>2, <1>3, <1>4, <2>1 DEF Change, UnlinkedIsHeard, Called, Waiting, waiter
<1>5. CASE Unlink(h)
  <2>1. PICK out \in SUBSET bucket :
          /\ bucket' = bucket \ out
          /\ entry' = [e \in Entries |-> IF e \in out THEN [entry[e] EXCEPT !.refs = @ + 1] ELSE entry[e]]
          /\ waker' = [waker EXCEPT ![h] = IF out = {} THEN Rest ELSE [@ EXCEPT !.step = "tell", !.picked = out]]
          /\ UNCHANGED <<pc, posted>>
    BY <1>5 DEF Unlink, waiter
  <2>2. \A e \in Entries : entry'[e].told = entry[e].told
    BY <2>1 DEF ButexInv, TypeOK, EntryType
  <2>3. waker[h].picked = {} /\ waker[h].step = "unlink"
    BY <1>5 DEF Unlink, ButexInv, WakerInv
  <2>4. out # {} => waker'[h].picked = out
    BY <1>1, <2>1 DEF WakerType
  <2>5. ASSUME NEW w \in Waiters, Waiting(w), Mine(w) \notin bucket'
        PROVE  IF entry[Mine(w)].told THEN Called(w)' ELSE \E g \in Wakers : Mine(w) \in waker'[g].picked
    <3>1. CASE Mine(w) \in bucket
      BY <2>1, <2>4, <2>5, <3>1 DEF ButexInv, BucketInv
    <3>2. CASE Mine(w) \notin bucket
      BY <1>1, <1>2, <2>1, <2>3, <2>5, <3>2 DEF UnlinkedIsHeard, Called
    <3>. QED
      BY <3>1, <3>2
  <2>. QED
    BY <1>1, <1>3, <2>1, <2>2, <2>5 DEF UnlinkedIsHeard, Waiting
<1>6. CASE Tell(h)
  <2>1. PICK e \in waker[h].picked :
          /\ entry' = [entry EXCEPT ![e].told = TRUE]
          /\ waker' = [waker EXCEPT ![h].step = "notify", ![h].cur = e]
          /\ UNCHANGED <<bucket, pc, posted>>
    BY <1>6 DEF Tell, waiter
  <2>2. waker'[h].step = "notify" /\ waker'[h].cur = e /\ waker'[h].picked = waker[h].picked /\ waker[h].step = "tell"
    BY <1>1, <1>6, <2>1 DEF WakerType, Tell
  <2>3. \A f \in Entries : f # e => entry'[f] = entry[f]
    BY <2>1 DEF ButexInv, TypeOK
  <2>4. ASSUME NEW w \in Waiters, Waiting(w), Mine(w) \notin bucket
        PROVE  IF entry'[Mine(w)].told THEN Called(w)' ELSE \E g \in Wakers : Mine(w) \in waker'[g].picked
    <3>1. CASE Mine(w) = e
      <4>1. entry'[e].told
        BY <1>3, <2>1, <2>4, <3>1 DEF ButexInv, TypeOK, EntryType
      <4>. QED
        BY <1>1, <2>2, <3>1, <4>1 DEF Called
    <3>2. CASE Mine(w) # e
      <4>1. entry'[Mine(w)] = entry[Mine(w)]
        BY <1>3, <2>3, <2>4, <3>2
      <4>. QED
        BY <1>1, <1>2, <2>1, <2>2, <2>4, <4>1 DEF UnlinkedIsHeard, Called
    <3>. QED
      BY <3>1, <3>2
  <2>. QED
    BY <1>1, <2>1, <2>4 DEF UnlinkedIsHeard, Waiting
<1>7. CASE Notify(h)
  <2>1. /\ waker[h].step = "notify" /\ waker[h].cur \in waker[h].picked
        /\ waker'[h].picked = waker[h].picked /\ UNCHANGED <<bucket, entry>> /\ posted \subseteq posted'
    BY <1>1, <1>7 DEF Notify, ButexInv, WakerInv, WakerType
  <2>2. \A w \in Waiters : Waiting(w)' => Waiting(w) /\ (pc[w] = "loop" => pc'[w] = "loop")
    BY <1>7 DEF Notify, Goto, ButexInv, TypeOK, Waiting, Waiters
  <2>3. ASSUME NEW w \in Waiters, Waiting(w)', waker[h].cur = Mine(w) PROVE pc'[w] = "loop" \/ w \in posted'
    <3>1. waker[h].cur[1] = w
      BY <2>3 DEF Mine
    <3>. QED
      BY <1>7, <2>2, <2>3, <3>1 DEF Notify, Goto, ButexInv, TypeOK, Waiting
  <2>4. ASSUME NEW w \in Waiters, Waiting(w)', Mine(w) \notin bucket
        PROVE  IF entry[Mine(w)].told THEN Called(w)' ELSE \E g \in Wakers : Mine(w) \in waker'[g].picked
    BY <1>1, <1>2, <2>1, <2>2, <2>3, <2>4 DEF UnlinkedIsHeard, Called
  <2>. QED
    BY <1>1, <2>1, <2>4 DEF UnlinkedIsHeard
<1>8. CASE Drop(h)
  <2>1. /\ waker[h].step = "drop" /\ waker[h].cur \in waker[h].picked
        /\ UNCHANGED <<bucket, pc, posted>> /\ Release(waker[h].cur)
    BY <1>8 DEF Drop, ButexInv, WakerInv, waiter
  <2>2. \A f \in waker[h].picked : f # waker[h].cur => f \in waker'[h].picked
    BY <1>1, <1>8 DEF Drop, WakerType
  <2>3. \A f \in Entries : f # waker[h].cur => entry'[f] = entry[f]
    BY <2>1 DEF Release, ButexInv, TypeOK
  <2>4. entry[waker[h].cur].told
    BY <2>1 DEF ButexInv, WakerInv
  <2>5. ASSUME NEW w \in Waiters, Waiting(w), waker[h].cur = Mine(w) PROVE entry'[Mine(w)].told
    <3>1. Mine(w) \in Entries /\ WaiterHolds(Mine(w)) /\ WakerHolds(Mine(w))
      BY <1>3, <2>1, <2>5 DEF WaiterHolds, WakerHolds, Mine, Waiting, Inside
    <3>2. entry[Mine(w)].refs = 2
      BY <3>1 DEF ButexInv, RefsInv
    <3>. QED
      BY <2>1, <2>4, <2>5, <3>1, <3>2 DEF Release, ButexInv, TypeOK, EntryType
  <2>6. ASSUME NEW w \in Waiters, Waiting(w), Mine(w) \notin bucket
        PROVE  IF entry'[Mine(w)].told THEN Called(w)' ELSE \E g \in Wakers : Mine(w) \in waker'[g].picked
    <3>1. Called(w) => Called(w)'
      BY <1>1, <1>2, <2>1 DEF Called
    <3>2. CASE waker[h].cur = Mine(w)
      BY <2>4, <2>5, <2>6, <3>1, <3>2 DEF UnlinkedIsHeard
    <3>3. CASE waker[h].cur # Mine(w)
      BY <1>2, <1>3, <2>2, <2>3, <2>6, <3>1, <3>3 DEF UnlinkedIsHeard
    <3>. QED
      BY <3>2, <3>3
  <2>. QED
    BY <1>1, <2>1, <2>6 DEF UnlinkedIsHeard, Waiting
<1>. QED
  BY <1>4, <1>5, <1>6, <1>7, <1>8 DEF Wake

\* Nobody whom a waker has unlinked is forgotten: the safety part of UnlinkedReturns.
THEOREM UnlinkedNotForgotten == Spec => []UnlinkedIsHeard
<1>1. Init => UnlinkedIsHeard
  BY DEF Init, UnlinkedIsHeard, Waiting
<1>2. ButexInv /\ UnlinkedIsHeard /\ [Next]_vars => UnlinkedIsHeard'
  <2> SUFFICES ASSUME ButexInv, UnlinkedIsHeard, [Next]_vars PROVE UnlinkedIsHeard'
    OBVIOUS
  <2>1. CASE UNCHANGED vars
    BY <2>1 DEF vars, waiter, UnlinkedIsHeard, Called, Waiting, Mine
  <2>. QED
    BY <2>1, HeardWaiter, HeardEntry, HeardWaker DEF Next, Wait
<1>. QED
  BY <1>1, <1>2, ButexInvariance, PTL DEF Spec
=============================================================================
