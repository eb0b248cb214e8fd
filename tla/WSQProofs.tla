----------------------------- MODULE WSQProofs -----------------------------
(***************************************************************************)
(* What the work-stealing queue does promise, batches and stale indices    *)
(* included: what is taken through top is taken once, the owner gives no   *)
(* task away twice, and the first task of a batch has not been popped.     *)
(* For any tasks, thieves, capacity, batch and number of steals.           *)
(***************************************************************************)
EXTENDS WSQ, TLAPS

Locals == [step : {"rest", "top", "bottom", "read", "cas"}, tries : Int, t : Nat,
           n : 0..MaxBatch, out : Seq(Tasks \union {NoTask})]

Typed == TypeOK /\ thief \in [Thieves -> Locals]

Popping == {"popread", "popcas", "popreset", "popempty"}

Writing == {"write", "publish"}

Holding == {"write", "full", "extract", "again", "last", "take"}

\* The owner's local t, and how far the queue reaches.
Bounds == /\ End - top <= Capacity
          /\ pc \in Writing => bottom \in Nat /\ bottom - top < Capacity
          /\ pc = "extract" => t \in Nat /\ t <= top /\ bottom - t >= 2
          /\ pc = "popcas" => t = bottom /\ t <= top
          /\ pc = "popreset" => t = bottom /\ t < top
          /\ pc = "popempty" => bottom < t /\ t <= top

\* A task that is being pushed has been nowhere before.
HandInv == /\ pc \in Holding => hand \in Tasks /\ place[hand] = NoTask /\ \A w \in Ways : handed[w][hand] = 0
           /\ pc = "publish" => hand \in Tasks /\ place[hand] = bottom /\ At(bottom) = hand /\ ByOwner(hand) = 0
           /\ pc \notin Holding \union {"publish"} => hand = NoTask

\* The slot of an index holds the task that has been written for it.
Holds(i) == At(i) \in Tasks /\ place[At(i)] = i

\* From top to the end the owner has not given them away; nor has it, whatever the thieves have
\* taken meanwhile, those it is about to extract.
LiveInv == /\ \A i \in top..(End - 1) : Holds(i) /\ ByOwner(At(i)) = 0
           /\ pc = "extract" => \A i \in t..(bottom - 1) : Holds(i) /\ ByOwner(At(i)) = 0

\* Only what top has passed has been taken through it.
TopInv == \A x \in Tasks : ThroughTop(x) > 0 => ThroughTop(x) = 1 /\ place[x] \in Nat /\ place[x] < top

\* How far a thief has got with its batch.
LensInv(h) == /\ thief[h].t <= top
              /\ thief[h].step = "bottom" => thief[h].out = <<>>
              /\ thief[h].step = "read" => Len(thief[h].out) < thief[h].n
              /\ thief[h].step = "cas" => Len(thief[h].out) = thief[h].n

\* A thief between its look at bottom and its CAS, which would succeed now.
Reaching(h) == thief[h].step \in {"read", "cas"} /\ thief[h].t = top

\* Its slots still hold, and it has read, the tasks of its indices, the owner's or not; but
\* the first of them is not the owner's.
ReachInv(h) ==
    /\ thief[h].n \in 1..Capacity /\ thief[h].n <= MaxBatch
    /\ \A i \in 0..(thief[h].n - 1) : Holds(top + i)
    /\ \A k \in 1..Len(thief[h].out) : thief[h].out[k] \in Tasks /\ place[thief[h].out[k]] = top + k - 1
    /\ handed["popped"][At(top)] = 0
    /\ Len(thief[h].out) > 0 => handed["popped"][thief[h].out[1]] = 0
    /\ pc \in Writing => bottom >= top

ThiefInv == \A h \in Thieves : LensInv(h) /\ (Reaching(h) => ReachInv(h))

QInv == /\ Typed /\ Bounds /\ HandInv /\ LiveInv /\ TopInv /\ ThiefInv
        /\ OwnerGivesOnce /\ FirstIsFree

-----------------------------------------------------------------------------
(* Numbers                                                                 *)

LEMMA Remainder ==
  ASSUME NEW C \in Nat \ {0}, NEW i \in Int
  PROVE  i = C * (i \div C) + (i % C) /\ i \div C \in Int /\ i % C \in 0..(C - 1)
OBVIOUS

LEMMA NoMultiple ==
  ASSUME NEW C \in Nat \ {0}, NEW q \in Int
  PROVE  C * q <= 0 \/ C <= C * q
<1>1. CASE q <= 0
  BY <1>1
<1>2. CASE q >= 1
  BY <1>2
<1>. QED
  BY <1>1, <1>2

\* Indices less than a round apart have slots of their own.
LEMMA OtherSlot ==
  ASSUME NEW C \in Nat \ {0}, NEW i \in Int, NEW j \in Int, i < j, j - i < C
  PROVE  i % C # j % C
<1>. SUFFICES ASSUME i % C = j % C PROVE FALSE
  OBVIOUS
<1>. DEFINE q == (j \div C) - (i \div C)
<1>1. /\ i = C * (i \div C) + (i % C) /\ j = C * (j \div C) + (j % C)
      /\ i \div C \in Int /\ j \div C \in Int /\ i % C \in Int
  BY Remainder
<1>2. C * q = C * (j \div C) - C * (i \div C)
  BY <1>1
<1>3. C * q = j - i
  BY <1>1, <1>2
<1>4. C * q <= 0 \/ C <= C * q
  BY <1>1, NoMultiple
<1>. QED
  BY <1>3, <1>4

LEMMA HalfOf ==
  ASSUME NEW D \in Int, D >= 2
  PROVE  D \div 2 \in Int /\ 1 <= D \div 2 /\ D \div 2 < D
OBVIOUS

\* A half of two or more is one at least, and leaves one at least.
LEMMA Halves ==
  ASSUME Typed, Bounds, pc = "extract"
  PROVE  Half \in Int /\ 1 <= Half /\ Half < bottom - t
<1>1. bottom - t \in Int /\ bottom - t >= 2
  BY DEF Typed, TypeOK, Bounds
<1>2. (bottom - t) \div 2 \in Int /\ 1 <= (bottom - t) \div 2 /\ (bottom - t) \div 2 < bottom - t
  BY <1>1, HalfOf
<1>. QED
  BY <1>1, <1>2, WSQAssumption DEF Half, AtMost

\* A batch is one task at least and no more than there are.
LEMMA Batches ==
  ASSUME NEW len \in Int, len >= 1
  PROVE  BatchSize(len) \in 1..MaxBatch /\ BatchSize(len) <= len
<1>1. (len + 1) \div 2 \in Int /\ 1 <= (len + 1) \div 2 /\ (len + 1) \div 2 <= len
  OBVIOUS
<1>. QED
  BY <1>1, WSQAssumption DEF BatchSize, AtMost

-----------------------------------------------------------------------------
(* Counts                                                                  *)

LEMMA Sums ==
  ASSUME Typed, NEW x \in Tasks
  PROVE  /\ \A w \in Ways : handed[w][x] \in Nat
         /\ ByOwner(x) \in Nat /\ ThroughTop(x) \in Nat
         /\ handed["first"][x] > 0 => ThroughTop(x) > 0
         /\ handed["popped"][x] > 0 => ByOwner(x) > 0
         /\ (\A w \in Ways : handed[w][x] = 0) => ByOwner(x) = 0 /\ ThroughTop(x) = 0
<1>1. \A w \in Ways : handed[w][x] \in Nat
  BY DEF Typed, TypeOK
<1>2. /\ handed["first"][x] \in Nat /\ handed["rest"][x] \in Nat /\ handed["last"][x] \in Nat
      /\ handed["popped"][x] \in Nat /\ handed["moved"][x] \in Nat
  BY <1>1 DEF Ways
<1>3. (\A w \in Ways : handed[w][x] = 0) => ByOwner(x) = 0 /\ ThroughTop(x) = 0
  BY DEF ByOwner, ThroughTop, Ways
<1>. QED
  BY <1>1, <1>2, <1>3 DEF ByOwner, ThroughTop

\* What is given in one way counts once in that way.
LEMMA Given ==
  ASSUME Typed, NEW way \in Ways, NEW S, HandOut(way, S)
  PROVE  /\ handed' \in [Ways -> [Tasks -> Nat]]
         /\ \A w \in Ways, x \in Tasks :
                handed'[w][x] = IF w = way /\ x \in S THEN handed[w][x] + 1 ELSE handed[w][x]
<1>1. Once(handed[way], S) \in [Tasks -> Nat]
  BY DEF Typed, TypeOK, Once
<1>2. handed' = [handed EXCEPT ![way] = Once(handed[way], S)]
  BY DEF HandOut
<1>3. \A w \in Ways : handed'[w] = IF w = way THEN Once(handed[way], S) ELSE handed[w]
  BY <1>2 DEF Typed, TypeOK
<1>. QED
  BY <1>1, <1>2, <1>3 DEF Typed, TypeOK, Once

\* The owner's count of what it gives goes up by one, that of the rest stays.
LEMMA OwnerGives ==
  ASSUME Typed, NEW way \in {"popped", "moved"}, NEW S, HandOut(way, S)
  PROVE  \A x \in Tasks : /\ ThroughTop(x)' = ThroughTop(x) /\ handed'["first"][x] = handed["first"][x]
                          /\ ByOwner(x)' = IF x \in S THEN ByOwner(x) + 1 ELSE ByOwner(x)
                          /\ x \notin S => \A w \in Ways : handed'[w][x] = handed[w][x]
<1>1. \A w \in Ways, x \in Tasks : handed'[w][x] = IF w = way /\ x \in S THEN handed[w][x] + 1 ELSE handed[w][x]
  BY Given DEF Ways
<1>. QED
  BY <1>1 DEF ThroughTop, ByOwner, Ways, Typed, TypeOK

-----------------------------------------------------------------------------
(* The owner's steps                                                       *)

\* What the owner does to its indices alone keeps the rest.
LEMMA OwnerLooks ==
  ASSUME QInv, UNCHANGED <<top, slot, place, handed, thief>>,
         bottom' \in Int, t' \in Int, hand' \in Tasks \union {NoTask},
         pc' \in {"idle"} \union Holding \union {"publish"} \union Popping,
         Bounds', HandInv', LiveInv',
         pc' \in Writing => bottom' >= top
  PROVE  QInv'
<1>. USE DEF QInv
<1>1. Typed'
  BY DEF Typed, TypeOK, Holding, Popping
<1>2. TopInv' /\ OwnerGivesOnce' /\ FirstIsFree'
  BY DEF TopInv, OwnerGivesOnce, FirstIsFree, ThroughTop, ByOwner
<1>3. ThiefInv'
  BY DEF ThiefInv, LensInv, Reaching, ReachInv, Holds, At
<1>. QED
  BY <1>1, <1>2, <1>3

\* The queue stays what it was when its end does, or when nothing is left of it.
LEMMA LiveKept ==
  ASSUME QInv, UNCHANGED <<top, slot, place, handed>>, pc' # "extract",
         NEW e \in Int, End' = e, e <= End \/ e <= top
  PROVE  LiveInv'
<1>1. End \in Int
  BY DEF QInv, Typed, TypeOK, End
<1>2. top \in Nat /\ \A i \in top..(End - 1) : Holds(i) /\ ByOwner(At(i)) = 0
  BY DEF QInv, LiveInv, Typed, TypeOK
<1>3. \A i \in top..(e - 1) : Holds(i) /\ ByOwner(At(i)) = 0
  BY <1>1, <1>2
<1>4. \A i \in top..(e - 1) : Holds(i)' /\ ByOwner(At(i))' = 0
  BY <1>3 DEF Holds, At, ByOwner
<1>. QED
  BY <1>4 DEF LiveInv

LEMMA PushLooks ==
  ASSUME QInv,
         \/ (\E x \in Tasks : PushRead(x) \/ TakeRead(x))
         \/ PushAgain \/ ExtractRead \/ (TakePush /\ ~Full)
  PROVE  QInv'
<1>. USE DEF QInv
<1>1. /\ UNCHANGED <<top, bottom, slot, place, handed, thief>> /\ bottom \in Int /\ top \in Nat
      /\ pc \in {"idle", "full", "again", "last", "take"} /\ pc' \in Holding
      /\ hand' \in Tasks /\ place[hand'] = NoTask /\ \A w \in Ways : handed[w][hand'] = 0
  BY DEF PushRead, TakeRead, PushAgain, ExtractRead, TakePush, Fresh, HandInv, Holding, Typed, TypeOK
<1>2. pc' = "write" => bottom - top \in 0..(Capacity - 1)
  BY DEF PushRead, TakeRead, PushAgain, ExtractRead, TakePush, Full
<1>3. t' \in Int /\ (pc' = "extract" => t' = top /\ bottom - top >= 2)
  BY DEF PushRead, TakeRead, PushAgain, ExtractRead, TakePush, Typed, TypeOK
<1>4. End' = bottom /\ End = bottom
  BY <1>1 DEF End, Holding
<1>5. Bounds'
  BY <1>1, <1>2, <1>3, <1>4, WSQAssumption DEF Bounds, Holding, Writing
<1>6. HandInv'
  BY <1>1 DEF HandInv, Holding
<1>7. LiveInv'
  <2>1. \A i \in top..(bottom - 1) : Holds(i)' /\ ByOwner(At(i))' = 0
    BY <1>1, <1>4 DEF LiveInv, Holds, At, ByOwner
  <2>. QED
    BY <1>1, <1>3, <1>4, <2>1 DEF LiveInv
<1>8. pc' \in Writing => bottom' >= top
  BY <1>1, <1>2 DEF Writing, Holding
<1>. QED
  BY <1>1, <1>3, <1>5, <1>6, <1>7, <1>8, OwnerLooks

LEMMA PopLooks ==
  ASSUME QInv, PopClaim \/ PopLast \/ PopEmpty \/ PopReset \/ (PopCas /\ top # t)
  PROVE  QInv'
<1>. USE DEF QInv
<1>1. /\ UNCHANGED <<top, slot, place, handed, thief, hand>> /\ bottom' \in Int /\ t' \in Int /\ top \in Nat
      /\ pc \in {"idle"} \union Popping /\ pc' \in {"idle"} \union Popping
  BY DEF PopClaim, PopLast, PopEmpty, PopReset, PopCas, Popping, Typed, TypeOK
<1>2. hand' = NoTask /\ hand = NoTask
  BY <1>1 DEF HandInv, Holding, Popping
<1>3. PICK e \in Int : End' = e /\ (e <= End \/ e <= top) /\ e - top <= Capacity
  <2>. USE DEF Typed, TypeOK, End, Bounds
  <2>1. CASE PopClaim
    <3>1. End' = bottom
      BY <2>1 DEF PopClaim
    <3>. QED
      BY <2>1, <3>1 DEF PopClaim
  <2>2. CASE PopLast \/ PopEmpty \/ (PopCas /\ top # t)
    <3>1. End' = bottom + 1 /\ End = bottom + 1
      BY <2>2 DEF PopLast, PopEmpty, PopCas
    <3>. QED
      BY <2>2, <3>1
  <2>3. CASE PopReset
    <3>1. (pc = "popreset" /\ End' = t + 1) \/ (pc = "popempty" /\ End' = t)
      BY <2>3 DEF PopReset
    <3>. QED
      BY <3>1, WSQAssumption
  <2>. QED
    BY <2>1, <2>2, <2>3
<1>4. Bounds'
  <2>1. End' - top <= Capacity
    BY <1>3
  <2>2. /\ pc' = "popcas" => t' = bottom' /\ t' <= top
        /\ pc' = "popreset" => t' = bottom' /\ t' < top
        /\ pc' = "popempty" => bottom' < t' /\ t' <= top
    <3>1. CASE PopClaim \/ PopReset
      BY <3>1 DEF PopClaim, PopReset
    <3>2. CASE PopLast \/ PopEmpty
      BY <3>2 DEF PopLast, PopEmpty, Typed, TypeOK
    <3>3. CASE PopCas /\ top # t
      BY <3>3 DEF PopCas, Bounds, Typed, TypeOK
    <3>. QED
      BY <3>1, <3>2, <3>3
  <2>. QED
    BY <1>1, <2>1, <2>2 DEF Bounds, Writing, Popping
<1>5. HandInv'
  BY <1>1, <1>2 DEF HandInv, Holding, Popping
<1>6. LiveInv'
  BY <1>1, <1>3, LiveKept DEF Popping
<1>. QED
  BY <1>1, <1>2, <1>4, <1>5, <1>6, OwnerLooks DEF Writing, Popping

LEMMA PublishStep ==
  ASSUME QInv, PushPublish
  PROVE  QInv'
<1>. USE DEF QInv, PushPublish
<1>1. /\ bottom \in Nat /\ bottom - top < Capacity /\ top \in Nat /\ End = bottom /\ End' = bottom + 1
      /\ At(bottom) = hand /\ hand \in Tasks /\ place[hand] = bottom /\ ByOwner(hand) = 0
  BY DEF Bounds, HandInv, Writing, Typed, TypeOK, End
<1>2. Bounds'
  BY <1>1, WSQAssumption DEF Bounds, Writing
<1>3. HandInv'
  BY DEF HandInv, Holding
<1>4. LiveInv'
  <2>1. \A i \in top..bottom : Holds(i) /\ ByOwner(At(i)) = 0
    BY <1>1 DEF LiveInv, Holds
  <2>2. \A i \in top..bottom : Holds(i)' /\ ByOwner(At(i))' = 0
    BY <2>1 DEF Holds, At, ByOwner
  <2>. QED
    BY <1>1, <2>2 DEF LiveInv
<1>. QED
  BY <1>1, <1>2, <1>3, <1>4, OwnerLooks DEF Writing, Typed, TypeOK

\* The newest task is popped: its index is not that of a thief's first.
LEMMA PopTakeStep ==
  ASSUME QInv, PopTake
  PROVE  QInv'
<1>. USE DEF QInv, PopTake
<1>. DEFINE x == At(bottom)
<1>1. /\ top \in Nat /\ bottom \in Int /\ top < bottom /\ End = bottom + 1 /\ End' = bottom
      /\ UNCHANGED <<top, bottom, slot, t, hand, thief, place>> /\ pc = "popread" /\ pc' = "idle"
  BY DEF Typed, TypeOK, End
<1>2. Holds(bottom) /\ ByOwner(x) = 0
  BY <1>1 DEF LiveInv
<1>3. x \in Tasks /\ place[x] = bottom
  BY <1>2 DEF Holds
<1>4. \A y \in Tasks : /\ ThroughTop(y)' = ThroughTop(y) /\ handed'["first"][y] = handed["first"][y]
                       /\ ByOwner(y)' = IF y = x THEN ByOwner(y) + 1 ELSE ByOwner(y)
                       /\ y # x => \A w \in Ways : handed'[w][y] = handed[w][y]
  BY OwnerGives
<1>5. Typed'
  <2>1. handed' \in [Ways -> [Tasks -> Nat]]
    BY Given DEF Ways
  <2>. QED
    BY <1>1, <2>1 DEF Typed, TypeOK
<1>6. Bounds'
  BY <1>1, WSQAssumption DEF Bounds, Writing
<1>7. HandInv'
  BY <1>1 DEF HandInv, Holding
<1>8. LiveInv'
  <2>1. \A i \in top..(bottom - 1) : Holds(i) /\ ByOwner(At(i)) = 0 /\ At(i) # x
    BY <1>1, <1>3 DEF LiveInv, Holds
  <2>2. \A i \in top..(bottom - 1) : At(i)' = At(i) /\ Holds(i)'
    BY <1>1, <2>1 DEF Holds, At
  <2>3. \A i \in top..(bottom - 1) : ByOwner(At(i))' = 0
    BY <1>4, <2>1, <2>2 DEF Holds, ByOwner
  <2>. QED
    BY <1>1, <2>2, <2>3 DEF LiveInv
<1>9. TopInv'
  BY <1>1, <1>4 DEF TopInv
<1>10. ThiefInv'
  <2>. SUFFICES ASSUME NEW h \in Thieves, Reaching(h)' PROVE ReachInv(h)'
    BY <1>1 DEF ThiefInv, LensInv
  <2>1. Reaching(h) /\ ReachInv(h)
    BY <1>1 DEF ThiefInv, Reaching
  <2>2. Holds(top + 0)
    BY <2>1 DEF ReachInv
  <2>3. At(top) \in Tasks /\ At(top) # x /\ "popped" \in Ways
    BY <1>1, <1>3, <2>2 DEF Holds, Ways
  <2>4. handed'["popped"][At(top)] = 0
    BY <1>4, <2>1, <2>3 DEF ReachInv
  <2>5. Len(thief[h].out) > 0 => handed'["popped"][thief[h].out[1]] = 0
    <3>. SUFFICES ASSUME Len(thief[h].out) > 0 PROVE handed'["popped"][thief[h].out[1]] = 0
      OBVIOUS
    <3>0. Len(thief[h].out) \in Nat
      BY DEF Typed, Locals
    <3>1. thief[h].out[1] \in Tasks /\ place[thief[h].out[1]] = top + 1 - 1 /\ handed["popped"][thief[h].out[1]] = 0
      BY <2>1, <3>0 DEF ReachInv
    <3>2. thief[h].out[1] # x
      BY <1>1, <1>3, <3>1
    <3>. QED
      BY <1>4, <2>3, <3>1, <3>2
  <2>. QED
    BY <1>1, <2>1, <2>4, <2>5 DEF ReachInv, Holds, At, Writing
<1>11. OwnerGivesOnce'
  BY <1>2, <1>3, <1>4 DEF OwnerGivesOnce
<1>12. FirstIsFree'
  <2>. SUFFICES ASSUME NEW y \in Tasks, handed'["first"][y] > 0 PROVE handed'["popped"][y] = 0
    BY DEF FirstIsFree
  <2>1. ThroughTop(y) > 0
    BY <1>4, Sums
  <2>2. y # x
    BY <1>1, <1>3, <2>1 DEF TopInv
  <2>. QED
    BY <1>4, <2>2 DEF FirstIsFree, Ways
<1>. QED
  BY <1>5, <1>6, <1>7, <1>8, <1>9, <1>10, <1>11, <1>12

\* When top moves no thief's CAS succeeds any more.
LEMMA NoneReaching ==
  ASSUME ThiefInv, Typed, NEW e \in Nat, top' = e, top < e, thief' = thief
  PROVE  ThiefInv'
<1>. SUFFICES ASSUME NEW h \in Thieves PROVE LensInv(h)' /\ ~Reaching(h)'
  BY DEF ThiefInv
<1>1. LensInv(h) /\ thief[h].t \in Nat /\ top \in Nat
  BY DEF ThiefInv, Typed, TypeOK, Locals
<1>. QED
  BY <1>1 DEF LensInv, Reaching

\* The owner wins the last task: top passes it.
LEMMA PopCasStep ==
  ASSUME QInv, PopCas, top = t
  PROVE  QInv'
<1>. USE DEF QInv, PopCas
<1>. DEFINE x == At(t)
<1>1. /\ top \in Nat /\ t = top /\ bottom = top /\ End = top + 1 /\ End' = top + 1 /\ top' = top + 1
      /\ UNCHANGED <<bottom, slot, t, hand, thief, place>> /\ pc = "popcas" /\ pc' = "popreset"
  BY DEF Typed, TypeOK, Bounds, End
<1>2. Holds(top) /\ ByOwner(x) = 0
  BY <1>1 DEF LiveInv
<1>3. x \in Tasks /\ place[x] = top
  BY <1>1, <1>2 DEF Holds
<1>4. HandOut("last", {x}) /\ "last" \in Ways
  BY <1>1 DEF Ways
<1>5. \A y \in Tasks : /\ ByOwner(y)' = IF y = x THEN ByOwner(y) + 1 ELSE ByOwner(y)
                       /\ ThroughTop(y)' = IF y = x THEN ThroughTop(y) + 1 ELSE ThroughTop(y)
                       /\ handed'["first"][y] = handed["first"][y] /\ handed'["popped"][y] = handed["popped"][y]
  <2>1. \A w \in Ways, y \in Tasks : handed'[w][y] = IF w = "last" /\ y \in {x} THEN handed[w][y] + 1 ELSE handed[w][y]
    BY <1>4, Given
  <2>. QED
    BY <2>1 DEF ThroughTop, ByOwner, Ways, Typed, TypeOK
<1>6. Typed'
  <2>1. handed' \in [Ways -> [Tasks -> Nat]] /\ top' \in Nat
    BY <1>1, <1>4, Given
  <2>. QED
    BY <1>1, <2>1 DEF Typed, TypeOK
<1>7. Bounds'
  BY <1>1, WSQAssumption DEF Bounds, Writing
<1>8. HandInv'
  BY <1>1 DEF HandInv, Holding
<1>9. LiveInv'
  <2>1. (top + 1)..(top + 1 - 1) = {}
    BY <1>1
  <2>. QED
    BY <1>1, <2>1 DEF LiveInv
<1>10. ThroughTop(x) = 0
  <2>1. ThroughTop(x) \in Nat
    BY <1>3, Sums
  <2>. QED
    BY <1>1, <1>3, <2>1 DEF TopInv
<1>11. TopInv'
  <2>. SUFFICES ASSUME NEW y \in Tasks, ThroughTop(y)' > 0
                PROVE  ThroughTop(y)' = 1 /\ place[y] \in Nat /\ place[y] < top + 1
    BY <1>1 DEF TopInv
  <2>1. CASE y = x
    BY <1>1, <1>3, <1>5, <1>10, <2>1
  <2>2. CASE y # x
    BY <1>1, <1>5, <2>2 DEF TopInv
  <2>. QED
    BY <2>1, <2>2
<1>12. ThiefInv'
  BY <1>1, NoneReaching
<1>13. OwnerGivesOnce' /\ FirstIsFree'
  BY <1>1, <1>2, <1>3, <1>5 DEF OwnerGivesOnce, FirstIsFree
<1>. QED
  BY <1>6, <1>7, <1>8, <1>9, <1>11, <1>12, <1>13

\* What goes to the global queue leaves the thieves' indices alone.
LEMMA ThiefKept ==
  ASSUME QInv, UNCHANGED <<top, slot, place, thief>>, pc' \notin Writing,
         \A x \in Tasks : handed'["popped"][x] = handed["popped"][x]
  PROVE  ThiefInv'
<1>. SUFFICES ASSUME NEW h \in Thieves PROVE LensInv(h)' /\ (Reaching(h)' => ReachInv(h)')
  BY DEF ThiefInv
<1>1. LensInv(h) /\ (Reaching(h) => ReachInv(h)) /\ UNCHANGED <<top, slot, place, thief>>
  BY DEF QInv, ThiefInv
<1>2. LensInv(h)'
  BY <1>1 DEF LensInv
<1>3. ASSUME Reaching(h)' PROVE ReachInv(h)'
  <2>1. ReachInv(h)
    BY <1>1, <1>3 DEF Reaching
  <2>2. top \in Nat /\ thief[h].n >= 1 /\ Len(thief[h].out) \in Nat
    BY <2>1 DEF QInv, Typed, TypeOK, Locals, ReachInv
  <2>3. At(top) \in Tasks
    <3>1. Holds(top + 0)
      BY <2>1, <2>2 DEF ReachInv
    <3>. QED
      BY <2>2, <3>1 DEF Holds
  <2>4. Len(thief[h].out) > 0 => thief[h].out[1] \in Tasks
    BY <2>1, <2>2 DEF ReachInv
  <2>. QED
    BY <1>1, <2>1, <2>3, <2>4 DEF ReachInv, Holds, At
<1>. QED
  BY <1>2, <1>3

LEMMA ExtractStep ==
  ASSUME QInv, Extract
  PROVE  QInv'
<1>. USE DEF QInv, Extract
<1>. DEFINE S == Between(bottom - Half, bottom)
<1>1. /\ top \in Nat /\ bottom \in Int /\ t \in Nat /\ t <= top /\ End = bottom
      /\ UNCHANGED <<top, slot, t, hand, thief, place>> /\ pc = "extract" /\ pc' = "again"
  BY DEF Typed, TypeOK, Bounds, End
<1>2. PICK e \in Int : bottom' = e /\ e = bottom - Half /\ t < e /\ e < bottom /\ End' = e
  BY <1>1, Halves DEF End
<1>3. \A i \in e..(bottom - 1) : Holds(i) /\ ByOwner(At(i)) = 0
  BY <1>1, <1>2 DEF LiveInv
<1>4. \A x \in Tasks : x \in S => place[x] \in e..(bottom - 1) /\ At(place[x]) = x /\ ByOwner(x) = 0
  BY <1>2, <1>3 DEF Between, Holds
<1>5. \A x \in Tasks : /\ ThroughTop(x)' = ThroughTop(x) /\ handed'["first"][x] = handed["first"][x]
                       /\ ByOwner(x)' = IF x \in S THEN ByOwner(x) + 1 ELSE ByOwner(x)
                       /\ x \notin S => \A w \in Ways : handed'[w][x] = handed[w][x]
                       /\ handed'["popped"][x] = handed["popped"][x]
  <2>1. "moved" \in Ways /\ "popped" \in Ways
    BY DEF Ways
  <2>. QED
    BY <2>1, Given, OwnerGives
<1>6. Typed'
  <2>1. handed' \in [Ways -> [Tasks -> Nat]]
    BY Given DEF Ways
  <2>. QED
    BY <1>1, <1>2, <2>1 DEF Typed, TypeOK
<1>7. Bounds'
  BY <1>1, <1>2, WSQAssumption DEF Bounds, Writing
<1>8. HandInv'
  <2>1. hand \in Tasks /\ place[hand] = NoTask /\ \A w \in Ways : handed[w][hand] = 0
    BY <1>1 DEF HandInv, Holding
  <2>2. hand \notin S
    BY <1>1, <1>2, <1>4, <2>1, WSQAssumption
  <2>. QED
    BY <1>1, <1>5, <2>1, <2>2 DEF HandInv, Holding
<1>9. LiveInv'
  <2>1. \A i \in top..(e - 1) : Holds(i) /\ ByOwner(At(i)) = 0 /\ At(i) \notin S
    BY <1>1, <1>2, <1>4 DEF LiveInv, Holds
  <2>2. \A i \in top..(e - 1) : At(i)' = At(i) /\ Holds(i)'
    BY <1>1, <2>1 DEF Holds, At
  <2>3. \A i \in top..(e - 1) : ByOwner(At(i))' = 0
    BY <1>5, <2>1, <2>2 DEF Holds, ByOwner
  <2>. QED
    BY <1>1, <1>2, <2>2, <2>3 DEF LiveInv
<1>10. TopInv'
  BY <1>1, <1>5 DEF TopInv
<1>11. ThiefInv'
  BY <1>1, <1>5, ThiefKept DEF Writing
<1>12. OwnerGivesOnce' /\ FirstIsFree'
  BY <1>4, <1>5 DEF OwnerGivesOnce, FirstIsFree
<1>. QED
  BY <1>6, <1>7, <1>8, <1>9, <1>10, <1>11, <1>12

\* A task that does not get into the queue goes elsewhere, and has been in no slot.
LEMMA AwayStep ==
  ASSUME QInv, PushGlobal \/ (TakePush /\ Full)
  PROVE  QInv'
<1>. USE DEF QInv
<1>1. /\ top \in Nat /\ bottom \in Int /\ End = bottom /\ End' = bottom
      /\ UNCHANGED <<top, bottom, slot, t, thief, place>> /\ pc \in Holding /\ pc' = "idle" /\ hand' = NoTask
      /\ hand \in Tasks /\ place[hand] = NoTask /\ \A w \in Ways : handed[w][hand] = 0
  BY DEF PushGlobal, TakePush, Typed, TypeOK, End, HandInv, Holding
<1>2. PICK way \in {"moved", "dropped"} : HandOut(way, {hand})
  BY DEF PushGlobal, TakePush
<1>3. /\ handed' \in [Ways -> [Tasks -> Nat]]
      /\ \A w \in Ways, x \in Tasks : handed'[w][x] = IF w = way /\ x \in {hand} THEN handed[w][x] + 1 ELSE handed[w][x]
  BY <1>2, Given DEF Ways
<1>4. \A x \in Tasks : /\ ThroughTop(x)' = ThroughTop(x) /\ handed'["first"][x] = handed["first"][x]
                       /\ handed'["popped"][x] = handed["popped"][x]
                       /\ IF x = hand THEN ByOwner(x)' <= 1 ELSE ByOwner(x)' = ByOwner(x)
  <2>. SUFFICES ASSUME NEW x \in Tasks
                PROVE  /\ ThroughTop(x)' = ThroughTop(x) /\ handed'["first"][x] = handed["first"][x]
                       /\ handed'["popped"][x] = handed["popped"][x]
                       /\ IF x = hand THEN ByOwner(x)' <= 1 ELSE ByOwner(x)' = ByOwner(x)
    OBVIOUS
  <2>1. CASE x # hand
    <3>1. \A w \in Ways : handed'[w][x] = handed[w][x]
      BY <1>3, <2>1
    <3>. QED
      BY <2>1, <3>1 DEF ThroughTop, ByOwner, Ways
  <2>2. CASE x = hand
    <3>1. \A w \in Ways : handed[w][x] = 0 /\ handed'[w][x] = IF w = way THEN 1 ELSE 0
      BY <1>1, <1>3, <2>2
    <3>2. /\ handed'["first"][x] = 0 /\ handed'["rest"][x] = 0 /\ handed'["last"][x] = 0
          /\ handed'["popped"][x] = 0 /\ (handed'["moved"][x] = 0 \/ handed'["moved"][x] = 1)
          /\ handed["first"][x] = 0 /\ handed["popped"][x] = 0
      BY <3>1 DEF Ways
    <3>3. ThroughTop(x) = 0
      BY <3>1, Sums
    <3>4. ThroughTop(x)' = 0
      BY <3>2 DEF ThroughTop
    <3>5. ByOwner(x)' <= 1
      BY <3>2 DEF ByOwner
    <3>. QED
      BY <2>2, <3>2, <3>3, <3>4, <3>5
  <2>. QED
    BY <2>1, <2>2
<1>5. Typed'
  BY <1>1, <1>3 DEF Typed, TypeOK
<1>6. Bounds'
  BY <1>1, WSQAssumption DEF Bounds, Writing
<1>7. HandInv'
  BY <1>1 DEF HandInv, Holding
<1>8. LiveInv'
  <2>1. \A i \in top..(bottom - 1) : Holds(i) /\ ByOwner(At(i)) = 0 /\ At(i) # hand
    BY <1>1, WSQAssumption DEF LiveInv, Holds
  <2>2. \A i \in top..(bottom - 1) : At(i)' = At(i) /\ Holds(i)'
    BY <1>1, <2>1 DEF Holds, At
  <2>3. \A i \in top..(bottom - 1) : ByOwner(At(i))' = 0
    BY <1>4, <2>1, <2>2 DEF Holds, ByOwner
  <2>. QED
    BY <1>1, <2>2, <2>3 DEF LiveInv
<1>9. TopInv'
  BY <1>1, <1>4 DEF TopInv
<1>10. ThiefInv'
  BY <1>1, <1>4, ThiefKept DEF Writing
<1>11. OwnerGivesOnce' /\ FirstIsFree'
  BY <1>4 DEF OwnerGivesOnce, FirstIsFree
<1>. QED
  BY <1>5, <1>6, <1>7, <1>8, <1>9, <1>10, <1>11

\* A task is written where no index of the queue, and none that a thief can still take, has its slot.
LEMMA WriteStep ==
  ASSUME QInv, PushWrite
  PROVE  QInv'
<1>. USE DEF QInv, PushWrite
<1>1. /\ top \in Nat /\ bottom \in Nat /\ bottom - top < Capacity /\ Capacity \in Nat \ {0}
      /\ End = bottom /\ End' = bottom
      /\ UNCHANGED <<top, bottom, t, hand, thief, handed>> /\ pc = "write" /\ pc' = "publish"
      /\ hand \in Tasks /\ place[hand] = NoTask /\ \A w \in Ways : handed[w][hand] = 0
  BY WSQAssumption DEF Typed, TypeOK, Bounds, HandInv, Writing, Holding, End
<1>2. \A i \in Int : i % Capacity \in 0..(Capacity - 1)
  BY <1>1, Remainder
<1>3. /\ slot' \in [0..(Capacity - 1) -> Tasks \union {NoTask}] /\ place' \in [Tasks -> Nat \union {NoTask}]
      /\ \A x \in Tasks : place'[x] = IF x = hand THEN bottom ELSE place[x]
      /\ \A i \in Int : At(i)' = IF i % Capacity = bottom % Capacity THEN hand ELSE At(i)
  BY <1>1, <1>2 DEF Typed, TypeOK, At
<1>4. ASSUME NEW i \in Nat, i = bottom \/ (i < bottom /\ bottom - i < Capacity) \/ (bottom < i /\ i - bottom < Capacity)
      PROVE  At(i)' = IF i = bottom THEN hand ELSE At(i)
  <2>0. At(i)' = IF i % Capacity = bottom % Capacity THEN hand ELSE At(i)
    BY <1>3
  <2>1. CASE i = bottom
    BY <2>0, <2>1
  <2>2. CASE i < bottom /\ bottom - i < Capacity
    <3>0. bottom \in Int /\ i \in Int /\ Capacity \in Nat \ {0} /\ i < bottom /\ bottom - i < Capacity
      BY <1>1, <2>2
    <3>. HIDE DEF QInv, PushWrite
    <3>1. i % Capacity # bottom % Capacity
      BY <3>0, OtherSlot
    <3>2. At(i)' = At(i)
      BY <2>0, <3>1
    <3>3. i # bottom
      BY <1>1, <2>2
    <3>. QED
      BY <3>2, <3>3
  <2>3. CASE bottom < i /\ i - bottom < Capacity
    <3>0. bottom \in Int /\ i \in Int /\ Capacity \in Nat \ {0} /\ bottom < i /\ i - bottom < Capacity
      BY <1>1, <2>3
    <3>. HIDE DEF QInv, PushWrite
    <3>1. bottom % Capacity # i % Capacity
      BY <3>0, OtherSlot
    <3>2. At(i)' = At(i)
      BY <2>0, <3>1
    <3>3. i # bottom
      BY <1>1, <2>3
    <3>. QED
      BY <3>2, <3>3
  <2>. QED
    BY <1>4, <2>1, <2>2, <2>3
<1>5. \A i \in Nat : Holds(i) => At(i) # hand /\ place'[At(i)] = i
  BY <1>1, <1>3, WSQAssumption DEF Holds
<1>6. Typed'
  BY <1>1, <1>3 DEF Typed, TypeOK
<1>7. Bounds'
  BY <1>1, WSQAssumption DEF Bounds, Writing
<1>8. HandInv'
  <2>1. ByOwner(hand)' = 0
    BY <1>1, Sums DEF ByOwner
  <2>. QED
    BY <1>1, <1>3, <1>4, <2>1 DEF HandInv, Holding
<1>9. LiveInv'
  <2>. SUFFICES ASSUME NEW i \in top..(bottom - 1) PROVE Holds(i)' /\ ByOwner(At(i))' = 0
    BY <1>1 DEF LiveInv
  <2>1. Holds(i) /\ ByOwner(At(i)) = 0 /\ i \in Nat
    BY <1>1 DEF LiveInv
  <2>2. At(i)' = At(i)
    BY <1>1, <1>4
  <2>. QED
    BY <1>1, <1>5, <2>1, <2>2 DEF Holds, ByOwner
<1>10. TopInv'
  <2>. SUFFICES ASSUME NEW x \in Tasks, ThroughTop(x) > 0
                PROVE  ThroughTop(x) = 1 /\ place'[x] \in Nat /\ place'[x] < top
    BY <1>1 DEF TopInv, ThroughTop
  <2>1. x # hand
    BY <1>1, Sums
  <2>. QED
    BY <1>3, <2>1 DEF TopInv
<1>11. ThiefInv'
  <2>. SUFFICES ASSUME NEW h \in Thieves PROVE LensInv(h)' /\ (Reaching(h)' => ReachInv(h)')
    BY DEF ThiefInv
  <2>1. LensInv(h)'
    BY <1>1 DEF ThiefInv, LensInv
  <2>2. ASSUME Reaching(h)' PROVE ReachInv(h)'
    <3>1. ReachInv(h) /\ thief[h].n \in 1..Capacity /\ bottom >= top /\ Len(thief[h].out) \in Nat
      BY <1>1, <2>2 DEF ThiefInv, Reaching, ReachInv, Writing, Typed, Locals
    <3>2. ASSUME NEW j \in Nat, top <= j, j < top + thief[h].n PROVE Holds(j)'
      <4>1. Holds(j)
        <5>1. PICK i \in 0..(thief[h].n - 1) : top + i = j
          BY <1>1, <3>1, <3>2
        <5>. QED
          BY <3>1, <5>1 DEF ReachInv
      <4>2. j = bottom \/ (j < bottom /\ bottom - j < Capacity) \/ (bottom < j /\ j - bottom < Capacity)
        BY <1>1, <3>1, <3>2
      <4>3. At(j)' = IF j = bottom THEN hand ELSE At(j)
        BY <1>4, <4>2
      <4>. QED
        BY <1>1, <1>3, <1>5, <4>1, <4>3 DEF Holds
    <3>3. \A i \in 0..(thief[h].n - 1) : Holds(top + i)'
      <4>. SUFFICES ASSUME NEW i \in 0..(thief[h].n - 1) PROVE Holds(top + i)'
        OBVIOUS
      <4>1. PICK j \in Nat : j = top + i /\ top <= j /\ j < top + thief[h].n
        BY <1>1, <3>1
      <4>2. Holds(j)'
        BY <3>2, <4>1
      <4>. QED
        BY <1>1, <4>1, <4>2 DEF Holds, At
    <3>4. \A k \in 1..Len(thief[h].out) : thief[h].out[k] \in Tasks /\ place'[thief[h].out[k]] = top + k - 1
      <4>. SUFFICES ASSUME NEW k \in 1..Len(thief[h].out)
                    PROVE  thief[h].out[k] \in Tasks /\ place'[thief[h].out[k]] = top + k - 1
        OBVIOUS
      <4>1. thief[h].out[k] \in Tasks /\ place[thief[h].out[k]] = top + k - 1 /\ top + k - 1 \in Nat
        <5>1. /\ \A i \in 1..Len(thief[h].out) : /\ thief[h].out[i] \in Tasks
                                               /\ place[thief[h].out[i]] = top + i - 1
              /\ Len(thief[h].out) \in Nat /\ top \in Nat
          BY <1>1, <3>1 DEF ReachInv
        <5>. HIDE DEF QInv, PushWrite
        <5>. QED
          BY <5>1
      <4>2. thief[h].out[k] # hand
        BY <1>1, <4>1, WSQAssumption
      <4>. QED
        BY <1>3, <4>1, <4>2
    <3>5. handed["popped"][At(top)'] = 0
      <4>1. At(top)' = hand \/ At(top)' = At(top)
        BY <1>1, <1>3
      <4>2. handed["popped"][At(top)] = 0
        BY <3>1 DEF ReachInv
      <4>3. handed["popped"][hand] = 0
        <5>1. "popped" \in Ways
          BY DEF Ways
        <5>. QED
          BY <1>1, <5>1
      <4>. HIDE DEF QInv, PushWrite
      <4>. QED
        BY <4>1, <4>2, <4>3
    <3>. QED
      BY <1>1, <3>1, <3>3, <3>4, <3>5 DEF ReachInv, Writing
  <2>. QED
    BY <2>1, <2>2
<1>12. OwnerGivesOnce' /\ FirstIsFree'
  BY <1>1 DEF OwnerGivesOnce, FirstIsFree, ByOwner
<1>. QED
  BY <1>6, <1>7, <1>8, <1>9, <1>10, <1>11, <1>12

-----------------------------------------------------------------------------
(* The thieves' steps                                                      *)

\* A thief that is on its way changes its own record alone.
LEMMA ThiefLooks ==
  ASSUME QInv, NEW h \in Thieves, NEW new \in Locals, ThiefGoes(h, new), UNCHANGED <<top, handed, Owner>>,
         LensInv(h)', Reaching(h)' => ReachInv(h)'
  PROVE  QInv'
<1>. USE DEF QInv, Owner
<1>1. thief' \in [Thieves -> Locals] /\ \A g \in Thieves \ {h} : thief'[g] = thief[g]
  BY DEF ThiefGoes, Typed
<1>2. Typed'
  BY <1>1 DEF Typed, TypeOK, Locals
<1>3. Bounds' /\ HandInv' /\ LiveInv' /\ TopInv' /\ OwnerGivesOnce' /\ FirstIsFree'
  BY DEF Bounds, HandInv, LiveInv, TopInv, OwnerGivesOnce, FirstIsFree, Holds, At, End, ByOwner, ThroughTop
<1>4. ThiefInv'
  <2>. SUFFICES ASSUME NEW g \in Thieves \ {h} PROVE LensInv(g)' /\ (Reaching(g)' => ReachInv(g)')
    BY DEF ThiefInv
  <2>. QED
    BY <1>1 DEF ThiefInv, LensInv, Reaching, ReachInv, Holds, At
<1>. QED
  BY <1>2, <1>3, <1>4

LEMMA RestTyped == Resting \in Locals
BY WSQAssumption DEF Resting, Locals

LEMMA StartLooks ==
  ASSUME QInv, NEW h \in Thieves, StealStart(h) \/ StealTop(h) \/ StealFail(h)
  PROVE  QInv'
<1>. USE DEF QInv
<1>1. PICK new \in Locals : /\ ThiefGoes(h, new) /\ new.step \in {"rest", "top", "bottom"}
                            /\ new.out = <<>> /\ new.t <= top
  <2>0. thief[h] \in Locals /\ top \in Nat /\ Tries \in Nat /\ MaxBatch \in Nat /\ <<>> \in Seq(Tasks \union {NoTask})
    BY WSQAssumption DEF Typed, TypeOK
  <2>1. /\ Resting.step = "rest" /\ Resting.out = <<>> /\ Resting.t = 0
    BY DEF Resting
  <2>2. ASSUME NEW k \in Int, ThiefGoes(h, [Resting EXCEPT !.step = "top", !.tries = k])
        PROVE  \E new \in Locals : /\ ThiefGoes(h, new) /\ new.step \in {"rest", "top", "bottom"}
                                    /\ new.out = <<>> /\ new.t <= top
    <3>. DEFINE new == [Resting EXCEPT !.step = "top", !.tries = k]
    <3>1. new \in Locals
      BY RestTyped DEF Locals
    <3>2. new.step = "top" /\ new.out = <<>> /\ new.t = 0
      BY <2>1 DEF Resting
    <3>3. ThiefGoes(h, new)
      BY <2>2
    <3>. HIDE DEF new
    <3>. QED
      BY <2>0, <3>1, <3>2, <3>3
  <2>3. CASE StealStart(h)
    <3>1. ThiefGoes(h, [Resting EXCEPT !.step = "top", !.tries = Tries]) /\ Tries \in Int
      BY <2>0, <2>3 DEF StealStart
    <3>. QED
      BY <2>2, <3>1
  <2>4. CASE StealTop(h)
    <3>. DEFINE new == [thief[h] EXCEPT !.step = "bottom", !.t = top, !.out = <<>>]
    <3>1. new \in Locals /\ new.step = "bottom" /\ new.t = top /\ new.out = <<>>
      BY <2>0 DEF Locals
    <3>2. ThiefGoes(h, new)
      BY <2>4 DEF StealTop
    <3>. HIDE DEF new
    <3>. QED
      BY <2>0, <3>1, <3>2
  <2>5. CASE StealFail(h)
    <3>1. CASE ThiefGoes(h, Resting)
      BY <2>0, <2>1, <3>1, RestTyped
    <3>2. CASE ThiefGoes(h, [Resting EXCEPT !.step = "top", !.tries = thief[h].tries - 1])
      <4>1. thief[h].tries - 1 \in Int
        BY <2>0 DEF Locals
      <4>. QED
        BY <2>2, <3>2, <4>1
    <3>. QED
      BY <2>5, <3>1, <3>2 DEF StealFail
  <2>. QED
    BY <2>3, <2>4, <2>5
<1>2. thief'[h] = new /\ UNCHANGED <<top, handed, Owner>>
  BY <1>1 DEF ThiefGoes, Typed, StealStart, StealTop, StealFail
<1>3. LensInv(h)' /\ ~Reaching(h)'
  BY <1>1, <1>2 DEF LensInv, Reaching
<1>. QED
  BY <1>1, <1>2, <1>3, ThiefLooks

LEMMA StealBottomStep ==
  ASSUME QInv, NEW h \in Thieves, StealBottom(h)
  PROVE  QInv'
<1>. USE DEF QInv
<1>0. /\ thief[h] \in Locals /\ top \in Nat /\ bottom \in Int /\ thief[h].t \in Nat /\ thief[h].t <= top
      /\ thief[h].out = <<>> /\ bottom <= End /\ End \in Int /\ UNCHANGED <<top, handed, Owner>>
  BY DEF StealBottom, Typed, TypeOK, Locals, ThiefInv, LensInv, End
<1>1. CASE thief[h].t >= bottom
  <2>1. ThiefGoes(h, Resting) /\ Resting.step = "rest" /\ Resting.t = 0
    BY <1>0, <1>1 DEF StealBottom, Resting
  <2>2. thief'[h] = Resting
    BY <2>1 DEF ThiefGoes, Typed
  <2>3. LensInv(h)' /\ ~Reaching(h)'
    BY <1>0, <2>1, <2>2 DEF LensInv, Reaching
  <2>. QED
    BY <1>0, <2>1, <2>3, RestTyped, ThiefLooks
<1>2. CASE thief[h].t < bottom
  <2>1. PICK b \in 1..MaxBatch : b = BatchSize(bottom - thief[h].t) /\ b <= bottom - thief[h].t
    <3>1. bottom - thief[h].t \in Int /\ bottom - thief[h].t >= 1
      BY <1>0, <1>2
    <3>. QED
      BY <3>1, Batches
  <2>. DEFINE new == [thief[h] EXCEPT !.step = "read", !.n = b]
  <2>2. ThiefGoes(h, new)
    BY <1>0, <1>2, <2>1 DEF StealBottom
  <2>3. new \in Locals /\ new.step = "read" /\ new.n = b /\ new.t = thief[h].t /\ new.out = <<>>
    <3>1. b \in 0..MaxBatch
      BY WSQAssumption
    <3>2. new \in Locals
      BY <1>0, <3>1 DEF Locals
    <3>3. new.step = "read" /\ new.n = b /\ new.t = thief[h].t /\ new.out = thief[h].out
      BY <1>0 DEF Locals
    <3>. QED
      BY <1>0, <3>2, <3>3
  <2>. HIDE DEF new
  <2>4. thief'[h] = new
    BY <2>2 DEF ThiefGoes, Typed
  <2>5. LensInv(h)'
    BY <1>0, <2>3, <2>4 DEF LensInv
  <2>6. ASSUME Reaching(h)' PROVE ReachInv(h)'
    <3>1. thief[h].t = top
      BY <1>0, <2>3, <2>4, <2>6 DEF Reaching
    <3>2. b <= Capacity /\ top < bottom
      BY <1>0, <1>2, <2>1, <3>1, WSQAssumption DEF Bounds
    <3>3. \A i \in 0..(b - 1) : Holds(top + i) /\ ByOwner(At(top + i)) = 0
      <4>. SUFFICES ASSUME NEW i \in 0..(b - 1) PROVE Holds(top + i) /\ ByOwner(At(top + i)) = 0
        OBVIOUS
      <4>1. top + i \in top..(End - 1)
        BY <1>0, <2>1, <3>1
      <4>. QED
        BY <4>1 DEF LiveInv
    <3>4. handed["popped"][At(top)] = 0
      <4>1. Holds(top + 0) /\ ByOwner(At(top + 0)) = 0
        BY <2>1, <3>3
      <4>2. At(top) \in Tasks /\ ByOwner(At(top)) = 0
        BY <1>0, <4>1 DEF Holds
      <4>3. handed["popped"][At(top)] \in Nat /\ ~(handed["popped"][At(top)] > 0)
        BY <4>2, Sums DEF Ways
      <4>. QED
        BY <4>3
    <3>5. \A i \in 0..(b - 1) : Holds(top + i)'
      BY <1>0, <3>3 DEF Holds, At, Owner
    <3>. QED
      BY <1>0, <2>1, <2>3, <2>4, <3>2, <3>4, <3>5 DEF ReachInv, Owner, At
  <2>. QED
    BY <1>0, <2>2, <2>3, <2>5, <2>6, ThiefLooks
<1>. QED
  BY <1>0, <1>1, <1>2

LEMMA StealReadStep ==
  ASSUME QInv, NEW h \in Thieves, StealRead(h)
  PROVE  QInv'
<1>. USE DEF QInv
<1>0. /\ thief[h] \in Locals /\ top \in Nat /\ thief[h].t \in Nat /\ thief[h].t <= top /\ thief[h].step = "read"
      /\ thief[h].n \in Nat /\ UNCHANGED <<top, handed, Owner>>
      /\ thief[h].out \in Seq(Tasks \union {NoTask}) /\ Len(thief[h].out) \in Nat /\ Len(thief[h].out) < thief[h].n
  BY WSQAssumption DEF StealRead, Typed, TypeOK, Locals, ThiefInv, LensInv
<1>. DEFINE got == Len(thief[h].out)
            x == At(thief[h].t + got)
            out == Append(thief[h].out, x)
            new == [thief[h] EXCEPT !.out = out, !.step = IF got + 1 = thief[h].n THEN "cas" ELSE "read"]
<1>1. ThiefGoes(h, new)
  BY DEF StealRead
<1>2. x \in Tasks \union {NoTask}
  <2>0. PICK i \in Int : i = thief[h].t + got
    BY <1>0
  <2>1. i % Capacity \in 0..(Capacity - 1)
    BY WSQAssumption, Remainder
  <2>. QED
    BY <2>0, <2>1 DEF At, Typed, TypeOK
<1>. HIDE DEF x
<1>3. /\ out \in Seq(Tasks \union {NoTask}) /\ Len(out) = got + 1 /\ out[got + 1] = x
      /\ \A k \in 1..got : out[k] = thief[h].out[k]
  BY <1>0, <1>2
<1>. HIDE DEF out
<1>4. /\ new \in Locals /\ new.step = (IF got + 1 = thief[h].n THEN "cas" ELSE "read")
      /\ new.n = thief[h].n /\ new.t = thief[h].t /\ new.out = out
  BY <1>0, <1>3 DEF Locals
<1>. HIDE DEF new
<1>5. thief'[h] = new
  BY <1>1 DEF ThiefGoes, Typed
<1>6. LensInv(h)'
  BY <1>0, <1>3, <1>4, <1>5 DEF LensInv
<1>7. ASSUME Reaching(h)' PROVE ReachInv(h)'
  <2>1. thief[h].t = top /\ ReachInv(h)
    BY <1>0, <1>4, <1>5, <1>7 DEF Reaching, ThiefInv
  <2>2. Holds(top + got)
    BY <1>0, <2>1 DEF ReachInv
  <2>3. x \in Tasks /\ place[x] = top + got
    BY <2>1, <2>2 DEF Holds, x
  <2>4. \A k \in 1..Len(out) : out[k] \in Tasks /\ place[out[k]] = top + k - 1
    <3>. SUFFICES ASSUME NEW k \in 1..Len(out) PROVE out[k] \in Tasks /\ place[out[k]] = top + k - 1
      OBVIOUS
    <3>1. CASE k = got + 1
      BY <1>0, <1>3, <2>3, <3>1
    <3>2. CASE k \in 1..got
      BY <1>3, <2>1, <3>2 DEF ReachInv
    <3>. QED
      BY <1>0, <1>3, <3>1, <3>2
  <2>5. handed["popped"][out[1]] = 0
    <3>1. CASE got = 0
      <4>1. out[1] = At(top)
        BY <1>0, <1>3, <2>1, <3>1 DEF x
      <4>. QED
        BY <2>1, <4>1 DEF ReachInv
    <3>2. CASE got > 0
      BY <1>0, <1>3, <2>1, <3>2 DEF ReachInv
    <3>. QED
      BY <1>0, <3>1, <3>2
  <2>6. \A i \in 0..(thief[h].n - 1) : Holds(top + i)'
    BY <1>0, <2>1 DEF ReachInv, Holds, At, Owner
  <2>. QED
    BY <1>0, <1>4, <1>5, <2>1, <2>4, <2>5, <2>6 DEF ReachInv, Owner, At
<1>. QED
  BY <1>0, <1>1, <1>4, <1>6, <1>7, ThiefLooks

\* The CAS succeeds: the batch leaves the queue, and no other thief's CAS will.
LEMMA StealCommitStep ==
  ASSUME QInv, NEW h \in Thieves, StealCommit(h)
  PROVE  QInv'
<1>. USE DEF QInv
<1>. DEFINE n == thief[h].n
            out == thief[h].out
<1>1. /\ top \in Nat /\ bottom \in Int /\ End \in Int /\ thief[h] \in Locals
      /\ UNCHANGED Owner /\ ThiefGoes(h, Resting) /\ TakeLoot(h) /\ Reaching(h)
  BY DEF StealCommit, Typed, TypeOK, End, Reaching
<1>2. /\ ReachInv(h) /\ Len(out) = n /\ n \in Nat /\ n >= 1 /\ n <= MaxBatch /\ MaxBatch \in Nat
      /\ \A k \in 1..n : out[k] \in Tasks /\ place[out[k]] = top + k - 1
      /\ handed["popped"][out[1]] = 0
  <2>1. LensInv(h) /\ ReachInv(h) /\ thief[h].step = "cas"
    BY <1>1 DEF ThiefInv, StealCommit
  <2>2. Len(out) = n /\ n \in 1..Capacity /\ n <= MaxBatch
    BY <2>1 DEF LensInv, ReachInv
  <2>. QED
    BY <2>1, <2>2, WSQAssumption DEF ReachInv
<1>3. PICK e \in Nat : top' = e /\ e = top + n
  <2>1. top' = top + n
    BY DEF StealCommit
  <2>2. top + n \in Nat
    BY <1>1, <1>2
  <2>. QED
    BY <2>1, <2>2
<1>. DEFINE A == Loot(h, {1})
            B == Loot(h, 2..MaxBatch)
<1>4. /\ \A x \in Tasks : x \in A => x = out[1] /\ place[x] = top
      /\ \A x \in Tasks : x \in B => place[x] \in (top + 1)..(e - 1)
  <2>1. ASSUME NEW x \in A PROVE x = out[1] /\ place[x] = top
    <3>1. x = out[1]
      BY <2>1 DEF Loot
    <3>2. 1 \in 1..n
      BY <1>2
    <3>3. place[out[1]] = top + 1 - 1
      BY <1>2, <3>2
    <3>4. top + 1 - 1 = top
      BY <1>1
    <3>. QED
      BY <3>1, <3>3, <3>4
  <2>2. ASSUME NEW x \in B PROVE place[x] \in (top + 1)..(e - 1)
    <3>1. PICK k \in 2..MaxBatch : k \in 1..n /\ x = out[k]
      BY <2>2 DEF Loot
    <3>2. place[x] = top + k - 1
      BY <1>2, <3>1
    <3>3. k \in Int /\ k >= 2 /\ k <= n /\ n \in Int /\ top \in Int /\ e = top + n
      BY <1>1, <1>2, <1>3, <3>1
    <3>. HIDE DEF QInv, n, out
    <3>4. top + k - 1 \in (top + 1)..(e - 1)
      BY <3>3
    <3>. QED
      BY <3>2, <3>4
  <2>. QED
    BY <2>1, <2>2
<1>. HIDE DEF A, B
<1>5. /\ handed' \in [Ways -> [Tasks -> Nat]]
      /\ \A w \in Ways, x \in Tasks :
             handed'[w][x] = IF (w = "first" /\ x \in A) \/ (w = "rest" /\ x \in B) THEN handed[w][x] + 1 ELSE handed[w][x]
  <2>1. handed' = [handed EXCEPT !["first"] = Once(handed["first"], A), !["rest"] = Once(handed["rest"], B)]
    BY <1>1 DEF TakeLoot, A, B
  <2>2. "first" \in Ways /\ "rest" \in Ways /\ handed \in [Ways -> [Tasks -> Nat]]
    BY DEF Ways, Typed, TypeOK
  <2>3. Once(handed["first"], A) \in [Tasks -> Nat] /\ Once(handed["rest"], B) \in [Tasks -> Nat]
    BY <2>2 DEF Once
  <2>4. \A w \in Ways : handed'[w] = IF w = "first" THEN Once(handed["first"], A)
                                     ELSE IF w = "rest" THEN Once(handed["rest"], B) ELSE handed[w]
    BY <2>1, <2>2
  <2>. QED
    BY <2>1, <2>2, <2>3, <2>4 DEF Once
<1>6. \A x \in Tasks : /\ ByOwner(x)' = ByOwner(x) /\ handed'["popped"][x] = handed["popped"][x]
                       /\ x \notin A => handed'["first"][x] = handed["first"][x]
                       /\ x \notin A \union B => \A w \in Ways : handed'[w][x] = handed[w][x]
                       /\ x \notin A \union B => ThroughTop(x)' = ThroughTop(x)
                       /\ x \in A /\ x \notin B => ThroughTop(x)' = ThroughTop(x) + 1
                       /\ x \in B /\ x \notin A => ThroughTop(x)' = ThroughTop(x) + 1
  <2>. SUFFICES ASSUME NEW x \in Tasks
                PROVE  /\ ByOwner(x)' = ByOwner(x) /\ handed'["popped"][x] = handed["popped"][x]
                       /\ x \notin A => handed'["first"][x] = handed["first"][x]
                       /\ x \notin A \union B => \A w \in Ways : handed'[w][x] = handed[w][x]
                       /\ x \notin A \union B => ThroughTop(x)' = ThroughTop(x)
                       /\ x \in A /\ x \notin B => ThroughTop(x)' = ThroughTop(x) + 1
                       /\ x \in B /\ x \notin A => ThroughTop(x)' = ThroughTop(x) + 1
    OBVIOUS
  <2>1. /\ \A w \in {"last", "popped", "moved"} : handed'[w][x] = handed[w][x] /\ handed[w][x] \in Nat
        /\ handed'["first"][x] = IF x \in A THEN handed["first"][x] + 1 ELSE handed["first"][x]
        /\ handed'["rest"][x] = IF x \in B THEN handed["rest"][x] + 1 ELSE handed["rest"][x]
        /\ handed["first"][x] \in Nat /\ handed["rest"][x] \in Nat
    BY <1>5, Sums DEF Ways
  <2>2. x \notin A \union B => \A w \in Ways : handed'[w][x] = handed[w][x]
    BY <1>5
  <2>. QED
    BY <2>1, <2>2 DEF ByOwner, ThroughTop
<1>7. \A x \in A \union B : x \in Tasks => /\ ThroughTop(x) = 0 /\ ThroughTop(x)' = 1
                                         /\ place[x] \in Nat /\ place[x] < e
  <2>. SUFFICES ASSUME NEW x \in Tasks, x \in A \union B
                PROVE  ThroughTop(x) = 0 /\ ThroughTop(x)' = 1 /\ place[x] \in Nat /\ place[x] < e
    OBVIOUS
  <2>1. place[x] \in top..(e - 1) /\ ~(x \in A /\ x \in B)
    BY <1>1, <1>2, <1>3, <1>4
  <2>2. ThroughTop(x) \in Nat /\ ~(ThroughTop(x) > 0)
    BY <1>1, <1>3, <2>1, Sums DEF TopInv
  <2>3. ThroughTop(x)' = ThroughTop(x) + 1
    BY <1>6, <2>1
  <2>. QED
    BY <1>1, <1>3, <2>1, <2>2, <2>3
<1>8. /\ UNCHANGED <<bottom, slot, pc, t, hand, place>> /\ End' = End
      /\ thief' = [thief EXCEPT ![h] = Resting] /\ thief' \in [Thieves -> Locals]
  BY <1>1, RestTyped DEF Owner, ThiefGoes, Typed, End
<1>9. Typed'
  <2>1. \A g \in Thieves : thief'[g].n \in 0..MaxBatch
    BY <1>8 DEF Locals
  <2>. QED
    BY <1>3, <1>5, <1>8, <2>1 DEF Typed, TypeOK
<1>10. Bounds'
  <2>1. End - e <= Capacity /\ (bottom - top < Capacity => bottom - e < Capacity)
    <3>1. End - top <= Capacity /\ top < e /\ Capacity \in Nat
      BY <1>1, <1>2, <1>3, WSQAssumption DEF Bounds
    <3>. QED
      BY <1>1, <3>1
  <2>2. t \in Int /\ (t <= top => t <= e) /\ (t < top => t < e)
    BY <1>1, <1>2, <1>3 DEF Typed, TypeOK
  <2>. QED
    BY <1>3, <1>8, <2>1, <2>2 DEF Bounds
<1>11. HandInv'
  <2>1. ASSUME pc \in Holding PROVE \A w \in Ways : handed'[w][hand] = 0
    <3>1. hand \in Tasks /\ place[hand] = NoTask /\ \A w \in Ways : handed[w][hand] = 0
      BY <2>1 DEF HandInv
    <3>2. hand \notin A \union B
      BY <1>1, <1>3, <1>4, <3>1, WSQAssumption
    <3>. QED
      BY <1>6, <3>1, <3>2
  <2>2. ASSUME pc = "publish" PROVE ByOwner(hand)' = 0
    <3>1. hand \in Tasks /\ ByOwner(hand) = 0
      BY <2>2 DEF HandInv
    <3>2. ByOwner(hand)' = ByOwner(hand)'
      OBVIOUS
    <3>3. \A x \in Tasks : x = hand => ByOwner(x)' = 0
      BY <1>6, <3>1
    <3>. QED
      BY <1>8, <3>1, <3>3 DEF ByOwner
  <2>. QED
    BY <1>8, <2>1, <2>2 DEF HandInv, At
<1>12. LiveInv'
  <2>1. \A i : At(i)' = At(i) /\ (Holds(i)' <=> Holds(i))
    BY <1>8 DEF Holds, At
  <2>2. \A i : Holds(i) => ByOwner(At(i))' = ByOwner(At(i))
    <3>1. \A i : \A x \in Tasks : x = At(i) => ByOwner(At(i))' = ByOwner(x)'
      BY <2>1 DEF ByOwner
    <3>. QED
      BY <1>6, <3>1 DEF Holds
  <2>3. \A i \in e..(End - 1) : Holds(i)' /\ ByOwner(At(i))' = 0
    BY <1>1, <1>2, <1>3, <2>1, <2>2 DEF LiveInv
  <2>4. pc = "extract" => \A i \in t..(bottom - 1) : Holds(i)' /\ ByOwner(At(i))' = 0
    BY <2>1, <2>2 DEF LiveInv
  <2>. QED
    BY <1>3, <1>8, <2>3, <2>4 DEF LiveInv
<1>13. TopInv'
  <2>. SUFFICES ASSUME NEW x \in Tasks, ThroughTop(x)' > 0
                PROVE  ThroughTop(x)' = 1 /\ place[x] \in Nat /\ place[x] < e
    BY <1>3, <1>8 DEF TopInv
  <2>1. CASE x \in A \union B
    BY <1>7, <2>1
  <2>2. CASE x \notin A \union B
    BY <1>1, <1>2, <1>3, <1>6, <2>2 DEF TopInv
  <2>. QED
    BY <2>1, <2>2
<1>14. ThiefInv'
  <2>. SUFFICES ASSUME NEW g \in Thieves PROVE LensInv(g)' /\ ~Reaching(g)'
    BY DEF ThiefInv
  <2>1. CASE g = h
    BY <1>3, <1>8, <2>1 DEF LensInv, Reaching, Resting
  <2>2. CASE g # h
    <3>1. thief'[g] = thief[g] /\ thief[g].t \in Nat /\ thief[g].t < e
      BY <1>1, <1>2, <1>3, <1>8, <2>2 DEF ThiefInv, LensInv, Typed, Locals
    <3>. QED
      BY <1>3, <3>1 DEF ThiefInv, LensInv, Reaching
  <2>. QED
    BY <2>1, <2>2
<1>15. OwnerGivesOnce'
  BY <1>6 DEF OwnerGivesOnce
<1>16. FirstIsFree'
  BY <1>2, <1>4, <1>6 DEF FirstIsFree
<1>. QED
  BY <1>9, <1>10, <1>11, <1>12, <1>13, <1>14, <1>15, <1>16

-----------------------------------------------------------------------------
(* The theorems                                                            *)

LEMMA QInit == Init => QInv
<1>. SUFFICES ASSUME Init PROVE QInv
  OBVIOUS
<1>. USE WSQAssumption DEF Init
<1>1. Typed
  BY RestTyped DEF Typed, TypeOK, Resting
<1>2. \A x \in Tasks : (\A w \in Ways : handed[w][x] = 0) /\ ByOwner(x) = 0 /\ ThroughTop(x) = 0
  BY <1>1, Sums
<1>3. End = 0 /\ Bounds /\ HandInv
  BY DEF End, Bounds, HandInv, Writing, Holding
<1>4. LiveInv
  BY <1>3 DEF LiveInv
<1>5. TopInv
  BY <1>2 DEF TopInv
<1>6. ThiefInv
  BY DEF ThiefInv, LensInv, Reaching, Resting
<1>7. OwnerGivesOnce /\ FirstIsFree
  BY <1>2 DEF OwnerGivesOnce, FirstIsFree, Ways
<1>. QED
  BY <1>1, <1>3, <1>4, <1>5, <1>6, <1>7 DEF QInv

LEMMA QStep == QInv /\ [Next]_vars => QInv'
<1>. SUFFICES ASSUME QInv, [Next]_vars PROVE QInv'
  OBVIOUS
<1>1. ASSUME NEW x \in Tasks, PushRead(x) \/ TakeRead(x) PROVE QInv'
  BY <1>1, PushLooks
<1>2. CASE PushAgain \/ ExtractRead
  BY <1>2, PushLooks
<1>3. CASE PushWrite
  BY <1>3, WriteStep
<1>4. CASE PushPublish
  BY <1>4, PublishStep
<1>5. CASE Extract
  BY <1>5, ExtractStep
<1>6. CASE PushGlobal
  BY <1>6, AwayStep
<1>7. CASE TakePush
  BY <1>7, AwayStep, PushLooks
<1>8. CASE PopClaim \/ PopLast \/ PopEmpty \/ PopReset
  BY <1>8, PopLooks
<1>9. CASE PopTake
  BY <1>9, PopTakeStep
<1>10. CASE PopCas
  BY <1>10, PopCasStep, PopLooks
<1>11. ASSUME NEW h \in Thieves, ThiefNext(h) PROVE QInv'
  BY <1>11, StartLooks, StealBottomStep, StealReadStep, StealCommitStep DEF ThiefNext
<1>12. CASE UNCHANGED vars
  BY <1>12 DEF vars, QInv, Typed, TypeOK, Bounds, HandInv, LiveInv, TopInv, ThiefInv, LensInv, Reaching, ReachInv,
                OwnerGivesOnce, FirstIsFree, Holds, At, End, ByOwner, ThroughTop
<1>. QED
  BY <1>1, <1>2, <1>3, <1>4, <1>5, <1>6, <1>7, <1>8, <1>9, <1>10, <1>11, <1>12 DEF Next, OwnerNext

\* Whatever is stolen, popped, moved and pushed meanwhile, a thief whose CAS would succeed holds what it
\* has read, and the owner does not come across what it has given away (lm_wsq.c).
THEOREM QueueInvariance == Spec => []QInv
<1>. QED
  BY QInit, QStep, PTL DEF Spec

\* Moving top gives a task to one taker, for any batch (lm_wsq.c:71-84 against 93-114).
THEOREM TakenOnce == Spec => []TopTakesOnce
<1>1. QInv => TopTakesOnce
  <2>. SUFFICES ASSUME QInv, NEW x \in Tasks PROVE ThroughTop(x) <= 1
    BY DEF TopTakesOnce
  <2>1. ThroughTop(x) \in Nat
    BY Sums DEF QInv
  <2>. QED
    BY <2>1 DEF QInv, TopInv
<1>. QED
  BY <1>1, QueueInvariance, PTL

\* The owner gives no task away twice, with the size cast to size_t and top ahead of bottom too.
THEOREM GivenOnce == Spec => []OwnerGivesOnce
<1>1. QInv => OwnerGivesOnce
  BY DEF QInv
<1>. QED
  BY <1>1, QueueInvariance, PTL

\* What a thief runs at once, the first of its batch, the owner has not popped: without batches
\* (one task for each CAS) there is no duplicate.
THEOREM FirstOfBatch == Spec => []FirstIsFree
<1>1. QInv => FirstIsFree
  BY DEF QInv
<1>. QED
  BY <1>1, QueueInvariance, PTL
=============================================================================
