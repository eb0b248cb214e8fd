----------------------------- MODULE TimerSpec -----------------------------
(***************************************************************************)
(* What lm_timer.h promises: a timer that was added is cancelled or fires, *)
(* never both, never twice and never before its deadline.                  *)
(***************************************************************************)
EXTENDS Naturals

CONSTANTS Ids

VARIABLES status,   \* of each timer: "none", "armed", "fired" or "cancelled"
          due,      \* the deadline of an armed timer, 0 of any other
          now

Init == status = [id \in Ids |-> "none"] /\ due = [id \in Ids |-> 0] /\ now = 0

Become(id, from, to) == status[id] = from /\ status' = [status EXCEPT ![id] = to]

Add(id) == /\ Become(id, "none", "armed")
           /\ due'[id] \in Nat /\ due' = [due EXCEPT ![id] = due'[id]]
           /\ UNCHANGED now

Over(id, how) == /\ Become(id, "armed", how)
                 /\ due' = [due EXCEPT ![id] = 0]
                 /\ UNCHANGED now

Fire(id) == Over(id, "fired") /\ due[id] <= now

Cancel(id) == Over(id, "cancelled")

Tick == now' = now + 1 /\ UNCHANGED <<status, due>>

Next == Tick \/ \E id \in Ids : Add(id) \/ Fire(id) \/ Cancel(id)

Spec == Init /\ [][Next]_<<status, due, now>>
=============================================================================
