------------------------------- MODULE MCMap -------------------------------
(* Strings whose djb2 hashes collide, as 7 and 8 with their own: where hashes *)
(* differ they order the keys as key_compare does.  And the first multiples   *)
(* of 64: value_hash puts them into one bucket in an order of their own.      *)
EXTENDS Map
MCKeys   == 1..7
MCValues == {"a", "b"}
MCRank   == [k \in Keys |-> k]
Strings  == [k \in Keys |-> IF k < 6 THEN 1 ELSE IF k = 6 THEN 9 ELSE 2]
Integers == [k \in Keys |-> 16 * <<4, 0, 5, 1, 6, 2, 7>>[k]]
=============================================================================
