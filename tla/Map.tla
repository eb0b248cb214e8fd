-------------------------------- MODULE Map --------------------------------
(***************************************************************************)
(* The dictionary of lm_map.c: an array of buckets that doubles, a bucket  *)
(* a chain of entries or, from a length on, a red-black tree.              *)
(*                                                                         *)
(* The operations are sequential: lumyr_enter_write lets one writer in.    *)
(* A key is known by what the code asks of it, value_hash and the place it *)
(* has under key_compare; two keys are one when key_eq says so.  Entries   *)
(* out of reach are the collector's.  The thresholds are constants, and    *)
(* smaller in the runs than in the code.                                   *)
(***************************************************************************)
EXTENDS Naturals, Sequences, SequencesExt, FiniteSets

CONSTANTS Keys, Values, None,
          Hash, Rank,       \* of a key: value_hash, its place under key_compare
          InitCap,          \* MAP_INIT_CAP
          TreeifyAt,        \* MAP_TREEIFY_THRESHOLD
          UntreeifyBelow,   \* MAP_UNTREEIFY_THRESHOLD
          MinTreeCap,       \* MAP_MIN_TREEIFY_CAP
          MaxCap,           \* bound: the array grows no further
          Copies            \* bound: entries of one key

Nil   == <<>>                   \* NULL
Nodes == Keys \X (1..Copies)    \* the entries gc_alloc_old may return

ASSUME MapAssumption ==
    /\ None \notin Values /\ Hash \in [Keys -> Nat] /\ Rank \in [Keys -> Nat]
    /\ \A k, l \in Keys : Rank[k] = Rank[l] => k = l
    /\ InitCap \in Nat \ {0} /\ UntreeifyBelow \in Nat \ {0} /\ UntreeifyBelow <= TreeifyAt
    /\ MaxCap >= InitCap /\ Copies \in Nat \ {0}

VARIABLES map,   \* ValueMap: [cap, len, tree, chain, root, node]
          dict   \* history: the value each key was last given, or None

Bins == 0..(MaxCap - 1)
Blank == [value |-> None, color |-> "red", left |-> Nil, right |-> Nil, parent |-> Nil]

KeyOf(x) == x[1]

\* val_map: the buckets are empty chains.
Empty == [cap |-> InitCap, len |-> 0, tree |-> [i \in Bins |-> FALSE],
          chain |-> [i \in Bins |-> <<>>], root |-> [i \in Bins |-> Nil],
          node |-> [x \in Nodes |-> Blank]]

Init == map = Empty /\ dict = [k \in Keys |-> None]

-----------------------------------------------------------------------------
(* Red-black trees.  A tree is [root, node]; a side is a field of an entry. *)

Other(s) == IF s = "left" THEN "right" ELSE "left"
Red(t, x) == x # Nil /\ t.node[x].color = "red"
SideOf(t, x) == IF x = t.node[t.node[x].parent].left THEN "left" ELSE "right"

Paint(t, xs, c) == [t EXCEPT !.node = [x \in Nodes |->
    IF x \in xs THEN [t.node[x] EXCEPT !.color = c] ELSE t.node[x]]]

Adopt(t, x, p) == IF x = Nil THEN t ELSE [t EXCEPT !.node[x].parent = p]

\* y takes the place of x under the parent of x.
Replace(t, x, y) ==
    LET p == t.node[x].parent
    IN Adopt(IF p = Nil THEN [t EXCEPT !.root = y] ELSE [t EXCEPT !.node[p][SideOf(t, x)] = y], y, p)

\* x goes down to side s, its child on the other side comes up.
Rotate(t, x, s) ==
    LET y  == t.node[x][Other(s)]
        t1 == Replace(t, x, y)
        t2 == Adopt([t1 EXCEPT !.node[x][Other(s)] = t.node[y][s]], t.node[y][s], x)
    IN [t2 EXCEPT !.node[y][s] = x, !.node[x].parent = y]

\* From the smallest key to the largest.
RECURSIVE InOrder(_, _)
InOrder(t, x) == IF x = Nil THEN <<>>
                 ELSE InOrder(t, t.node[x].left) \o <<x>> \o InOrder(t, t.node[x].right)

\* k goes to the left of l: the hashes decide, key_compare between equal ones.
Before(k, l) == Hash[k] < Hash[l] \/ (Hash[k] = Hash[l] /\ Rank[k] < Rank[l])

RECURSIVE TreeFind(_, _, _)
TreeFind(t, x, k) ==
    IF x = Nil \/ KeyOf(x) = k THEN x
    ELSE TreeFind(t, t.node[x][IF Before(k, KeyOf(x)) THEN "left" ELSE "right"], k)

RECURSIVE InsertFixup(_, _)
InsertFixup(t, z) ==
    LET p == t.node[z].parent
    IN IF ~Red(t, p) THEN Paint(t, {t.root}, "black")
       ELSE LET g == t.node[p].parent
                s == SideOf(t, p)
                u == t.node[g][Other(s)]
                inner == z = t.node[p][Other(s)]
                t1 == IF inner THEN Rotate(t, p, s) ELSE t
                t2 == Paint(Paint(t1, {IF inner THEN z ELSE p}, "black"), {g}, "red")
            IN IF Red(t, u) THEN InsertFixup(Paint(Paint(t, {p, u}, "black"), {g}, "red"), g)
               ELSE InsertFixup(Rotate(t2, g, Other(s)), IF inner THEN p ELSE z)

\* Where the descent of tree_insert for k ends; y is the entry met last.
RECURSIVE Descend(_, _, _, _)
Descend(t, x, y, k) ==
    IF x = Nil THEN y
    ELSE Descend(t, t.node[x][IF Before(k, KeyOf(x)) THEN "left" ELSE "right"], x, k)

\* tree_insert, and the loop of treeify_bin: the descent goes by hash and key,
\* the side under the last entry by key_compare alone.
Hang(t, z) ==
    LET y == Descend(t, t.root, Nil, KeyOf(z))
        new == [Blank EXCEPT !.value = t.node[z].value, !.parent = y]
        side == IF Rank[KeyOf(z)] < Rank[KeyOf(y)] THEN "left" ELSE "right"
    IN InsertFixup(IF y = Nil THEN [t EXCEPT !.root = z, !.node[z] = new]
                              ELSE [t EXCEPT !.node[z] = new, !.node[y][side] = z], z)

RECURSIVE TreeMin(_, _)
TreeMin(t, x) == IF t.node[x].left = Nil THEN x ELSE TreeMin(t, t.node[x].left)

\* x, a child of p, is one black short.
RECURSIVE DeleteFixup(_, _, _)
DeleteFixup(t, x, p) ==
    IF x = t.root \/ Red(t, x) \/ p = Nil
    THEN IF x = Nil THEN t ELSE Paint(t, {x}, "black")
    ELSE LET s  == IF x = t.node[p].left THEN "left" ELSE "right"
             o  == Other(s)
             w0 == t.node[p][o]
             t1 == IF Red(t, w0) THEN Rotate(Paint(Paint(t, {w0}, "black"), {p}, "red"), p, s) ELSE t
             w  == t1.node[p][o]
             near == t1.node[w][s]
             t2 == IF Red(t1, t1.node[w][o]) THEN t1
                   ELSE Rotate(Paint(Paint(t1, {near}, "black"), {w}, "red"), w, o)
             v  == t2.node[p][o]
             t3 == Paint(Paint(t2, {v}, t2.node[p].color), {p, t2.node[v][o]}, "black")
             t4 == Rotate(t3, p, s)
         IN IF ~Red(t1, near) /\ ~Red(t1, t1.node[w][o])
            THEN DeleteFixup(Paint(t1, {w}, "red"), p, t1.node[p].parent)
            ELSE Paint(t4, {t4.root}, "black")

\* tree_remove up to its fixup: what is left, the entry that took the place of
\* the one that went with its parent, and the colour that went.
Unlink(t, z) ==
    LET l == t.node[z].left
        r == t.node[z].right
        y == TreeMin(t, r)
        x == t.node[y].right
        p == IF t.node[y].parent = z THEN y ELSE t.node[y].parent
        t1 == IF p = y THEN t
              ELSE Adopt([Adopt(t, x, p) EXCEPT !.node[p].left = x, !.node[y].right = r], r, y)
        t2 == [Replace(t1, z, y) EXCEPT !.node[y].color = t.node[z].color, !.node[y].left = l]
    IN IF l = Nil \/ r = Nil
       THEN [tree |-> Replace(t, z, IF l = Nil THEN r ELSE l),
             at |-> <<IF l = Nil THEN r ELSE l, t.node[z].parent>>, color |-> t.node[z].color]
       ELSE [tree |-> Adopt(t2, l, y), at |-> <<x, p>>, color |-> t.node[y].color]

\* Slip: no fixup when nothing took the place, as with no sentinel it is easy to do.
TreeRemoveAtLeaf(t, z) ==
    LET u == Unlink(t, z)
    IN IF u.color = "black" /\ u.at[1] # Nil THEN DeleteFixup(u.tree, u.at[1], u.at[2]) ELSE u.tree

\* tree_remove
TreeRemove(t, z) ==
    LET u == Unlink(t, z)
    IN IF u.color = "black" THEN DeleteFixup(u.tree, u.at[1], u.at[2]) ELSE u.tree

\* The walk of map_del_impl to k: by key_compare alone.
RECURSIVE WalkTo(_, _, _)
WalkTo(t, x, k) ==
    IF x = Nil \/ KeyOf(x) = k THEN x
    ELSE WalkTo(t, t.node[x][IF Rank[k] < Rank[KeyOf(x)] THEN "left" ELSE "right"], k)

-----------------------------------------------------------------------------
(* Buckets *)

BucketIdx(k, cap) == Hash[k] % cap
TreeOf(m, i) == [root |-> m.root[i], node |-> m.node]
WithTree(m, i, t) == [m EXCEPT !.root[i] = t.root, !.node = t.node]

\* The entries of a bucket in the order an iteration meets them.
EntriesOf(m, i) == IF m.tree[i] THEN InOrder(TreeOf(m, i), m.root[i]) ELSE m.chain[i]

RECURSIVE EntriesUpTo(_, _)
EntriesUpTo(m, n) == IF n = 0 THEN <<>> ELSE EntriesUpTo(m, n - 1) \o EntriesOf(m, n - 1)

\* lumyr_map_keys, and a walk with map_iter_next.
Entries(m) == EntriesUpTo(m, m.cap)

KeysListed(m) == LET s == Entries(m) IN [j \in 1..Len(s) |-> KeyOf(s[j])]

\* An entry out of reach: what the collector leaves of it.
Swept(m) == LET used == ToSet(Entries(m))
            IN [m EXCEPT !.node = [x \in Nodes |-> IF x \in used THEN m.node[x] ELSE Blank]]

ChainFind(s, k) == LET at == {j \in 1..Len(s) : KeyOf(s[j]) = k}
                   IN IF at = {} THEN Nil ELSE s[CHOOSE j \in at : \A l \in at : j <= l]

Find(m, k) == LET i == BucketIdx(k, m.cap)
              IN IF m.tree[i] THEN TreeFind(TreeOf(m, i), m.root[i], k) ELSE ChainFind(m.chain[i], k)

\* lumyr_map_get
Get(m, k) == LET e == Find(m, k) IN IF e = Nil THEN None ELSE m.node[e].value

Treeify(m, i) ==
    IF m.cap < MinTreeCap THEN m
    ELSE LET t == FoldLeft(Hang, [root |-> Nil, node |-> m.node], m.chain[i])
         IN [WithTree(m, i, t) EXCEPT !.chain[i] = <<>>, !.tree[i] = TRUE]

Untreeify(m, i) ==
    LET s == InOrder(TreeOf(m, i), m.root[i])
    IN [m EXCEPT !.root[i] = Nil, !.tree[i] = FALSE, !.chain[i] = s,
                 !.node = [x \in Nodes |-> IF x \in ToSet(s)
                     THEN [Blank EXCEPT !.value = m.node[x].value] ELSE m.node[x]]]

\* Slip: the flags of the old buckets.
FlagsKept(m) == m.tree

FlagsAfter(m) == [j \in Bins |-> FALSE]

\* map_resize: a chain is split in its order, a tree is pushed entry by entry
\* in front; every new bucket is a chain.
Resize(m) ==
    LET cap == 2 * m.cap
        old(i) == IF m.tree[i] THEN Reverse(InOrder(TreeOf(m, i), m.root[i])) ELSE m.chain[i]
        new(j) == IF j >= cap THEN <<>>
                  ELSE SelectSeq(old(j % m.cap), LAMBDA x : BucketIdx(KeyOf(x), cap) = j)
    IN [m EXCEPT !.cap = cap, !.tree = FlagsAfter(m), !.root = [j \in Bins |-> Nil],
                 !.chain = [j \in Bins |-> new(j)],
                 !.node = [x \in Nodes |-> [Blank EXCEPT !.value = m.node[x].value]]]

-----------------------------------------------------------------------------
(* The operations *)

\* entry_new: one of the entries nobody has.
FreshEntry(m, k) ==
    LET used == {c \in 1..Copies : <<k, c>> \in ToSet(Entries(m))}
    IN <<k, CHOOSE c \in 1..Copies : c \notin used /\ 1..(c - 1) \subseteq used>>

\* The entry joins its bucket.
Added(m, i, x) ==
    IF m.tree[i] THEN WithTree(m, i, Hang(TreeOf(m, i), x))
    ELSE LET m1 == [m EXCEPT !.chain[i] = <<x>> \o @]
         IN IF Len(m1.chain[i]) >= TreeifyAt THEN Treeify(m1, i) ELSE m1

\* map_set_impl
Put(m, k, v) ==
    LET e == Find(m, k)
        x == FreshEntry(m, k)
        m1 == Added([m EXCEPT !.node[x].value = v, !.len = @ + 1], BucketIdx(k, m.cap), x)
    IN IF e # Nil THEN [m EXCEPT !.node[e].value = v]
       ELSE IF m1.len > (3 * m1.cap) \div 4 THEN Resize(m1) ELSE m1

\* map_del_impl
Removed(m, k) ==
    LET i == BucketIdx(k, m.cap)
        e == IF m.tree[i] THEN WalkTo(TreeOf(m, i), m.root[i], k) ELSE ChainFind(m.chain[i], k)
        m1 == [WithTree(m, i, TreeRemove(TreeOf(m, i), e)) EXCEPT !.len = @ - 1]
    IN IF e = Nil THEN m
       ELSE IF ~m.tree[i] THEN [m EXCEPT !.chain[i] = SelectSeq(@, LAMBDA x : x # e), !.len = @ - 1]
       ELSE IF Len(EntriesOf(m1, i)) < UntreeifyBelow THEN Untreeify(m1, i) ELSE m1

\* lumyr_map_shallow_copy, and lumyr_map_lit of what keys and values list.
Copied(m) == FoldLeft(LAMBDA c, x : Put(c, KeyOf(x), m.node[x].value), Empty, Entries(m))

HasRoom(m) == 2 * m.cap <= MaxCap \/ m.len < (3 * m.cap) \div 4

Set(k, v) == /\ HasRoom(map) /\ map' = Swept(Put(map, k, v))
             /\ dict' = [dict EXCEPT ![k] = v]
Del(k) == /\ map' = Swept(Removed(map, k))
          /\ dict' = [dict EXCEPT ![k] = None]
Copy == map' = Copied(map) /\ UNCHANGED dict

\* clear: every key that keys lists is deleted.
Clear == /\ map' = Swept(FoldLeft(Removed, map, KeysListed(map)))
         /\ dict' = [k \in Keys |-> None]

Next == \/ \E k \in Keys : Del(k) \/ \E v \in Values : Set(k, v)
        \/ Copy \/ Clear

Spec == Init /\ [][Next]_<<map, dict>>

-----------------------------------------------------------------------------
(* Properties *)

\* The map is the dictionary its user means: whatever sets, dels and copies
\* have done to chains and trees, and however often the array has grown,
\* lumyr_map_get answers with the value last set, and keys, iteration and len
\* count every key that has one, once.
ActsAsDictionary ==
    LET present == {k \in Keys : dict[k] # None}
        listed == KeysListed(map)
    IN /\ \A k \in Keys : Get(map, k) = dict[k]
       /\ IsInjective(listed) /\ ToSet(listed) = present
       /\ map.len = Cardinality(present)

\* The blacks on every way down from x, or 0 when the ways differ.
RECURSIVE Blacks(_, _)
Blacks(t, x) ==
    IF x = Nil THEN 1
    ELSE LET l == Blacks(t, t.node[x].left)
             r == Blacks(t, t.node[x].right)
         IN IF l = 0 \/ l # r THEN 0 ELSE IF Red(t, x) THEN l ELSE l + 1

\* A bucket that is a tree is a red-black tree after every operation: its root
\* black, no red below a red, as many blacks on every way down; its entries
\* know their parents, without which the next fixup goes astray.
RedBlack ==
    \A i \in Bins : map.tree[i] =>
        LET t == TreeOf(map, i)
        IN /\ ~Red(t, t.root) /\ Blacks(t, t.root) > 0
           /\ \A x \in ToSet(InOrder(t, t.root)) : \A s \in {"left", "right"} :
                  LET c == t.node[x][s]
                  IN c # Nil => t.node[c].parent = x /\ ~(Red(t, x) /\ Red(t, c))

\* Claim of SYNTAX_REFERENCE.md: a map has whatever has been set, whatever the
\* type of its keys.
HasWhatWasSet == \A k \in Keys : dict[k] # None => Find(map, k) # Nil
=============================================================================
