-------------------------------- MODULE RbSet --------------------------------
(* A user of a red-black tree: keys are inserted and erased in any order, the way
   vmap_area_root is used (mm/vmalloc.c).  A key is the node that stands for it. *)
EXTENDS RbTree, Functions

ASSUME KeysAssumption == Node \subseteq Nat /\ NULL \notin Node

VARIABLES
    tree,
    keys        \* history: what was inserted and not erased

vars == <<tree, keys>>

(* The descent before rb_link_node: the place of n below the last node on the way. *)
Place(t, n) ==
    LET Down(x) ==
            LET s == IF n < x.v THEN "left" ELSE "right"
            IN IF x.v = NULL THEN x ELSE [parent |-> x.v, side |-> s, v |-> t.child[s][x.v]]
    IN Repeat(Down, [parent |-> NULL, side |-> "left", v |-> t.root])

Insert(n) ==
    LET at == Place(tree, n)
    IN /\ n \notin keys
       /\ tree' = rb_insert_color(rb_link_node(tree, n, at.parent, at.side), n)
       /\ keys' = keys \cup {n}

Erase(n) ==
    /\ n \in keys
    /\ tree' = rb_erase(tree, n)
    /\ keys' = keys \ {n}

Init == tree = RB_ROOT /\ keys = {}

Next == \E n \in Node : Insert(n) \/ Erase(n)

Spec == Init /\ [][Next]_vars

-----------------------------------------------------------------------------
(* After every sequence of insertions and erasures, whatever rotations they took, the tree
   is a red-black tree, links exactly the keys that are in it, and rb_first, rb_next and
   rb_prev lead through them in ascending order and back. (rb_insert_color, rb_erase) *)
TreeExact ==
    LET s == InOrder(tree)
    IN /\ Linked(tree) = keys
       /\ RedBlack(tree)
       /\ Range(s) = keys
       /\ \A i \in 1 .. Len(s) - 1 : s[i] < s[i + 1]
       /\ \A i \in DOMAIN s : rb_prev(tree, s[i]) = IF i = 1 THEN NULL ELSE s[i - 1]
=============================================================================
