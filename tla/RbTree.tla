------------------------------- MODULE RbTree -------------------------------
(* The red-black trees of lib/ulib/rbtree.c and include/linux/rbree_augmented.h,
   without augmentation.

   A tree is a record: root, and for every node its two children, its parent and
   whether it is red (the last two share __rb_parent_color in the code).  The
   code spells every case out twice, once for each side; here a case is written
   once, for a side s and its mirror Other(s). *)
EXTENDS Naturals, Sequences

CONSTANT Node       \* the nodes that may be linked into a tree
CONSTANT MaxNodes   \* how many of them a tree holds at most
CONSTANT NULL       \* no node

Side == {"left", "right"}
Other(s) == IF s = "left" THEN "right" ELSE "left"

Link == Node \cup {NULL}

Tree ==
    [root : Link, child : [Side -> [Node -> Link]], parent : [Node -> Link], red : [Node -> BOOLEAN]]

(* RB_ROOT; a node outside the tree is its own parent (RB_CLEAR_NODE). *)
RB_ROOT ==
    [root |-> NULL, child |-> [s \in Side |-> [n \in Node |-> NULL]],
     parent |-> [n \in Node |-> n], red |-> [n \in Node |-> FALSE]]

RB_EMPTY_NODE(t, n) == t.parent[n] = n

(* Step applied often enough for every loop over a path of the tree to end. *)
Repeat(Step(_), x) ==
    LET after[k \in 0..(MaxNodes + 1)] == IF k = 0 THEN x ELSE Step(after[k - 1])
    IN after[MaxNodes + 1]

-----------------------------------------------------------------------------
(* Elementary updates. *)

rb_set_parent_color(t, n, p, isRed) ==
    IF n = NULL THEN t ELSE [t EXCEPT !.parent[n] = p, !.red[n] = isRed]

rb_set_parent(t, n, p) == IF n = NULL THEN t ELSE [t EXCEPT !.parent[n] = p]

rb_is_red(t, n) == n # NULL /\ t.red[n]

__rb_change_child(t, old, new, p) ==
    IF p = NULL THEN [t EXCEPT !.root = new]
    ELSE [t EXCEPT !.child[IF t.child["left"][p] = old THEN "left" ELSE "right"][p] = new]

(* new takes old's parent and colour, old becomes a child of new. *)
__rb_rotate_set_parents(t, old, new, isRed) ==
    LET moved == [t EXCEPT !.parent = [@ EXCEPT ![new] = t.parent[old], ![old] = new],
                           !.red = [@ EXCEPT ![new] = t.red[old], ![old] = isRed]]
    IN __rb_change_child(moved, old, new, t.parent[old])

rb_link_node(t, n, p, s) ==
    LET fresh == [t EXCEPT !.child = [side \in Side |-> [@[side] EXCEPT ![n] = NULL]],
                           !.parent[n] = p, !.red[n] = TRUE]
    IN IF p = NULL THEN [fresh EXCEPT !.root = n] ELSE [fresh EXCEPT !.child[s][p] = n]

-----------------------------------------------------------------------------
(* Insertion.  p is the left or right (s) child of g; u is the uncle. *)

InsertFlip(t, p, g, u) ==
    rb_set_parent_color(
        rb_set_parent_color(rb_set_parent_color(t, u, g, FALSE), p, g, FALSE), g, t.parent[g], TRUE)

(* Case 2: n is the inner child of p and is rotated above it. *)
InsertInner(t, n, p, s) ==
    LET tmp == t.child[s][n]
        rot == [t EXCEPT !.child[Other(s)][p] = tmp, !.child[s][n] = p]
    IN rb_set_parent_color(rb_set_parent_color(rot, tmp, p, FALSE), p, n, TRUE)

(* Case 3: p is rotated above g. *)
InsertOuter(t, p, g, s) ==
    LET tmp == t.child[Other(s)][p]
        rot == [t EXCEPT !.child[s][g] = tmp, !.child[Other(s)][p] = g]
    IN __rb_rotate_set_parents(rb_set_parent_color(rot, tmp, g, FALSE), g, p, TRUE)

InsertStep(x) ==
    LET t == x.t
        n == x.node
        p == t.parent[n]
        g == t.parent[p]
        s == IF t.child["right"][g] # p THEN "left" ELSE "right"
        u == t.child[Other(s)][g]
    IN CASE x.done -> x
         [] ~x.done /\ p = NULL -> [x EXCEPT !.t.red[n] = FALSE, !.done = TRUE]
         [] ~x.done /\ p # NULL /\ ~t.red[p] -> [x EXCEPT !.done = TRUE]
         [] OTHER ->
              IF rb_is_red(t, u) THEN [x EXCEPT !.t = InsertFlip(t, p, g, u), !.node = g]
              ELSE IF n = t.child[Other(s)][p]
                   THEN [x EXCEPT !.t = InsertOuter(InsertInner(t, n, p, s), n, g, s), !.done = TRUE]
                   ELSE [x EXCEPT !.t = InsertOuter(t, p, g, s), !.done = TRUE]

rb_insert_color(t, n) == Repeat(InsertStep, [t |-> t, node |-> n, done |-> FALSE]).t

-----------------------------------------------------------------------------
(* Erasing.  node is the child of p on side s whose paths lack one black node. *)

(* Case 1: the red sibling is rotated above p. *)
EraseRedSibling(t, p, sib, s) ==
    LET tmp1 == t.child[s][sib]
        rot == [t EXCEPT !.child[Other(s)][p] = tmp1, !.child[s][sib] = p]
    IN __rb_rotate_set_parents(rb_set_parent_color(rot, tmp1, p, FALSE), p, sib, TRUE)

(* Case 3: the sibling's red inner child is rotated above it. *)
EraseInner(t, p, sib, s) ==
    LET tmp2 == t.child[s][sib]
        tmp1 == t.child[Other(s)][tmp2]
        rot == [t EXCEPT !.child = [@ EXCEPT ![s][sib] = tmp1, ![Other(s)][tmp2] = sib, ![Other(s)][p] = tmp2]]
    IN rb_set_parent_color(rot, tmp1, sib, FALSE)

(* Case 4: the sibling is rotated above p and takes its colour; far, its outer
   child, becomes black. *)
EraseOuter(t, p, sib, far, s) ==
    LET tmp2 == t.child[s][sib]
        rot == [t EXCEPT !.child[Other(s)][p] = tmp2, !.child[s][sib] = p]
    IN __rb_rotate_set_parents(
           rb_set_parent(rb_set_parent_color(rot, far, sib, FALSE), tmp2, p), p, sib, FALSE)

(* Case 2, but never a further round. *)
EraseFlip_stops(x, t, p, sib) ==
    [x EXCEPT !.t = [t EXCEPT !.red[sib] = TRUE, !.red[p] = FALSE], !.done = TRUE]

(* Case 2: the sibling becomes red.  A red p takes the missing black, a black one leaves
   the tree above p one short. *)
EraseFlip(x, t, p, sib) ==
    LET flipped == [t EXCEPT !.red[sib] = TRUE]
    IN IF t.red[p] THEN [x EXCEPT !.t = [flipped EXCEPT !.red[p] = FALSE], !.done = TRUE]
       ELSE [x EXCEPT !.t = flipped, !.node = p, !.parent = t.parent[p], !.done = t.parent[p] = NULL]

EraseStep(x) ==
    LET p == x.parent
        s == IF x.t.child["right"][p] # x.node THEN "left" ELSE "right"
        sib1 == x.t.child[Other(s)][p]
        t == IF x.t.red[sib1] THEN EraseRedSibling(x.t, p, sib1, s) ELSE x.t
        sib == t.child[Other(s)][p]
        outer == t.child[Other(s)][sib]
        inner == t.child[s][sib]
    IN CASE x.done -> x
         [] ~x.done /\ rb_is_red(t, outer) ->
              [x EXCEPT !.t = EraseOuter(t, p, sib, outer, s), !.done = TRUE]
         [] ~x.done /\ ~rb_is_red(t, outer) /\ rb_is_red(t, inner) ->
              [x EXCEPT !.t = EraseOuter(EraseInner(t, p, sib, s), p, inner, sib, s), !.done = TRUE]
         [] OTHER -> EraseFlip(x, t, p, sib)

____rb_erase_color(t, p) ==
    Repeat(EraseStep, [t |-> t, node |-> NULL, parent |-> p, done |-> FALSE]).t

(* The last node on the way down side s from n. *)
Deepest(t, n, s) == LET Down(m) == IF t.child[s][m] = NULL THEN m ELSE t.child[s][m] IN Repeat(Down, n)

(* A node with at most one child is replaced by it; the child takes its colour. *)
Splice(t, n, only, p) ==
    rb_set_parent_color(__rb_change_child(t, n, only, p), only, p, t.red[n])

(* Unlinks n: the tree, and where it must be rebalanced (NULL: nowhere). *)
__rb_erase_augmented(t, n) ==
    LET left == t.child["left"][n]
        right == t.child["right"][n]
        only == IF left = NULL THEN right ELSE left
        p == t.parent[n]
        succ == Deepest(t, right, "left")
        up == IF succ = right THEN succ ELSE t.parent[succ]
        child2 == t.child["right"][succ]
        under == IF succ = right THEN t
                 ELSE [t EXCEPT !.child = [@ EXCEPT !["left"][up] = child2, !["right"][succ] = right],
                                !.parent[right] = succ]
        over == __rb_change_child(
                    [under EXCEPT !.child["left"][succ] = left,
                                  !.parent = [@ EXCEPT ![left] = succ, ![succ] = p],
                                  !.red[succ] = t.red[n]], n, succ, p)
    IN IF left = NULL \/ right = NULL
       THEN [t |-> Splice(t, n, only, p),
             rebalance |-> IF only = NULL /\ ~t.red[n] THEN p ELSE NULL]
       ELSE [t |-> rb_set_parent_color(over, child2, up, FALSE),
             rebalance |-> IF child2 = NULL /\ ~t.red[succ] THEN up ELSE NULL]

(* rb_erase followed by RB_CLEAR_NODE, as every user of the tree in src/ does. *)
rb_erase(t, n) ==
    LET e == __rb_erase_augmented(t, n)
        fixed == IF e.rebalance = NULL THEN e.t ELSE ____rb_erase_color(e.t, e.rebalance)
    IN [fixed EXCEPT !.child = [s \in Side |-> [@[s] EXCEPT ![n] = NULL]],
                     !.parent[n] = n, !.red[n] = FALSE]

-----------------------------------------------------------------------------
(* Walking the tree. *)

rb_first(t) == IF t.root = NULL THEN NULL ELSE Deepest(t, t.root, "left")

(* The neighbour of n on side s: rb_next and rb_prev. *)
Neighbour(t, n, s) ==
    LET Up(x) == IF x.p # NULL /\ t.child[s][x.p] = x.n THEN [n |-> x.p, p |-> t.parent[x.p]] ELSE x
    IN IF RB_EMPTY_NODE(t, n) THEN NULL
       ELSE IF t.child[s][n] # NULL THEN Deepest(t, t.child[s][n], Other(s))
       ELSE Repeat(Up, [n |-> n, p |-> t.parent[n]]).p

rb_next(t, n) == Neighbour(t, n, "right")
rb_prev(t, n) == Neighbour(t, n, "left")

(* The nodes in the order rb_first and rb_next visit them. *)
InOrder(t) ==
    LET Visit(x) == IF x.n = NULL THEN x ELSE [n |-> rb_next(t, x.n), seq |-> Append(x.seq, x.n)]
    IN Repeat(Visit, [n |-> rb_first(t), seq |-> <<>>]).seq

Linked(t) == {n \in Node : ~RB_EMPTY_NODE(t, n)}

(* The black nodes from n up to the root. *)
BlackDepth(t, n) ==
    LET Up(x) == IF x.n = NULL THEN x
                 ELSE [n |-> t.parent[x.n], k |-> IF t.red[x.n] THEN x.k ELSE x.k + 1]
    IN Repeat(Up, [n |-> n, k |-> 0]).k

(* Properties 2, 4 and 5 of the comment at the head of rbtree.c, and that parent
   and child links agree. *)
RedBlack(t) ==
    /\ ~rb_is_red(t, t.root)
    /\ \A n \in Linked(t) :
          /\ \A s \in Side : LET c == t.child[s][n] IN c # NULL => t.parent[c] = n /\ ~(t.red[n] /\ t.red[c])
          /\ t.parent[n] = NULL <=> t.root = n
    /\ \A m, n \in Linked(t) :
          (\E s \in Side : t.child[s][m] = NULL) /\ (\E s \in Side : t.child[s][n] = NULL)
             => BlackDepth(t, m) = BlackDepth(t, n)
=============================================================================
