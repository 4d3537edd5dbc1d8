-------------------------------- MODULE Bst ---------------------------------
(***************************************************************************)
(* apps/lib/libavl/bst.c: binary search trees whose traversers keep a      *)
(* stack of at most BST_MAX_HEIGHT ancestors and rebalance the tree when   *)
(* it is too short for a path.                                             *)
(***************************************************************************)
EXTENDS PlainTree, Vine

CONSTANT BST_MAX_HEIGHT

bst_create == Empty({}, FALSE)

bst_probe(t, x) ==
    LET q == Last(Search(t, x)) IN
    IF q = x THEN t ELSE SetL(t, q, Side(x, q), x)

\* Mutant: the generation stays.
bst_delete_no_bump(t, x) ==
    LET path == Search(t, x)
        q == path[Len(path) - 1]
    IN IF Last(path) # x THEN t ELSE Freed(Unlink(t, x, q, Side(x, q)), x)

bst_delete(t, x) ==
    LET path == Search(t, x)
        q == path[Len(path) - 1]
    IN IF Last(path) # x THEN t ELSE Moved(Freed(Unlink(t, x, q, Side(x, q)), x))

bst_balance(t) == Moved(vine_to_tree(tree_to_vine(t)))

(***************************************************************************)
(* Traversers.  A result is the tree and the traverser; a path that does   *)
(* not fit the stack has the tree balanced and the operation done again.   *)
(***************************************************************************)
Fits(stack) == Len(stack) <= BST_MAX_HEIGHT

\* The balanced tree, its generation already that of the traverser.
Balanced(t) == [bst_balance(t) EXCEPT !.moved = FALSE]

RECURSIVE bst_t_end(_, _)
bst_t_end(t, d) ==
    IF Fits(PlainEnd(t, d).stack) THEN <<t, PlainEnd(t, d)>> ELSE bst_t_end(Balanced(t), d)

bst_t_first(t) == bst_t_end(t, 0)
bst_t_last(t) == bst_t_end(t, 1)

\* What a search for x pushes.
Passed(t, x) == IF Found(t, x) THEN Ancestors(Search(t, x)) ELSE Tail(Search(t, x))

RECURSIVE bst_t_find(_, _)
bst_t_find(t, x) ==
    IF Fits(Passed(t, x)) THEN <<t, PlainFind(t, x)>> ELSE bst_t_find(Balanced(t), x)

RECURSIVE bst_t_insert(_, _)
bst_t_insert(t, x) ==
    IF Fits(Passed(t, x)) THEN <<bst_probe(t, x), At(x, Passed(t, x))>>
    ELSE bst_t_insert(Balanced(t), x)

RECURSIVE bst_t_step(_, _, _)
bst_t_step(t, trav, d) ==
    IF Fits(PlainStep(t, trav, d).stack) THEN <<t, PlainStep(t, trav, d)>>
    ELSE bst_t_step(Balanced(t), Stale(trav.node), d)

bst_t_next(t, trav) == bst_t_step(t, trav, 1)
bst_t_prev(t, trav) == bst_t_step(t, trav, 0)

bst_destroy(t) == PlainDestroy(t)

\* The tree copied from, balanced if it is too tall for the copy's stack of
\* 2 * (BST_MAX_HEIGHT + 1), and the copy.
bst_copy(t, left) ==
    LET r == PlainCopy(t, left, BST_MAX_HEIGHT + 1) IN
    IF r.is = "too tall"
    THEN <<bst_balance(t), PlainCopy(bst_balance(t), left, BST_MAX_HEIGHT + 1)>>
    ELSE <<t, r>>
=============================================================================
