-------------------------------- MODULE Avl ---------------------------------
(***************************************************************************)
(* apps/lib/libavl/avl.c: AVL trees.  A node's balance is the height of    *)
(* its right side minus that of its left; rebalancing is in AvlBalance.    *)
(***************************************************************************)
EXTENDS PlainTree, AvlBalance

avl_create == Empty({}, FALSE)

\* The rest of avl_probe() once x has been added below the path.
avl_grow(t, path, x) == IF Last(path) = ROOT THEN t ELSE Grow(t, path, x)

avl_probe(t, x) ==
    LET path == Search(t, x)
        q == Last(path)
    IN IF q = x THEN t
       ELSE avl_grow(SetL(t, q, Side(x, q), x), path, x)

\* The loop of avl_delete() up the path pa.
avl_shrink(t, pa) == Lighter(t, pa)

avl_delete(t, x) ==
    LET path == Search(t, x)
        q == path[Len(path) - 1]
        h == Heir(t, x, 1)
        t1 == Unlink(t, x, q, Side(x, q))
        t2 == IF h = NULL THEN t1 ELSE SetB(t1, h, Bal(t, x))
    IN IF Last(path) # x THEN t ELSE Moved(Freed(avl_shrink(t2, LossPath(t, x, 1)), x))

avl_t_first(t) == PlainEnd(t, 0)
avl_t_last(t) == PlainEnd(t, 1)
avl_t_find(t, x) == PlainFind(t, x)

\* Mutant: the traverser is set to an item that was not added.
avl_t_insert_lost(t, x) == <<t, Stale(x)>>

\* The generation is set to one before the tree's, which makes the next
\* step refresh the stack.
avl_t_insert(t, x) == <<avl_probe(t, x), Stale(x)>>

avl_t_next(t, trav) == PlainStep(t, trav, 1)
avl_t_prev(t, trav) == PlainStep(t, trav, 0)
avl_destroy(t) == PlainDestroy(t)
avl_copy(t, left) == PlainCopy(t, left, 2 * N)
=============================================================================
