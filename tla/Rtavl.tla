------------------------------- MODULE Rtavl --------------------------------
(***************************************************************************)
(* apps/lib/libavl/rtavl.c: right-threaded AVL trees.                      *)
(***************************************************************************)
EXTENDS RightTree, AvlBalance

rtavl_create == Empty({1}, FALSE)

\* The rest of rtavl_probe() once x has been added below the path.
rtavl_grow(t, path, x) == IF Last(path) = ROOT THEN t ELSE Grow(t, path, x)

rtavl_probe(t, x) ==
    LET path == Search(t, x)
        p == Last(path)
    IN IF p = x THEN t ELSE rtavl_grow(Attach(t, p, Side(x, p), x), path, x)

\* The loop of rtavl_delete().
rtavl_shrink(t, pa) == Lighter(t, pa)

rtavl_delete(t, x) ==
    LET path == Search(t, x)
        q == path[Len(path) - 1]
        h == Heir(t, x, 0)
        t1 == RightUnlink(t, x, q, Side(x, q))
        t2 == IF h = NULL THEN t1 ELSE SetB(t1, h, Bal(t, x))
    IN IF Last(path) # x THEN t ELSE rtavl_shrink(Freed(t2, x), LossPath(t, x, 0))

rtavl_t_first(t) == ThreadEnd(t, 0)
rtavl_t_last(t) == ThreadEnd(t, 1)
rtavl_t_find(t, x) == ThreadFind(t, x)
rtavl_t_insert(t, x) == <<rtavl_probe(t, x), At(x, <<>>)>>
rtavl_t_next(t, trav) == RightStep(t, trav, 1)
rtavl_t_prev(t, trav) == RightStep(t, trav, 0)
rtavl_destroy(t) == ThreadDestroy(t)
rtavl_copy(t, left) == ThreadCopy(t, left)
=============================================================================
