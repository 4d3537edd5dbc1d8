-------------------------------- MODULE Pavl --------------------------------
(***************************************************************************)
(* apps/lib/libavl/pavl.c: AVL trees with parent pointers.                 *)
(***************************************************************************)
EXTENDS ParentTree, AvlBalance

pavl_create == Empty({}, TRUE)

\* The rest of pavl_probe() once x has been added.
pavl_grow(t, x) ==
    LET above == Above(t, x) IN
    IF Root(t) = x THEN t ELSE Grow(t, [i \in DOMAIN above |-> above[i][1]], x)

pavl_probe(t, x) ==
    LET q == Last(Search(t, x)) IN
    IF q = x THEN t ELSE pavl_grow(Attach(t, q, Side(x, q), x), x)

\* The loop of pavl_delete() from where the tree lost a level.
pavl_shrink(t, lost) == Lighter(t, LostPath(t, lost))

pavl_delete(t, x) ==
    LET q == Last(Above(t, x))
        h == Heir(t, x, 1)
        t1 == Unlink(t, x, q[1], q[2])
        t2 == IF h = NULL THEN t1 ELSE SetB(t1, h, Bal(t, x))
    IN IF Found(t, x) THEN pavl_shrink(Freed(t2, x), Lost(t, x)) ELSE t

pavl_t_first(t) == ParentEnd(t, 0)
pavl_t_last(t) == ParentEnd(t, 1)
pavl_t_find(t, x) == ParentFind(t, x)
pavl_t_insert(t, x) == <<pavl_probe(t, x), At(x, <<>>)>>
pavl_t_next(t, trav) == ParentStep(t, trav, 1)
pavl_t_prev(t, trav) == ParentStep(t, trav, 0)
pavl_destroy(t) == ParentDestroy(t)
pavl_copy(t, left) == ParentCopy(t, left)
=============================================================================
