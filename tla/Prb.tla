-------------------------------- MODULE Prb ---------------------------------
(***************************************************************************)
(* apps/lib/libavl/prb.c: red-black trees with parent pointers.            *)
(***************************************************************************)
EXTENDS ParentTree, RedBlack

prb_create == Empty({}, TRUE)

\* The rest of prb_probe() once the red node x has been added.
prb_redden(t, x) == Blacken(Redden(t, Above(t, x)))

prb_probe(t, x) ==
    LET q == Last(Search(t, x)) IN
    IF q = x THEN t ELSE prb_redden(SetB(Attach(t, q, Side(x, q), x), x, RED), x)

\* The loop of prb_delete() from where a black node was lost.
prb_short(t, lost) == Short(t, LostPath(t, lost))

prb_delete(t, x) ==
    LET q == Last(Above(t, x))
        h == Heir(t, x, 1)
        t1 == Unlink(t, x, q[1], q[2])
        t2 == IF h = NULL THEN t1 ELSE SetB(t1, h, Bal(t, x))
        colour == IF h = NULL THEN Bal(t, x) ELSE Bal(t, h)
    IN IF ~Found(t, x) THEN t
       ELSE Freed(IF colour = BLACK THEN prb_short(t2, Lost(t, x)) ELSE t2, x)

prb_t_first(t) == ParentEnd(t, 0)
prb_t_last(t) == ParentEnd(t, 1)
prb_t_find(t, x) == ParentFind(t, x)
prb_t_insert(t, x) == <<prb_probe(t, x), At(x, <<>>)>>
prb_t_next(t, trav) == ParentStep(t, trav, 1)
prb_t_prev(t, trav) == ParentStep(t, trav, 0)
prb_destroy(t) == ParentDestroy(t)
prb_copy(t, left) == ParentCopy(t, left)
=============================================================================
