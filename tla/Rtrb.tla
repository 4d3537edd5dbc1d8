-------------------------------- MODULE Rtrb --------------------------------
(***************************************************************************)
(* apps/lib/libavl/rtrb.c: right-threaded red-black trees.                 *)
(***************************************************************************)
EXTENDS RightTree, RedBlack

rtrb_create == Empty({1}, FALSE)

\* The rest of rtrb_probe() once the red node x has been added below pa.
rtrb_redden(t, pa) == Blacken(Redden(t, pa))

rtrb_probe(t, x) ==
    LET path == Search(t, x)
        p == Last(path)
        pa == [i \in DOMAIN path |-> <<path[i], Side(x, path[i])>>]
    IN IF p = x THEN t ELSE rtrb_redden(SetB(Attach(t, p, Side(x, p), x), x, RED), pa)

\* The rest of rtrb_delete() when a black node was lost below pa.
rtrb_short(t, pa) ==
    LET t1 == Short(t, pa) IN IF Root(t1) # NULL THEN Blacken(t1) ELSE t1

rtrb_delete(t, x) ==
    LET path == Search(t, x)
        q == path[Len(path) - 1]
        h == Heir(t, x, 0)
        t1 == RightUnlink(t, x, q, Side(x, q))
        t2 == IF h = NULL THEN t1 ELSE SetB(t1, h, Bal(t, x))
        colour == IF h = NULL THEN Bal(t, x) ELSE Bal(t, h)
    IN IF Last(path) # x THEN t
       ELSE Freed(IF colour = BLACK THEN rtrb_short(t2, LossPath(t, x, 0)) ELSE t2, x)

rtrb_t_first(t) == ThreadEnd(t, 0)
rtrb_t_last(t) == ThreadEnd(t, 1)
rtrb_t_find(t, x) == ThreadFind(t, x)
rtrb_t_insert(t, x) == <<rtrb_probe(t, x), At(x, <<>>)>>
rtrb_t_next(t, trav) == RightStep(t, trav, 1)
rtrb_t_prev(t, trav) == RightStep(t, trav, 0)
rtrb_destroy(t) == ThreadDestroy(t)
rtrb_copy(t, left) == ThreadCopy(t, left)
=============================================================================
