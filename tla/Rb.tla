--------------------------------- MODULE Rb ---------------------------------
(***************************************************************************)
(* apps/lib/libavl/rb.c: red-black trees; recolouring is in RedBlack.      *)
(***************************************************************************)
EXTENDS PlainTree, RedBlack

rb_create == Empty({}, FALSE)

\* Mutant: the root may stay red.
rb_redden_root_red(t, pa) == Redden(t, pa)

\* The rest of rb_probe() once the red node x has been added below pa.
rb_redden(t, pa) == Blacken(Redden(t, pa))

rb_probe(t, x) ==
    LET path == Search(t, x)
        q == Last(path)
        pa == [i \in DOMAIN path |-> <<path[i], Side(x, path[i])>>]
    IN IF q = x THEN t ELSE Moved(rb_redden(SetB(SetL(t, q, Side(x, q), x), x, RED), pa))

\* The loop of rb_delete() when a black node was lost below pa.
rb_short(t, pa) == Short(t, pa)

rb_delete(t, x) ==
    LET path == Search(t, x)
        q == path[Len(path) - 1]
        h == Heir(t, x, 1)
        t1 == Unlink(t, x, q, Side(x, q))
        t2 == IF h = NULL THEN t1 ELSE SetB(t1, h, Bal(t, x))
        colour == IF h = NULL THEN Bal(t, x) ELSE Bal(t, h)
    IN IF Last(path) # x THEN t
       ELSE Moved(Freed(IF colour = BLACK THEN rb_short(t2, LossPath(t, x, 1)) ELSE t2, x))

rb_t_first(t) == PlainEnd(t, 0)
rb_t_last(t) == PlainEnd(t, 1)
rb_t_find(t, x) == PlainFind(t, x)

\* Mutant: the traverser is set to the root.
rb_t_insert_root(t, x) == <<rb_probe(t, x), Stale(Root(rb_probe(t, x)))>>

rb_t_insert(t, x) == <<rb_probe(t, x), Stale(x)>>
rb_t_next(t, trav) == PlainStep(t, trav, 1)
rb_t_prev(t, trav) == PlainStep(t, trav, 0)
rb_destroy(t) == PlainDestroy(t)
rb_copy(t, left) == PlainCopy(t, left, 2 * N)
=============================================================================
