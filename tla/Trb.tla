-------------------------------- MODULE Trb ---------------------------------
(***************************************************************************)
(* apps/lib/libavl/trb.c: threaded red-black trees.                        *)
(***************************************************************************)
EXTENDS ThreadTree, RedBlack

\* The byte of trb_alloc, the pointer to the allocator, that lies where a node
\* has trb_tag[0] is TRB_THREAD.
CONSTANT TagSet

trb_create == Empty({0, 1}, FALSE)

\* The rest of trb_probe() once the red node x has been added below pa.
trb_redden(t, pa) == Blacken(Redden(t, pa))

trb_probe(t, x) ==
    LET path == Search(t, x)
        p == Last(path)
        pa == [i \in DOMAIN path |-> <<path[i], Side(x, path[i])>>]
    IN IF p = x THEN t ELSE trb_redden(SetB(Attach(t, p, Side(x, p), x), x, RED), pa)

\* The rest of trb_delete() when a black node was lost below pa.
trb_short(t, pa) ==
    LET t1 == Short(t, pa) IN IF Root(t1) # NULL THEN Blacken(t1) ELSE t1

\* The search starts at the table seen as a node, and first reads its tag.
trb_delete(t, x) ==
    LET path == Search(t, x)
        q == path[Len(path) - 1]
        h == Heir(t, x, 1)
        t1 == ThreadUnlink(t, x, q, Side(x, q))
        t2 == IF h = NULL THEN t1 ELSE SetB(t1, h, Bal(t, x))
        colour == IF h = NULL THEN Bal(t, x) ELSE Bal(t, h)
    IN IF TagSet \/ Last(path) # x THEN t
       ELSE Freed(IF colour = BLACK THEN trb_short(t2, LossPath(t, x, 1)) ELSE t2, x)

trb_t_first(t) == ThreadEnd(t, 0)
trb_t_last(t) == ThreadEnd(t, 1)
trb_t_find(t, x) == ThreadFind(t, x)
trb_t_insert(t, x) == <<trb_probe(t, x), At(x, <<>>)>>
trb_t_next(t, trav) == ThreadStep(t, trav, 1)
trb_t_prev(t, trav) == ThreadStep(t, trav, 0)
trb_destroy(t) == ThreadDestroy(t)
trb_copy(t, left) == ThreadCopy(t, left)
=============================================================================
